----------------------------- MODULE Signature -----------------------------
(***************************************************************************)
(* Who signed an act.  The curve is written out twice: in app/wallet.mjs,  *)
(* which signs for a member and checks what it signed, and in              *)
(* server/index.mjs, which decides from a signature alone whose act it is. *)
(* The two use different formulas for the same points, different inverses  *)
(* and a different infinity.  Numbers have no width in either.             *)
(*                                                                         *)
(* keccak is left out: a digest is any number, and an account is its       *)
(* public key.  The curve is y^2 = x^3 + 7 over any field in which the     *)
(* code's square root works, with a group of prime order below the prime   *)
(* of the field, as secp256k1 has.                                         *)
(***************************************************************************)
EXTENDS Integers, Sequences, FiniteSets, SequencesExt

CONSTANTS
  P, N, GX, GY,  \* the field, the order, the generator
  Keys,          \* private keys
  Digests        \* what there is to sign

ASSUME CurveAssumption ==
  /\ P % 4 = 3 /\ N \in 2 .. P
  /\ (GY * GY - GX * GX * GX - 7) % P = 0
  /\ Keys \subseteq 1 .. N - 1 /\ Digests \subseteq Nat

VARIABLES
  key,     \* the private key of whoever signs
  digest,  \* what is signed
  sig      \* the signature that arrives: [r, s, recid], and who made it

sigVars == <<key, digest, sig>>

None  == <<>>
NoSig == [by |-> "nobody", r |-> 0, s |-> 0, recid |-> 0]

SigInit == key \in Keys /\ digest \in Digests /\ sig = NoSig
-----------------------------------------------------------------------------
(* Bits of k, lowest first; and the loops that walk them.                  *)
Length(k) == CHOOSE n \in 0 .. k : 2 ^ n > k /\ \A m \in 0 .. n - 1 : 2 ^ m <= k
Bits(k)   == [i \in 1 .. Length(k) |-> (k \div 2 ^ (i - 1)) % 2]

(* Square and multiply, or double and add.                                 *)
Ladder(k, zero, base, Twice(_), Plus(_, _)) ==
  FoldLeft(LAMBDA st, bit : [acc |-> IF bit = 1 THEN Plus(st.acc, st.add) ELSE st.acc,
                             add |-> Twice(st.add)],
           [acc |-> zero, add |-> base], Bits(k)).acc

ModPow(base, exp, m) ==
  Ladder(exp, 1, base % m, LAMBDA b : (b * b) % m, LAMBDA a, b : (a * b) % m)
-----------------------------------------------------------------------------
(* app/wallet.mjs.                                                         *)
InvMod(a, m) ==
  LET euclid[lo \in Nat, hi \in Nat, x \in Int, y \in Int] ==
        IF lo <= 1 THEN x % m
        ELSE LET q == hi \div lo IN euclid[hi - q * lo, lo, y - q * x, x]
  IN euclid[a % m, m, 1, 0]

JZero == <<0, 1, 0>>

JDouble(p) ==
  LET A == (p[1] * p[1]) % P
      B == (p[2] * p[2]) % P
      C == (B * B) % P
      D == (2 * ((p[1] + B) * (p[1] + B) - A - C)) % P
      E == (3 * A) % P
      X == (E * E - 2 * D) % P
  IN IF p[2] = 0 \/ p[3] = 0 THEN JZero
     ELSE <<X, (E * (D - X) - 8 * C) % P, (2 * p[2] * p[3]) % P>>

JAdd(p, q) ==
  LET Z1 == (p[3] * p[3]) % P
      Z2 == (q[3] * q[3]) % P
      U1 == (p[1] * Z2) % P
      U2 == (q[1] * Z1) % P
      S1 == (p[2] * q[3] * Z2) % P
      S2 == (q[2] * p[3] * Z1) % P
      H  == (U2 - U1) % P
      I  == (4 * H * H) % P
      J  == (H * I) % P
      r  == (2 * (S2 - S1)) % P
      V  == (U1 * I) % P
      X  == (r * r - J - 2 * V) % P
  IN CASE p[3] = 0 -> q
       [] q[3] = 0 -> p
       [] U1 = U2 /\ S1 # S2 -> JZero
       [] U1 = U2 /\ S1 = S2 -> JDouble(p)
       [] OTHER -> <<X, (r * (V - X) - 2 * S1 * J) % P,
                     (((p[3] + q[3]) * (p[3] + q[3]) - Z1 - Z2) * H) % P>>

JMul(k, p) == Ladder(k, JZero, p, JDouble, JAdd)

ToAffine(p) ==
  LET zi == InvMod(p[3], P)
  IN IF p[3] = 0 THEN None ELSE <<(p[1] * zi * zi) % P, (((p[2] * zi * zi) % P) * zi) % P>>

G == <<GX, GY, 1>>

PublicKeyOf(d) == ToAffine(JMul(d, G))
-----------------------------------------------------------------------------
(* server/index.mjs.                                                       *)
ModInv(a, m) == ModPow(a, m - 2, m)

Inf == <<0, 0, 0>>

HostDouble(p) ==
  LET A == (p[1] * p[1]) % P
      B == (p[2] * p[2]) % P
      C == (B * B) % P
      D == (2 * (((p[1] + B) * (p[1] + B)) % P) - 2 * A - 2 * C) % P
      E == (3 * A) % P
      X == (E * E - 2 * D) % P
  IN IF p[3] = 0 \/ p[2] = 0 THEN Inf
     ELSE <<X, (E * ((D - X) % P) - 8 * C) % P, (2 * p[2] * p[3]) % P>>

HostAdd(p, q) ==
  LET Z1 == (p[3] * p[3]) % P
      Z2 == (q[3] * q[3]) % P
      U1 == (p[1] * Z2) % P
      U2 == (q[1] * Z1) % P
      S1 == (((p[2] * q[3]) % P) * Z2) % P
      S2 == (((q[2] * p[3]) % P) * Z1) % P
      H  == (U2 - U1) % P
      r  == (S2 - S1) % P
      HH == (H * H) % P
      V  == (U1 * HH) % P
      X  == (r * r - H * HH - 2 * V) % P
  IN CASE p[3] = 0 -> q
       [] p[3] # 0 /\ q[3] = 0 -> p
       [] p[3] # 0 /\ q[3] # 0 /\ H = 0 -> IF r = 0 THEN HostDouble(p) ELSE Inf
       [] OTHER -> <<X, (r * ((V - X) % P) - S1 * ((H * HH) % P)) % P,
                     (((p[3] * q[3]) % P) * H) % P>>

HostMul(k, p) == Ladder(k, Inf, p, HostDouble, HostAdd)

HostAffine(p) ==
  LET zi == ModInv(p[3], P)
  IN IF p[3] = 0 THEN None ELSE <<(p[1] * zi * zi) % P, (((p[2] * zi * zi) % P) * zi) % P>>
-----------------------------------------------------------------------------
(* A signature over the digest with nonce k, from a point R = k * G and an *)
(* inverse of k: the lower of the two values of s, the parity of the point *)
(* it then belongs to, and whether its x was beyond the order.             *)
Signed_KeepsParity(R, ki) ==
  LET r == R[1] % N
      s == (ki * ((digest % N) + r * key)) % N
  IN [r |-> r, s |-> IF s > N \div 2 THEN N - s ELSE s, recid |-> R[2] % 2]

Signed(R, ki) ==
  LET r    == R[1] % N
      s    == (ki * ((digest % N) + r * key)) % N
      high == s > N \div 2
  IN [r |-> r, s |-> IF high THEN N - s ELSE s,
      recid |-> (IF R[1] >= N THEN 2 ELSE 0) + (IF high THEN 1 - (R[2] % 2) ELSE R[2] % 2)]

(* Another nonce is taken when r or s comes out zero.                      *)
Usable(sg) == sg.r # 0 /\ sg.s # 0

By(who, sg) == [by |-> who, r |-> sg.r, s |-> sg.s, recid |-> sg.recid]

(* signDigest of the wallet.                                               *)
SignDigest(k) ==
  LET sg == Signed(ToAffine(JMul(k, G)), InvMod(k, N))
  IN Usable(sg) /\ sig' = By("wallet", sg) /\ UNCHANGED <<key, digest>>

(* signHash of the host, which its own tools sign with.                    *)
SignHash(k) ==
  LET sg == Signed(HostAffine(HostMul(k, G)), ModInv(k, N))
  IN Usable(sg) /\ sig' = By("host", sg) /\ UNCHANGED <<key, digest>>

(* Any three numbers may be sent.                                          *)
Send(r, s, recid) ==
  sig' = [by |-> "anybody", r |-> r, s |-> s, recid |-> recid] /\ UNCHANGED <<key, digest>>

SigNext ==
  /\ sig = NoSig
  /\ \/ \E k \in 1 .. N - 1 : SignDigest(k) \/ SignHash(k)
     \/ \E r, s \in 0 .. N, recid \in 0 .. 3 : Send(r, s, recid)
-----------------------------------------------------------------------------
(* The point a signature names: its x, and of the two roots the one with   *)
(* the parity asked for.                                                   *)
InRange(sg) == sg.r \in 1 .. N - 1 /\ sg.s \in 1 .. N - 1

PointNamed(sg) ==
  LET x  == IF sg.recid >= 2 THEN sg.r + N ELSE sg.r
      sq == (x * x * x + 7) % P
      y  == ModPow(sq, (P + 1) \div 4, P)
  IN IF ~InRange(sg) \/ x >= P \/ (y * y) % P # sq THEN None
     ELSE <<x, IF y % 2 = sg.recid % 2 THEN y ELSE P - y, 1>>

(* recoverPublicKey of the wallet: the inverse of r on both terms.         *)
RecoverPublicKey(sg) ==
  LET R == PointNamed(sg)
  IN IF R = None THEN None
     ELSE ToAffine(JMul(InvMod(sg.r, N), JAdd(JMul(sg.s, R), JMul((0 - digest) % N, G))))

(* recoverAddressBuiltin of the host.                                      *)
RecoverAddress(sg) ==
  LET R == PointNamed(sg)
      e == digest % N
  IN IF R = None THEN None
     ELSE HostAffine(HostMul(ModInv(sg.r, N), HostAdd(HostMul(sg.s, R), HostMul((N - e) % N, G))))
-----------------------------------------------------------------------------
SignerRecovered ==
  sig.by \in {"wallet", "host"} =>
    /\ RecoverAddress(sig) = PublicKeyOf(key)
    /\ sig.s <= N \div 2

VerifiersAgree == RecoverAddress(sig) = RecoverPublicKey(sig)

(* A signature made by either side is of the account that made it, on the  *)
(* other side too, and in its lower form; and three numbers sent by        *)
(* anybody are an act of the same account to both, or of none: there is no *)
(* build of the host that takes what another refuses.                      *)
OneSigner == SignerRecovered /\ VerifiersAgree
=============================================================================
