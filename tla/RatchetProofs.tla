---------------------------- MODULE RatchetProofs ----------------------------
(***************************************************************************)
(* What the methods of one DoubleRatchet keep and do, for any MAX_SKIP:    *)
(* the lemmas on which the proofs about the channel rest.  A message key   *)
(* that has opened a message is spent, that is, it lies behind the         *)
(* receiving chain and is not in the store of skipped keys, and no method  *)
(* of the ratchet brings it back; while the store has room, skipping sets  *)
(* aside exactly the keys between the chain and the message.  Link and     *)
(* InTouch, at the end, relate a ratchet to the one it talks to.           *)
(***************************************************************************)
EXTENDS DoubleRatchet, TLAPS

(* What the operators on sequences return, as the arguments below need it. *)
LEMMA SeqIs == \A S : Seq(S) = UNION {[1 .. n -> S] : n \in Nat}
OBVIOUS

(* The elements of a sequence. *)
LEMMA ElementOf == ASSUME NEW S, NEW q \in Seq(S), NEW i \in 1 .. Len(q) PROVE q[i] \in S
OBVIOUS

(* A sequence is a function on the numbers up to its length. *)
LEMMA LenIs ==
    ASSUME NEW S, NEW q \in Seq(S)
    PROVE  Len(q) \in Nat /\ DOMAIN q = 1 .. Len(q) /\ q \in [1 .. Len(q) -> S]
OBVIOUS

(* Sequences are equal when their elements are. *)
LEMMA SameSeq ==
    ASSUME NEW S, NEW p \in Seq(S), NEW q \in Seq(S), Len(p) = Len(q),
           \A i \in 1 .. Len(p) : p[i] = q[i]
    PROVE  p = q
OBVIOUS

(* Concatenation, on which skip_message_keys and Without rest. *)
LEMMA ConcatIs ==
    ASSUME NEW S, NEW p \in Seq(S), NEW q \in Seq(S)
    PROVE  /\ p \o q \in Seq(S) /\ Len(p \o q) = Len(p) + Len(q)
           /\ \A i \in 1 .. Len(p) + Len(q) :
                 (p \o q)[i] = IF i <= Len(p) THEN p[i] ELSE q[i - Len(p)]
OBVIOUS

(* A part of a sequence, on which Newest and Without rest. *)
LEMMA SubSeqIs ==
    ASSUME NEW S, NEW q, NEW a \in Int, NEW b \in Int, \A i \in a .. b : q[i] \in S
    PROVE  /\ SubSeq(q, a, b) \in Seq(S)
           /\ Len(SubSeq(q, a, b)) = IF a <= b THEN b - a + 1 ELSE 0
           /\ \A i \in 1 .. b - a + 1 : SubSeq(q, a, b)[i] = q[a + i - 1]
OBVIOUS

(* One more element, as kdf_rk appends a DH output to a root. *)
LEMMA AppendIs ==
    ASSUME NEW S, NEW q \in Seq(S), NEW x \in S
    PROVE  /\ Append(q, x) \in Seq(S) /\ Append(q, x) # << >> /\ Len(Append(q, x)) = Len(q) + 1
           /\ \A i \in 1 .. Len(q) : Append(q, x)[i] = q[i]
           /\ Append(q, x)[Len(q) + 1] = x
OBVIOUS

(* What was there before is still there. *)
LEMMA AppendPrefix ==
    ASSUME NEW S, NEW q \in Seq(S), NEW x \in S
    PROVE  /\ Len(Append(q, x)) = Len(q) + 1 /\ Len(q) \in Nat
           /\ SubSeq(Append(q, x), 1, Len(q)) = q
OBVIOUS

-----------------------------------------------------------------------------
Chains == [root : Seq(SUBSET Nat), n : Nat]

Stored == [dh_public : Nat \cup {None}, message_num : Nat, message_key : Chains]

Ratchets ==
    [dh_self : Nat, dh_remote : Nat \cup {None}, root_key : Seq(SUBSET Nat),
     chain_key_send : Chains \cup {None}, chain_key_recv : Chains \cup {None},
     send_count : Nat, recv_count : Nat, prev_send_count : Nat,
     skipped_keys : Seq(Stored), received_messages : SUBSET (Nat \X Nat),
     session_master_key : (Seq(SUBSET Nat) \X (Chains \cup {None})) \cup {None},
     session_key_generation : Nat]

(* What one end seals for the other. *)
Messages ==
    {m \in [to : {"initiator", "responder"}, dh_public : Nat, prev_chain_len : Nat,
            message_num : Nat, key : Chains] : m.key # None}

(* Key k belongs to no later position of the receiving chain, nor to a chain still
   to come, whose root is longer than today's. *)
Behind(k, s) ==
    /\ Len(k.root) <= Len(s.root_key)
    /\ s.chain_key_recv # None /\ s.chain_key_recv.root = k.root => k.n < s.chain_key_recv.n

Spent(k, s) ==
    /\ Behind(k, s)
    /\ \A i \in 1 .. Len(s.skipped_keys) : s.skipped_keys[i].message_key # k

Distinct(q) ==
    \A i, j \in 1 .. Len(q) : q[i].message_key = q[j].message_key => i = j

Good(s) ==
    /\ s \in Ratchets
    /\ s.chain_key_recv # None => Len(s.chain_key_recv.root) <= Len(s.root_key)
    /\ \A i \in 1 .. Len(s.skipped_keys) : Behind(s.skipped_keys[i].message_key, s)
    /\ Distinct(s.skipped_keys)
    /\ Len(s.skipped_keys) <= MAX_SKIP

(* From s to t no spent key comes back, and the key generation does not fall. *)
Keeps(s, t) ==
    /\ \A k \in Chains : Spent(k, s) => Spent(k, t)
    /\ s.session_key_generation <= t.session_key_generation

(* The part of the state the root depends on. *)
SameRoot(s, t) ==
    t.root_key = s.root_key /\ t.dh_self = s.dh_self /\ t.dh_remote = s.dh_remote

-----------------------------------------------------------------------------
(* The store of skipped keys *)

(* Newest keeps the last MAX_SKIP entries, in place. *)
LEMMA NewestKeeps ==
    ASSUME NEW q \in Seq(Stored)
    PROVE  /\ Newest(q) \in Seq(Stored)
           /\ Len(Newest(q)) <= MAX_SKIP
           /\ \E d \in Nat : /\ Len(Newest(q)) + d = Len(q)
                             /\ \A i \in 1 .. Len(Newest(q)) : Newest(q)[i] = q[i + d]
<1>1. Len(q) \in Nat /\ MAX_SKIP \in Nat /\ \A i \in 1 .. Len(q) : q[i] \in Stored
  BY RatchetConstants, ElementOf, LenIs
<1>2. CASE Len(q) > MAX_SKIP
  <2> DEFINE m == Len(q) - MAX_SKIP + 1
             r == SubSeq(q, m, Len(q))
  <2>1. m \in Int /\ Len(q) \in Int /\ \A i \in m .. Len(q) : q[i] \in Stored
    BY <1>1, <1>2
  <2> HIDE DEF m
  <2>2. /\ r \in Seq(Stored)
        /\ Len(r) = IF m <= Len(q) THEN Len(q) - m + 1 ELSE 0
        /\ \A i \in 1 .. Len(q) - m + 1 : r[i] = q[m + i - 1]
    BY <2>1, SubSeqIs
  <2>3. Newest(q) = r
    BY Zenon, <1>2 DEF Newest, m
  <2> HIDE DEF r
  <2>4. Len(r) = MAX_SKIP
    BY <1>1, <1>2, <2>2 DEF m
  <2>5. \A i \in 1 .. Len(r) : r[i] = q[i + (Len(q) - MAX_SKIP)]
    <3> TAKE i \in 1 .. Len(r)
    <3>1. i \in 1 .. Len(q) - m + 1 /\ m + i - 1 = i + (Len(q) - MAX_SKIP)
      BY <1>1, <2>4 DEF m
    <3> QED BY <2>2, <3>1
  <2>6. Len(q) - MAX_SKIP \in Nat /\ Len(r) + (Len(q) - MAX_SKIP) = Len(q)
    BY <1>1, <1>2, <2>4
  <2>7. \E d \in Nat : Len(r) + d = Len(q) /\ \A i \in 1 .. Len(r) : r[i] = q[i + d]
    <3> DEFINE d == Len(q) - MAX_SKIP
    <3>1. d \in Nat /\ Len(r) + d = Len(q) /\ \A i \in 1 .. Len(r) : r[i] = q[i + d]
      BY <2>5, <2>6
    <3> HIDE DEF d
    <3> QED BY Zenon, <3>1
  <2>8. Len(r) <= MAX_SKIP
    BY <1>1, <2>4
  <2> QED BY Zenon, <2>2, <2>3, <2>7, <2>8
<1>3. CASE ~ (Len(q) > MAX_SKIP)
  <2>1. Newest(q) = q
    BY <1>3 DEF Newest
  <2>2. 0 \in Nat /\ Len(q) + 0 = Len(q) /\ \A i \in 1 .. Len(q) : q[i] = q[i + 0]
    BY <1>1
  <2>3. \E d \in Nat : Len(q) + d = Len(q) /\ \A i \in 1 .. Len(q) : q[i] = q[i + d]
    BY Zenon, <2>2
  <2>4. Len(q) <= MAX_SKIP
    BY <1>1, <1>3
  <2> QED BY Zenon, <2>1, <2>3, <2>4
<1> QED BY Zenon, <1>2, <1>3

(* Without takes out one entry and keeps the others. *)
LEMMA WithoutKeeps ==
    ASSUME NEW q \in Seq(Stored), NEW x \in 1 .. Len(q)
    PROVE  /\ Without(q, x) \in Seq(Stored)
           /\ Len(Without(q, x)) = Len(q) - 1
           /\ \A i \in 1 .. Len(q) - 1 :
                 Without(q, x)[i] = IF i < x THEN q[i] ELSE q[i + 1]
<1>1. Len(q) \in Nat /\ x \in Nat /\ \A i \in 1 .. Len(q) : q[i] \in Stored
  BY ElementOf, LenIs
<1> DEFINE a == SubSeq(q, 1, x - 1)
           b == SubSeq(q, x + 1, Len(q))
<1>2. /\ a \in Seq(Stored) /\ Len(a) = x - 1
      /\ \A i \in 1 .. x - 1 : a[i] = q[i]
  <2>1. 1 \in Int /\ x - 1 \in Int /\ \A i \in 1 .. x - 1 : q[i] \in Stored
    BY <1>1
  <2>2. /\ a \in Seq(Stored) /\ Len(a) = IF 1 <= x - 1 THEN x - 1 - 1 + 1 ELSE 0
        /\ \A i \in 1 .. x - 1 - 1 + 1 : a[i] = q[1 + i - 1]
    BY <2>1, SubSeqIs
  <2> HIDE DEF a
  <2>3. \A i \in 1 .. x - 1 : i \in 1 .. x - 1 - 1 + 1 /\ 1 + i - 1 = i
    BY <1>1
  <2>4. Len(a) = x - 1
    BY <1>1, <2>2
  <2>5. \A i \in 1 .. x - 1 : a[i] = q[i]
    BY <2>2, <2>3
  <2> QED BY <2>2, <2>4, <2>5
<1>3. /\ b \in Seq(Stored) /\ Len(b) = Len(q) - x
      /\ \A i \in 1 .. Len(q) - x : b[i] = q[x + i]
  <2>1. x + 1 \in Int /\ Len(q) \in Int /\ \A i \in x + 1 .. Len(q) : q[i] \in Stored
    BY <1>1
  <2>2. /\ b \in Seq(Stored) /\ Len(b) = IF x + 1 <= Len(q) THEN Len(q) - (x + 1) + 1 ELSE 0
        /\ \A i \in 1 .. Len(q) - (x + 1) + 1 : b[i] = q[x + 1 + i - 1]
    BY <2>1, SubSeqIs
  <2> HIDE DEF b
  <2>3. \A i \in 1 .. Len(q) - x : i \in 1 .. Len(q) - (x + 1) + 1 /\ x + 1 + i - 1 = x + i
    BY <1>1
  <2>4. Len(b) = Len(q) - x
    BY <1>1, <2>2
  <2>5. \A i \in 1 .. Len(q) - x : b[i] = q[x + i]
    BY <2>2, <2>3
  <2> QED BY <2>2, <2>4, <2>5
<1>4. Without(q, x) = a \o b
  BY DEF Without
<1> HIDE DEF a, b
<1>5. /\ a \o b \in Seq(Stored) /\ Len(a \o b) = Len(a) + Len(b)
      /\ \A i \in 1 .. Len(a) + Len(b) : (a \o b)[i] = IF i <= Len(a) THEN a[i] ELSE b[i - Len(a)]
  BY Zenon, <1>2, <1>3, ConcatIs
<1>6. Len(a) + Len(b) = Len(q) - 1
  BY <1>1, <1>2, <1>3
<1>7. ASSUME NEW i \in 1 .. Len(q) - 1
      PROVE  (a \o b)[i] = IF i < x THEN q[i] ELSE q[i + 1]
  <2>1. CASE i < x
    <3>1. i <= Len(a) /\ i \in 1 .. x - 1 /\ i \in 1 .. Len(a) + Len(b)
      BY <1>1, <1>2, <1>6, <2>1
    <3> QED BY <1>2, <1>5, <2>1, <3>1
  <2>2. CASE ~ (i < x)
    <3>1. /\ ~ (i <= Len(a)) /\ i - Len(a) \in 1 .. Len(q) - x
          /\ i \in 1 .. Len(a) + Len(b) /\ x + (i - Len(a)) = i + 1
      BY <1>1, <1>2, <1>6, <2>2
    <3> QED BY Zenon, <1>3, <1>5, <2>2, <3>1
  <2> QED BY Zenon, <2>1, <2>2
<1> QED BY <1>4, <1>5, <1>6, <1>7

(* try_skipped_keys, which walks the store from its front, stops at a key for the
   message if there is one.  DualChannelProofs shows it at its end, from the library's
   theorems on well-founded orders: what comes before does without their definitions. *)
SearchFinds ==
    \A s \in Ratchets : \A m : SkippedAt(s, m) # {} => FirstSkipped(s, m) \in SkippedAt(s, m)

(* The place try_skipped_keys takes the key from is one where it found it. *)
LEMMA FirstSkippedIsThere ==
    ASSUME SearchFinds, NEW s \in Ratchets, NEW m, SkippedAt(s, m) # {}
    PROVE  FirstSkipped(s, m) \in 1 .. Len(s.skipped_keys) /\ Fits(s.skipped_keys[FirstSkipped(s, m)], m)
<1>1. s.skipped_keys \in Seq(Stored)
  BY DEF Ratchets
<1>2. DOMAIN s.skipped_keys = 1 .. Len(s.skipped_keys)
  BY <1>1
<1>3. FirstSkipped(s, m) \in SkippedAt(s, m)
  BY Zenon DEF SearchFinds
<1> QED BY <1>2, <1>3 DEF SkippedAt

-----------------------------------------------------------------------------
(* What the methods of the ratchet keep *)

(* The keys in the store are chain positions. *)
LEMMA StoredKeys ==
    ASSUME NEW s \in Ratchets
    PROVE  /\ s.skipped_keys \in Seq(Stored) /\ Len(s.skipped_keys) \in Nat
           /\ \A i \in 1 .. Len(s.skipped_keys) : s.skipped_keys[i].message_key \in Chains
<1>1. s.skipped_keys \in Seq(Stored)
  BY DEF Ratchets
<1>2. \A i \in 1 .. Len(s.skipped_keys) : s.skipped_keys[i] \in Stored
  BY <1>1, ElementOf
<1>3. Len(s.skipped_keys) \in Nat
  BY <1>1, LenIs
<1> QED BY <1>1, <1>2, <1>3 DEF Stored

(* Keeping is transitive. *)
LEMMA KeepsTrans ==
    ASSUME NEW s \in Ratchets, NEW t \in Ratchets, NEW u \in Ratchets, Keeps(s, t), Keeps(t, u)
    PROVE  Keeps(s, u)
<1>1. {s.session_key_generation, t.session_key_generation, u.session_key_generation} \subseteq Nat
  BY DEF Ratchets
<1> QED BY <1>1 DEF Keeps

(* An update that leaves root, receiving chain and store alone keeps everything. *)
LEMMA SameStoreKeeps ==
    ASSUME NEW s, Good(s), NEW t \in Ratchets,
           t.chain_key_recv = s.chain_key_recv, t.skipped_keys = s.skipped_keys,
           Len(s.root_key) <= Len(t.root_key),
           s.session_key_generation <= t.session_key_generation
    PROVE  Good(t) /\ Keeps(s, t)
<1>1. s \in Ratchets
  BY DEF Good
<1>2. Len(s.root_key) \in Nat /\ Len(t.root_key) \in Nat
  BY <1>1 DEF Ratchets
<1>3. ASSUME NEW k \in Chains, Behind(k, s) PROVE Behind(k, t)
  <2>1. Len(k.root) \in Nat
    BY DEF Chains
  <2> QED BY <1>2, <1>3, <2>1 DEF Behind
<1>4. \A i \in 1 .. Len(s.skipped_keys) : s.skipped_keys[i].message_key \in Chains
  BY <1>1, StoredKeys
<1>5. s.chain_key_recv # None => s.chain_key_recv \in Chains /\ Len(s.chain_key_recv.root) \in Nat
  BY <1>1 DEF Ratchets, Chains
<1>6. Good(t)
  BY <1>2, <1>3, <1>4, <1>5 DEF Good
<1>7. Keeps(s, t)
  BY <1>3 DEF Keeps, Spent
<1> QED BY <1>6, <1>7

(* A new receiving chain under a longer root keeps everything. *)
LEMMA NewChainKeeps ==
    ASSUME NEW s, Good(s), NEW t \in Ratchets,
           t.chain_key_recv \in Chains, t.skipped_keys = s.skipped_keys,
           Len(s.root_key) < Len(t.chain_key_recv.root),
           Len(t.chain_key_recv.root) <= Len(t.root_key),
           s.session_key_generation <= t.session_key_generation
    PROVE  Good(t) /\ Keeps(s, t)
<1>1. s \in Ratchets
  BY DEF Good
<1>2. Len(s.root_key) \in Nat /\ Len(t.root_key) \in Nat /\ Len(t.chain_key_recv.root) \in Nat
  BY <1>1 DEF Ratchets, Chains
<1>3. ASSUME NEW k \in Chains, Behind(k, s) PROVE Behind(k, t)
  <2>1. Len(k.root) \in Nat
    BY DEF Chains
  <2>2. Len(k.root) < Len(t.chain_key_recv.root)
    BY <1>2, <1>3, <2>1 DEF Behind
  <2>3. k.root # t.chain_key_recv.root
    BY <1>2, <2>2
  <2> QED BY <1>2, <2>1, <2>2, <2>3 DEF Behind
<1>4. \A i \in 1 .. Len(s.skipped_keys) : s.skipped_keys[i].message_key \in Chains
  BY <1>1, StoredKeys
<1>6. Good(t)
  BY <1>3, <1>4 DEF Good
<1>7. Keeps(s, t)
  BY <1>3 DEF Keeps, Spent
<1> QED BY <1>6, <1>7

(* try_skipped_keys only takes a key out of the store; the key it opens a message
   with is spent afterwards and was not before. *)
LEMMA TrySkippedKeeps ==
    ASSUME SearchFinds, NEW s, Good(s), NEW m \in Messages
    PROVE  LET u == try_skipped_keys(s, m)
           IN /\ Good(u) /\ Keeps(s, u) /\ SameRoot(s, u)
              /\ u.session_key_generation = s.session_key_generation
              /\ OpensSkipped(s, m) => ~ Spent(m.key, s) /\ Spent(m.key, u)
<1>1. s \in Ratchets
  BY DEF Good
<1>2. CASE SkippedAt(s, m) = {}
  BY <1>1, <1>2 DEF try_skipped_keys, OpensSkipped, Keeps, SameRoot, Ratchets
<1>3. CASE SkippedAt(s, m) # {}
  <2> DEFINE q == s.skipped_keys
             x == FirstSkipped(s, m)
             r == Without(q, x)
             u == [s EXCEPT !.skipped_keys = r]
  <2>1. x \in 1 .. Len(q)
    BY <1>1, <1>3, FirstSkippedIsThere
  <2>2. q \in Seq(Stored) /\ Len(q) \in Nat /\ \A i \in 1 .. Len(q) : q[i].message_key \in Chains
    BY <1>1, StoredKeys
  <2>3. /\ r \in Seq(Stored) /\ Len(r) = Len(q) - 1
        /\ \A i \in 1 .. Len(q) - 1 : r[i] = IF i < x THEN q[i] ELSE q[i + 1]
    BY <2>1, <2>2, WithoutKeeps
  <2>4. try_skipped_keys(s, m) = u
    BY <1>3 DEF try_skipped_keys
  <2>5. OpensSkipped(s, m) <=> q[x].message_key = m.key
    BY <1>3 DEF OpensSkipped
  <2>6. Distinct(q) /\ Len(q) <= MAX_SKIP /\ \A i \in 1 .. Len(q) : Behind(q[i].message_key, s)
    BY DEF Good
  <2> HIDE DEF q, x, r
  <2>7. /\ u \in Ratchets /\ u.skipped_keys = r /\ u.root_key = s.root_key
        /\ u.chain_key_recv = s.chain_key_recv /\ u.dh_self = s.dh_self
        /\ u.dh_remote = s.dh_remote /\ u.session_key_generation = s.session_key_generation
    BY Zenon, <1>1, <2>3 DEF Ratchets
  <2> HIDE DEF u
  <2>8. \A i \in 1 .. Len(r) : \E j \in 1 .. Len(q) : j # x /\ r[i] = q[j]
    <3> TAKE i \in 1 .. Len(r)
    <3>1. CASE i < x
      <4>1. i \in 1 .. Len(q) /\ i # x /\ r[i] = q[i]
        BY <2>1, <2>2, <2>3, <3>1
      <4> QED BY <4>1
    <3>2. CASE ~ (i < x)
      <4>1. i + 1 \in 1 .. Len(q) /\ i + 1 # x /\ r[i] = q[i + 1]
        BY <2>1, <2>2, <2>3, <3>2
      <4> QED BY <4>1
    <3> QED BY <3>1, <3>2
  <2>9. \A k : Behind(k, s) <=> Behind(k, u)
    BY <2>7 DEF Behind
  <2>10. Distinct(r)
    <3> SUFFICES ASSUME NEW i \in 1 .. Len(r), NEW j \in 1 .. Len(r),
                        r[i].message_key = r[j].message_key
                 PROVE  i = j
      BY DEF Distinct
    <3> DEFINE a == IF i < x THEN i ELSE i + 1
               b == IF j < x THEN j ELSE j + 1
    <3>1. i \in 1 .. Len(q) - 1 /\ j \in 1 .. Len(q) - 1
      BY <2>3
    <3>2. a \in 1 .. Len(q) /\ b \in 1 .. Len(q) /\ r[i] = q[a] /\ r[j] = q[b]
      BY <2>1, <2>2, <2>3, <3>1
    <3>3. a = b
      BY <2>6, <3>2 DEF Distinct
    <3> QED BY <2>1, <2>2, <3>1, <3>3
  <2>11. Good(u)
    <3>1. \A i \in 1 .. Len(r) : Behind(r[i].message_key, u)
      BY <2>6, <2>8, <2>9
    <3>2. Len(r) <= MAX_SKIP
      BY <2>2, <2>3, <2>6, RatchetConstants
    <3>3. u.chain_key_recv # None => Len(u.chain_key_recv.root) <= Len(u.root_key)
      BY <2>7 DEF Good
    <3> QED BY <2>7, <2>10, <3>1, <3>2, <3>3 DEF Good
  <2>12. Keeps(s, u)
    <3>1. \A k \in Chains : Spent(k, s) => Spent(k, u)
      BY <2>7, <2>8, <2>9 DEF Spent, q
    <3>2. s.session_key_generation <= u.session_key_generation
      BY <1>1, <2>7 DEF Ratchets
    <3> QED BY <3>1, <3>2 DEF Keeps
  <2>13. SameRoot(s, u)
    BY <2>7 DEF SameRoot
  <2>14. ASSUME q[x].message_key = m.key PROVE ~ Spent(m.key, s) /\ Spent(m.key, u)
    <3>1. ~ Spent(m.key, s)
      BY <2>1, <2>14 DEF Spent, q
    <3>2. Behind(m.key, u)
      BY <2>1, <2>6, <2>9, <2>14
    <3>3. \A i \in 1 .. Len(r) : r[i].message_key # m.key
      BY <2>1, <2>6, <2>8, <2>14 DEF Distinct
    <3> QED BY <2>7, <3>1, <3>2, <3>3 DEF Spent
  <2> QED BY <2>4, <2>5, <2>7, <2>11, <2>12, <2>13, <2>14
<1> QED BY <1>2, <1>3

(* The keys set aside for a gap are the next positions of the receiving chain. *)
LEMMA SkippedUntilIs ==
    ASSUME NEW s \in Ratchets, NEW until \in Nat, s.chain_key_recv \in Chains,
           s.recv_count < until
    PROVE  /\ SkippedUntil(s, until) \in Seq(Stored)
           /\ Len(SkippedUntil(s, until)) = until - s.recv_count
           /\ \A i \in 1 .. until - s.recv_count :
                 /\ SkippedUntil(s, until)[i].message_key.root = s.chain_key_recv.root
                 /\ SkippedUntil(s, until)[i].message_key.n = s.chain_key_recv.n + i - 1
<1> DEFINE n == until - s.recv_count
           f == SkippedUntil(s, until)
<1>1. s.recv_count \in Nat /\ n \in Nat /\ s.dh_remote \in Nat \cup {None}
  BY DEF Ratchets
<1>2. s.chain_key_recv.n \in Nat /\ s.chain_key_recv.root \in Seq(SUBSET Nat)
  BY DEF Chains
<1>3. ASSUME NEW i \in 1 .. n
      PROVE  /\ f[i] \in Stored
             /\ f[i].message_key.root = s.chain_key_recv.root
             /\ f[i].message_key.n = s.chain_key_recv.n + i - 1
  <2> DEFINE c == [s.chain_key_recv EXCEPT !.n = @ + i - 1]
  <2>1. s.recv_count + i - 1 \in Nat /\ s.chain_key_recv.n + i - 1 \in Nat
    BY SMTT(40), <1>1, <1>2
  <2>2. c \in Chains /\ c.root = s.chain_key_recv.root /\ c.n = s.chain_key_recv.n + i - 1
    BY <2>1 DEF Chains
  <2>3. f[i] = [dh_public |-> s.dh_remote, message_num |-> s.recv_count + i - 1, message_key |-> c]
    BY DEF SkippedUntil
  <2> HIDE DEF c, f
  <2> QED BY <1>1, <2>1, <2>2, <2>3 DEF Stored
<1>4. f \in [1 .. n -> Stored]
  <2>1. f = [i \in 1 .. n |-> f[i]]
    BY DEF SkippedUntil
  <2> HIDE DEF f, n
  <2> QED BY <1>3, <2>1
<1> HIDE DEF f, n
<1>5. f \in Seq(Stored)
  BY <1>1, <1>4, SeqIs
<1>6. Len(f) = n
  BY <1>1, <1>4, <1>5, LenIs
<1> QED BY <1>3, <1>5, <1>6 DEF f, n

(* skip_message_keys moves keys from the chain into the store, and drops some. *)
LEMMA SkipKeeps ==
    ASSUME NEW s, Good(s), NEW until \in Nat
    PROVE  LET t == skip_message_keys(s, until)
           IN /\ Good(t) /\ Keeps(s, t) /\ SameRoot(s, t)
              /\ t.session_key_generation = s.session_key_generation
<1>1. s \in Ratchets
  BY DEF Good
<1>2. CASE s.chain_key_recv = None \/ TooFar(s, until) \/ until <= s.recv_count
  BY <1>1, <1>2 DEF skip_message_keys, Keeps, SameRoot, Ratchets
<1>3. CASE ~ (s.chain_key_recv = None \/ TooFar(s, until) \/ until <= s.recv_count)
  <2> DEFINE n == until - s.recv_count
             ch == s.chain_key_recv
             next == [ch EXCEPT !.n = @ + until - s.recv_count]
             q == s.skipped_keys
             su == SkippedUntil(s, until)
             all == q \o su
             kept == Newest(all)
             t == [s EXCEPT !.skipped_keys = kept, !.chain_key_recv = next, !.recv_count = until]
  <2>1. s.recv_count \in Nat /\ ch \in Chains /\ s.recv_count < until /\ n \in Nat
    BY <1>1, <1>3 DEF Ratchets
  <2>2. /\ su \in Seq(Stored) /\ Len(su) = n
        /\ \A i \in 1 .. n : su[i].message_key.root = ch.root /\ su[i].message_key.n = ch.n + i - 1
    BY <1>1, <2>1, SkippedUntilIs
  <2>3. q \in Seq(Stored) /\ Len(q) \in Nat /\ \A i \in 1 .. Len(q) : q[i].message_key \in Chains
    BY <1>1, StoredKeys
  <2>4. /\ next \in Chains /\ next.root = ch.root /\ next.n = ch.n + n
        /\ ch.n \in Nat /\ Len(ch.root) \in Nat
    BY SMTT(40), <2>1 DEF Chains
  <2>5. /\ all \in Seq(Stored) /\ Len(all) = Len(q) + n
        /\ \A i \in 1 .. Len(q) + n : all[i] = IF i <= Len(q) THEN q[i] ELSE su[i - Len(q)]
    <3> HIDE DEF n, q, su
    <3>1. /\ all \in Seq(Stored) /\ Len(all) = Len(q) + Len(su)
          /\ \A i \in 1 .. Len(q) + Len(su) : all[i] = IF i <= Len(q) THEN q[i] ELSE su[i - Len(q)]
      BY Zenon, <2>2, <2>3, ConcatIs
    <3> QED BY <2>2, <3>1
  <2>6. /\ kept \in Seq(Stored) /\ Len(kept) <= MAX_SKIP
        /\ \E d \in Nat : /\ Len(kept) + d = Len(all)
                          /\ \A i \in 1 .. Len(kept) : kept[i] = all[i + d]
    BY Zenon, <2>5, NewestKeeps
  <2>7. skip_message_keys(s, until) = t
    <3>1. skip_message_keys(s, until) =
            [s EXCEPT !.skipped_keys = Newest(s.skipped_keys \o SkippedUntil(s, until)),
                      !.chain_key_recv = [s.chain_key_recv EXCEPT !.n = @ + until - s.recv_count],
                      !.recv_count = until]
      BY <1>3, Zenon DEF skip_message_keys
    <3> QED BY <3>1, Zenon
  <2>8. /\ Distinct(q) /\ \A i \in 1 .. Len(q) : Behind(q[i].message_key, s)
        /\ Len(ch.root) <= Len(s.root_key)
    BY <1>3 DEF Good
  <2>9. ch # None
    BY <1>3
  <2> HIDE DEF n, ch, next, q, su, all, kept
  <2>10. /\ t \in Ratchets /\ t.skipped_keys = kept /\ t.root_key = s.root_key
         /\ t.chain_key_recv = next /\ t.dh_self = s.dh_self
         /\ t.dh_remote = s.dh_remote /\ t.session_key_generation = s.session_key_generation
    BY Zenon, <1>1, <2>4, <2>6 DEF Ratchets
  <2> HIDE DEF t
  <2>11. \A k \in Chains : Behind(k, s) =>
            /\ Behind(k, t)
            /\ \A i \in 1 .. n : su[i].message_key # k
    <3> SUFFICES ASSUME NEW k \in Chains, Behind(k, s)
                 PROVE  Behind(k, t) /\ \A i \in 1 .. n : su[i].message_key # k
      OBVIOUS
    <3>1. k.n \in Nat
      BY DEF Chains
    <3>2. ch.root = k.root => k.n < ch.n
      BY <2>9 DEF Behind, ch
    <3>3. next.root = k.root => k.n < next.n
      BY <2>1, <2>4, <3>1, <3>2
    <3>4. Behind(k, t)
      BY <2>10, <3>3 DEF Behind
    <3>5. ASSUME NEW i \in 1 .. n, su[i].message_key = k PROVE FALSE
      <4>1. k.root = ch.root /\ k.n = ch.n + i - 1
        BY <2>2, <3>5
      <4> QED BY <2>4, <3>1, <3>2, <4>1
    <3> QED BY <3>4, <3>5
  <2>12. \A i \in 1 .. n : Behind(su[i].message_key, t)
    <3> TAKE i \in 1 .. n
    <3>1. su[i].message_key.root = ch.root /\ su[i].message_key.n = ch.n + i - 1
      BY <2>2
    <3>2. ch.n + i - 1 < next.n
      BY <2>1, <2>4
    <3> QED BY <2>8, <2>10, <3>1, <3>2 DEF Behind
  <2>13. \A i \in 1 .. Len(all) :
            \/ i \in 1 .. Len(q) /\ all[i] = q[i]
            \/ i - Len(q) \in 1 .. n /\ all[i] = su[i - Len(q)]
    <3> TAKE i \in 1 .. Len(all)
    <3>1. CASE i <= Len(q)
      <4>1. i \in 1 .. Len(q) + n /\ i \in 1 .. Len(q)
        BY <2>1, <2>3, <2>5, <3>1
      <4>2. all[i] = q[i]
        BY <2>5, <3>1, <4>1
      <4> QED BY <4>1, <4>2
    <3>2. CASE ~ (i <= Len(q))
      <4>1. i \in 1 .. Len(q) + n /\ i - Len(q) \in 1 .. n
        BY <2>1, <2>3, <2>5, <3>2
      <4>2. all[i] = su[i - Len(q)]
        BY <2>5, <3>2, <4>1
      <4> QED BY <4>1, <4>2
    <3> QED BY <3>1, <3>2
  <2>14. Distinct(all)
    <3> SUFFICES ASSUME NEW i \in 1 .. Len(all), NEW j \in 1 .. Len(all),
                        all[i].message_key = all[j].message_key
                 PROVE  i = j
      BY DEF Distinct
    <3>1. CASE i \in 1 .. Len(q) /\ j \in 1 .. Len(q) /\ all[i] = q[i] /\ all[j] = q[j]
      BY <2>8, <3>1 DEF Distinct
    <3>2. CASE i \in 1 .. Len(q) /\ j - Len(q) \in 1 .. n /\ all[i] = q[i] /\ all[j] = su[j - Len(q)]
      BY <2>3, <2>8, <2>11, <3>2
    <3>3. CASE j \in 1 .. Len(q) /\ i - Len(q) \in 1 .. n /\ all[j] = q[j] /\ all[i] = su[i - Len(q)]
      BY <2>3, <2>8, <2>11, <3>3
    <3>4. CASE /\ i - Len(q) \in 1 .. n /\ all[i] = su[i - Len(q)]
               /\ j - Len(q) \in 1 .. n /\ all[j] = su[j - Len(q)]
      <4>1. ch.n + (i - Len(q)) - 1 = ch.n + (j - Len(q)) - 1
        BY <2>2, <3>4
      <4> QED BY <2>3, <2>4, <2>5, <4>1
    <3> QED BY <2>13, <3>1, <3>2, <3>3, <3>4
  <2>15. \A i \in 1 .. Len(all) : Behind(all[i].message_key, t)
    BY <2>3, <2>8, <2>11, <2>12, <2>13
  <2>16. PICK d \in Nat : /\ Len(kept) + d = Len(all)
                         /\ \A i \in 1 .. Len(kept) : kept[i] = all[i + d]
    BY <2>6
  <2>17. Len(kept) \in Nat /\ Len(all) \in Nat
    BY <2>5, <2>6, LenIs
  <2>18. \A i \in 1 .. Len(kept) : i + d \in 1 .. Len(all) /\ kept[i] = all[i + d]
    BY <2>16, <2>17
  <2>19. Distinct(kept)
    <3> SUFFICES ASSUME NEW i \in 1 .. Len(kept), NEW j \in 1 .. Len(kept),
                        kept[i].message_key = kept[j].message_key
                 PROVE  i = j
      BY DEF Distinct
    <3>1. i + d = j + d
      BY Zenon, <2>14, <2>18 DEF Distinct
    <3> QED BY <2>17, <3>1
  <2>20. Good(t)
    <3>1. \A i \in 1 .. Len(kept) : Behind(kept[i].message_key, t)
      BY <2>15, <2>18
    <3>2. t.chain_key_recv # None => Len(t.chain_key_recv.root) <= Len(t.root_key)
      BY <2>4, <2>8, <2>10
    <3> QED BY <2>6, <2>10, <2>19, <3>1, <3>2 DEF Good
  <2>21. Keeps(s, t)
    <3>1. ASSUME NEW k \in Chains, Spent(k, s) PROVE Spent(k, t)
      <4>1. Behind(k, s) /\ \A i \in 1 .. Len(q) : q[i].message_key # k
        BY <3>1 DEF Spent, q
      <4>2. \A i \in 1 .. Len(all) : all[i].message_key # k
        BY <2>11, <2>13, <4>1
      <4>3. \A i \in 1 .. Len(kept) : kept[i].message_key # k
        BY <2>18, <4>2
      <4> QED BY <2>10, <2>11, <4>1, <4>3 DEF Spent
    <3>2. s.session_key_generation <= t.session_key_generation
      BY <1>1, <2>10 DEF Ratchets
    <3> QED BY <3>1, <3>2 DEF Keeps
  <2>22. SameRoot(s, t)
    BY <2>10 DEF SameRoot
  <2> QED BY <2>7, <2>10, <2>20, <2>21, <2>22
<1> QED BY <1>2, <1>3

(* NewSendingChain lengthens the root and starts a sending chain from it. *)
LEMMA NewSendingChainIs ==
    ASSUME NEW s \in Ratchets, NEW self \in Nat, NEW remote \in Nat
    PROVE  LET t == NewSendingChain(s, self, remote)
           IN /\ t \in Ratchets
              /\ t.root_key = Append(s.root_key, {self, remote})
              /\ t.dh_self = self /\ t.dh_remote = s.dh_remote
              /\ t.chain_key_recv = s.chain_key_recv /\ t.skipped_keys = s.skipped_keys
              /\ t.session_key_generation = s.session_key_generation + 1
              /\ Len(t.root_key) = Len(s.root_key) + 1
<1> DEFINE root == Append(s.root_key, {self, remote})
           u == [s EXCEPT !.dh_self = self, !.root_key = root, !.chain_key_send = [root |-> root, n |-> 0]]
           t == [u EXCEPT !.session_master_key = <<u.root_key, u.chain_key_send>>,
                          !.session_key_generation = u.session_key_generation + 1]
<1>1. s.root_key \in Seq(SUBSET Nat) /\ {self, remote} \in SUBSET Nat
  BY DEF Ratchets
<1>2. root \in Seq(SUBSET Nat) /\ Len(root) = Len(s.root_key) + 1
  BY <1>1, AppendIs
<1>3. NewSendingChain(s, self, remote) = t
  BY DEF NewSendingChain, derive_session_master_key, chain_of, kdf_rk, dh
<1> HIDE DEF root
<1>4. [root |-> root, n |-> 0] \in Chains
  BY <1>2 DEF Chains
<1>5. /\ u \in Ratchets /\ u.root_key = root /\ u.dh_self = self /\ u.dh_remote = s.dh_remote
      /\ u.chain_key_recv = s.chain_key_recv /\ u.skipped_keys = s.skipped_keys
      /\ u.session_key_generation = s.session_key_generation
  BY Zenon, <1>2, <1>4 DEF Ratchets
<1> HIDE DEF u
<1>6. /\ t \in Ratchets /\ t.root_key = root /\ t.dh_self = self /\ t.dh_remote = s.dh_remote
      /\ t.chain_key_recv = s.chain_key_recv /\ t.skipped_keys = s.skipped_keys
      /\ t.session_key_generation = s.session_key_generation + 1
  <2>1. u.root_key \in Seq(SUBSET Nat) /\ u.chain_key_send \in Chains \cup {None}
    BY <1>5 DEF Ratchets
  <2> DEFINE k == <<u.root_key, u.chain_key_send>>
  <2>2. k \in Seq(SUBSET Nat) \X (Chains \cup {None})
    BY <2>1
  <2> HIDE DEF k
  <2>3. u.session_key_generation + 1 \in Nat
    BY <1>5 DEF Ratchets
  <2>4. t = [u EXCEPT !.session_master_key = k, !.session_key_generation = u.session_key_generation + 1]
    BY DEF k
  <2> HIDE DEF t
  <2> QED BY Zenon, <1>5, <2>2, <2>3, <2>4 DEF Ratchets
<1> HIDE DEF t
<1> QED BY <1>2, <1>3, <1>6 DEF root

(* What a DH ratchet step makes of the part of the state the root depends on. *)
Stepped(s, t, remote, fresh) ==
    /\ t.dh_self = fresh /\ t.dh_remote = remote
    /\ t.root_key = Append(Append(s.root_key, {s.dh_self, remote}), {fresh, remote})

(* A DH ratchet step lengthens the root twice, once for each chain. *)
LEMMA DhRatchetKeeps ==
    ASSUME NEW s, Good(s), NEW remote \in Nat, NEW fresh \in Nat
    PROVE  LET t == dh_ratchet(s, remote, fresh)
           IN Good(t) /\ Keeps(s, t) /\ Stepped(s, t, remote, fresh)
<1> DEFINE root == Append(s.root_key, {s.dh_self, remote})
           u == [s EXCEPT !.prev_send_count = s.send_count, !.send_count = 0, !.recv_count = 0,
                          !.dh_remote = remote,
                          !.root_key = root, !.chain_key_recv = [root |-> root, n |-> 0]]
           t == NewSendingChain(u, fresh, remote)
<1>1. s \in Ratchets
  BY DEF Good
<1>2. /\ s.root_key \in Seq(SUBSET Nat) /\ {s.dh_self, remote} \in SUBSET Nat
      /\ Len(s.root_key) \in Nat /\ s.session_key_generation \in Nat
  BY <1>1 DEF Ratchets
<1>3. root \in Seq(SUBSET Nat) /\ Len(root) = Len(s.root_key) + 1
  BY <1>2, AppendIs
<1>4. dh_ratchet(s, remote, fresh) = t
  BY DEF dh_ratchet, chain_of, kdf_rk, dh
<1> HIDE DEF root
<1>5. [root |-> root, n |-> 0] \in Chains
  BY <1>3 DEF Chains
<1>6. /\ u \in Ratchets /\ u.root_key = root /\ u.dh_remote = remote
      /\ u.chain_key_recv = [root |-> root, n |-> 0] /\ u.skipped_keys = s.skipped_keys
      /\ u.session_key_generation = s.session_key_generation
  BY Zenon, <1>1, <1>3, <1>5 DEF Ratchets
<1> HIDE DEF u
<1>7. /\ t \in Ratchets /\ t.root_key = Append(root, {fresh, remote})
      /\ t.dh_self = fresh /\ t.dh_remote = remote
      /\ t.chain_key_recv = [root |-> root, n |-> 0] /\ t.skipped_keys = s.skipped_keys
      /\ t.session_key_generation = s.session_key_generation + 1
      /\ Len(t.root_key) = Len(root) + 1
  BY <1>6, NewSendingChainIs
<1> HIDE DEF t
<1>8. t.chain_key_recv \in Chains /\ t.chain_key_recv.root = root
  BY <1>5, <1>7
<1>9. /\ Len(s.root_key) < Len(t.chain_key_recv.root)
      /\ Len(t.chain_key_recv.root) <= Len(t.root_key)
      /\ s.session_key_generation <= t.session_key_generation
  BY <1>2, <1>3, <1>7, <1>8
<1>10. Good(t) /\ Keeps(s, t)
  BY <1>7, <1>8, <1>9, NewChainKeeps
<1>11. Stepped(s, t, remote, fresh)
  BY <1>7 DEF Stepped, root
<1> QED BY <1>4, <1>10, <1>11

(* A forced step lengthens the root once and leaves the receiving chain. *)
LEMMA ForceKeeps ==
    ASSUME NEW s, Good(s), CanForce(s), NEW fresh \in Nat
    PROVE  Good(force_ratchet_step(s, fresh)) /\ Keeps(s, force_ratchet_step(s, fresh))
<1> DEFINE u == [s EXCEPT !.prev_send_count = s.send_count, !.send_count = 0]
           t == NewSendingChain(u, fresh, s.dh_remote)
<1>1. s \in Ratchets /\ s.dh_remote \in Nat /\ Len(s.root_key) \in Nat /\ s.session_key_generation \in Nat
  BY DEF Good, Ratchets, CanForce
<1>2. force_ratchet_step(s, fresh) = t
  BY DEF force_ratchet_step
<1>3. /\ u \in Ratchets /\ u.root_key = s.root_key
      /\ u.chain_key_recv = s.chain_key_recv /\ u.skipped_keys = s.skipped_keys
      /\ u.session_key_generation = s.session_key_generation
  BY Zenon, <1>1 DEF Ratchets
<1> HIDE DEF u
<1>4. /\ t \in Ratchets /\ Len(t.root_key) = Len(s.root_key) + 1
      /\ t.chain_key_recv = s.chain_key_recv /\ t.skipped_keys = s.skipped_keys
      /\ t.session_key_generation = s.session_key_generation + 1
  BY <1>1, <1>3, NewSendingChainIs
<1> HIDE DEF t
<1>5. Len(s.root_key) <= Len(t.root_key) /\ s.session_key_generation <= t.session_key_generation
  BY <1>1, <1>4
<1> QED BY <1>2, <1>4, <1>5, SameStoreKeeps

(* encrypt touches the sending side only. *)
LEMMA EncryptKeeps ==
    ASSUME NEW s, Good(s), CanEncrypt(s), NEW sealed \in BOOLEAN
    PROVE  LET t == after_encrypt(s, sealed)
           IN /\ Good(t) /\ Keeps(s, t) /\ SameRoot(s, t)
              /\ t.session_key_generation = s.session_key_generation
<1> DEFINE c == [s.chain_key_send EXCEPT !.n = @ + 1]
           n == s.send_count + (IF sealed THEN 1 ELSE 0)
           t == [s EXCEPT !.chain_key_send = c, !.send_count = n]
<1>1. s \in Ratchets /\ s.chain_key_send \in Chains /\ s.send_count \in Nat
  BY DEF Good, Ratchets, CanEncrypt
<1>2. c \in Chains /\ n \in Nat
  BY <1>1 DEF Chains
<1>3. after_encrypt(s, sealed) = t
  BY DEF after_encrypt, kdf_ck
<1> HIDE DEF c, n
<1>4. /\ t \in Ratchets /\ t.root_key = s.root_key /\ t.dh_self = s.dh_self
      /\ t.dh_remote = s.dh_remote
      /\ t.chain_key_recv = s.chain_key_recv /\ t.skipped_keys = s.skipped_keys
      /\ t.session_key_generation = s.session_key_generation
  BY Zenon, <1>1, <1>2 DEF Ratchets
<1> HIDE DEF t
<1>5. Len(s.root_key) <= Len(t.root_key) /\ s.session_key_generation <= t.session_key_generation
  BY <1>1, <1>4 DEF Ratchets
<1>6. Good(t) /\ Keeps(s, t)
  BY <1>4, <1>5, SameStoreKeeps
<1> QED BY <1>3, <1>4, <1>6 DEF SameRoot

(* Changing the replay records changes nothing else. *)
LEMMA RecordsKeep ==
    ASSUME NEW s, Good(s), NEW R \in SUBSET (Nat \X Nat)
    PROVE  LET t == [s EXCEPT !.received_messages = R]
           IN /\ Good(t) /\ Keeps(s, t) /\ SameRoot(s, t)
              /\ t.chain_key_recv = s.chain_key_recv /\ t.skipped_keys = s.skipped_keys
<1> DEFINE t == [s EXCEPT !.received_messages = R]
<1>1. s \in Ratchets
  BY DEF Good
<1>2. /\ t \in Ratchets /\ t.root_key = s.root_key /\ t.dh_self = s.dh_self
      /\ t.dh_remote = s.dh_remote
      /\ t.chain_key_recv = s.chain_key_recv /\ t.skipped_keys = s.skipped_keys
      /\ t.session_key_generation = s.session_key_generation
  BY Zenon, <1>1 DEF Ratchets
<1> HIDE DEF t
<1>3. Len(s.root_key) <= Len(t.root_key) /\ s.session_key_generation <= t.session_key_generation
  BY <1>1, <1>2 DEF Ratchets
<1>4. Good(t) /\ Keeps(s, t)
  BY <1>2, <1>3, SameStoreKeeps
<1> QED BY <1>2, <1>4 DEF SameRoot, t

(* The ratchet step of decrypt: the rest of the old chain is set aside first. *)
LEMMA RatchetedKeeps ==
    ASSUME NEW s, Good(s), NEW m \in Messages, NEW fresh \in Nat
    PROVE  LET t == Ratcheted(s, m, fresh)
           IN Good(t) /\ Keeps(s, t) /\ Stepped(s, t, m.dh_public, fresh)
<1> DEFINE a == skip_message_keys(s, m.prev_chain_len)
           b == dh_ratchet(a, m.dh_public, fresh)
           R == {r \in b.received_messages : r[1] = m.dh_public}
           t == [b EXCEPT !.received_messages = R]
<1>1. m.prev_chain_len \in Nat /\ m.dh_public \in Nat
  BY DEF Messages
<1>2. Good(a) /\ Keeps(s, a) /\ SameRoot(s, a)
  BY <1>1, SkipKeeps
<1> HIDE DEF a
<1>3. Good(b) /\ Keeps(a, b) /\ Stepped(a, b, m.dh_public, fresh)
  BY <1>1, <1>2, DhRatchetKeeps
<1>4. Ratcheted(s, m, fresh) = t
  BY DEF Ratcheted, a
<1> HIDE DEF b
<1>5. R \in SUBSET (Nat \X Nat)
  BY <1>3 DEF Good, Ratchets
<1> HIDE DEF R
<1>6. Good(t) /\ Keeps(b, t) /\ SameRoot(b, t)
  BY <1>3, <1>5, RecordsKeep
<1> HIDE DEF t
<1>7. s \in Ratchets /\ a \in Ratchets /\ b \in Ratchets /\ t \in Ratchets
  BY <1>2, <1>3, <1>6 DEF Good
<1>8. Keeps(s, b)
  BY <1>2, <1>3, <1>7, KeepsTrans
<1>9. Keeps(s, t)
  BY <1>6, <1>7, <1>8, KeepsTrans
<1>10. Stepped(s, t, m.dh_public, fresh)
  BY <1>2, <1>3, <1>6 DEF Stepped, SameRoot
<1> QED BY <1>4, <1>6, <1>9, <1>10

(* The receiving chain brought to the message. *)
LEMMA OnChainKeeps ==
    ASSUME NEW s, Good(s), NEW m \in Messages, NEW fresh \in Nat
    PROVE  LET t == OnChain(s, m, fresh)
           IN /\ Good(t) /\ Keeps(s, t)
              /\ NewRemote(s, m) => Stepped(s, t, m.dh_public, fresh)
              /\ ~ NewRemote(s, m) => SameRoot(s, t)
<1> DEFINE a == IF NewRemote(s, m) THEN Ratcheted(s, m, fresh) ELSE s
           t == skip_message_keys(a, m.message_num)
<1>1. m.message_num \in Nat
  BY DEF Messages
<1>2. /\ Good(a) /\ Keeps(s, a)
      /\ NewRemote(s, m) => Stepped(s, a, m.dh_public, fresh)
      /\ ~ NewRemote(s, m) => SameRoot(s, a)
  <2>1. CASE NewRemote(s, m)
    <3>1. a = Ratcheted(s, m, fresh)
      BY <2>1
    <3> HIDE DEF a
    <3> QED BY <2>1, <3>1, RatchetedKeeps
  <2>2. CASE ~ NewRemote(s, m)
    <3>1. a = s
      BY <2>2
    <3>2. Keeps(s, s) /\ SameRoot(s, s)
      BY DEF Keeps, SameRoot, Good, Ratchets
    <3> HIDE DEF a
    <3> QED BY <2>2, <3>1, <3>2
  <2> QED BY <2>1, <2>2
<1>3. OnChain(s, m, fresh) = t
  BY DEF OnChain
<1> HIDE DEF a
<1>4. Good(t) /\ Keeps(a, t) /\ SameRoot(a, t)
  BY <1>1, <1>2, SkipKeeps
<1> HIDE DEF t
<1>5. s \in Ratchets /\ a \in Ratchets /\ t \in Ratchets
  BY <1>2, <1>4 DEF Good
<1>6. Keeps(s, t)
  BY <1>2, <1>4, <1>5, KeepsTrans
<1>7. /\ NewRemote(s, m) => Stepped(s, t, m.dh_public, fresh)
      /\ ~ NewRemote(s, m) => SameRoot(s, t)
  BY Zenon, <1>2, <1>4 DEF Stepped, SameRoot
<1> QED BY <1>3, <1>4, <1>6, <1>7

(* Advancing the receiving chain spends the key it leaves. *)
LEMMA AdvanceSpends ==
    ASSUME NEW s, Good(s), s.chain_key_recv # None
    PROVE  LET t == [s EXCEPT !.chain_key_recv = kdf_ck(@)]
           IN /\ Good(t) /\ Keeps(s, t) /\ SameRoot(s, t)
              /\ ~ Spent(s.chain_key_recv, s) /\ Spent(s.chain_key_recv, t)
<1> DEFINE ch == s.chain_key_recv
           next == [ch EXCEPT !.n = @ + 1]
           t == [s EXCEPT !.chain_key_recv = next]
<1>1. s \in Ratchets /\ ch \in Chains /\ Len(ch.root) <= Len(s.root_key)
  BY DEF Good, Ratchets
<1>2. next \in Chains /\ next.root = ch.root /\ next.n = ch.n + 1 /\ ch.n \in Nat
  BY <1>1 DEF Chains
<1>3. [s EXCEPT !.chain_key_recv = kdf_ck(@)] = t
  BY DEF kdf_ck
<1> HIDE DEF next
<1>4. /\ t \in Ratchets /\ t.root_key = s.root_key /\ t.dh_self = s.dh_self
      /\ t.dh_remote = s.dh_remote
      /\ t.chain_key_recv = next /\ t.skipped_keys = s.skipped_keys
      /\ t.session_key_generation = s.session_key_generation
  BY <1>1, <1>2 DEF Ratchets
<1> HIDE DEF t
<1>5. ASSUME NEW k \in Chains, Behind(k, s) PROVE Behind(k, t)
  <2>1. k.n \in Nat
    BY DEF Chains
  <2>2. ch.root = k.root => k.n < ch.n
    BY <1>5 DEF Behind
  <2>3. next.root = k.root => k.n < next.n
    BY <1>2, <2>1, <2>2
  <2>4. Len(k.root) <= Len(t.root_key)
    BY <1>4, <1>5 DEF Behind
  <2> HIDE DEF ch
  <2> QED BY <1>4, <2>3, <2>4 DEF Behind
<1>6. \A i \in 1 .. Len(s.skipped_keys) : s.skipped_keys[i].message_key \in Chains
  BY <1>1, StoredKeys
<1>7. Good(t)
  <2>1. \A i \in 1 .. Len(t.skipped_keys) : Behind(t.skipped_keys[i].message_key, t)
    BY <1>4, <1>5, <1>6 DEF Good
  <2>2. t.chain_key_recv # None => Len(t.chain_key_recv.root) <= Len(t.root_key)
    BY <1>1, <1>2, <1>4
  <2>3. Distinct(t.skipped_keys) /\ Len(t.skipped_keys) <= MAX_SKIP
    BY <1>4 DEF Good
  <2> QED BY <1>4, <2>1, <2>2, <2>3 DEF Good
<1>8. Keeps(s, t)
  <2>1. \A k \in Chains : Spent(k, s) => Spent(k, t)
    BY <1>4, <1>5 DEF Spent
  <2>2. s.session_key_generation <= t.session_key_generation
    BY <1>1, <1>4 DEF Ratchets
  <2> QED BY <2>1, <2>2 DEF Keeps
<1>9. ~ Behind(ch, s)
  BY <1>2 DEF Behind
<1>10. \A i \in 1 .. Len(s.skipped_keys) : s.skipped_keys[i].message_key # ch
  BY <1>9 DEF Good
<1>11. Behind(ch, t)
  <2>1. ch.n < next.n
    BY <1>2
  <2> HIDE DEF ch
  <2> QED BY <1>1, <1>2, <1>4, <2>1 DEF Behind
<1>12. ~ Spent(ch, s) /\ Spent(ch, t)
  BY <1>4, <1>9, <1>10, <1>11 DEF Spent
<1>13. SameRoot(s, t)
  BY <1>4 DEF SameRoot
<1> QED BY <1>3, <1>7, <1>8, <1>12, <1>13

(* decrypt: no spent key comes back, a message that opens spends its key, and the
   root moves exactly when a key pair is drawn. *)
LEMMA DecryptKeeps ==
    ASSUME SearchFinds, NEW s, Good(s), NEW m \in Messages, NEW fresh \in Nat
    PROVE  LET t == after_decrypt(s, m, fresh)
           IN /\ Good(t) /\ Keeps(s, t)
              /\ decrypts(s, m, fresh) => ~ Spent(m.key, s) /\ Spent(m.key, t)
              /\ DrawsKey(s, m) => Stepped(s, t, m.dh_public, fresh)
              /\ ~ DrawsKey(s, m) => SameRoot(s, t)
<1> DEFINE u == try_skipped_keys(s, m)
           c == OnChain(u, m, fresh)
           advanced == [c EXCEPT !.chain_key_recv = kdf_ck(@)]
           counted == [advanced EXCEPT !.recv_count = @ + 1]
           t == after_decrypt(s, m, fresh)
<1>1. s \in Ratchets /\ m.dh_public \in Nat /\ m.message_num \in Nat /\ m.key \in Chains /\ m.key # None
  BY DEF Good, Messages
<1>2. /\ Good(u) /\ Keeps(s, u) /\ SameRoot(s, u)
      /\ OpensSkipped(s, m) => ~ Spent(m.key, s) /\ Spent(m.key, u)
  BY TrySkippedKeeps
<1>3. t = IF Seen(s, m) THEN s
          ELSE IF OpensSkipped(s, m) THEN MarkReceived(u, m)
          ELSE IF c.chain_key_recv = None THEN c
          ELSE IF c.chain_key_recv = m.key THEN MarkReceived(counted, m)
          ELSE advanced
  BY DEF after_decrypt
<1>4. decrypts(s, m, fresh) <=> ~ Seen(s, m) /\ (OpensSkipped(s, m) \/ c.chain_key_recv = m.key)
  BY DEF decrypts
<1> HIDE DEF u, t
<1>5. NewRemote(s, m) <=> NewRemote(u, m)
  BY <1>2 DEF SameRoot, NewRemote
<1>6. /\ Good(c) /\ Keeps(u, c)
      /\ NewRemote(u, m) => Stepped(u, c, m.dh_public, fresh)
      /\ ~ NewRemote(u, m) => SameRoot(u, c)
  BY <1>2, OnChainKeeps
<1> HIDE DEF c
<1>7. u \in Ratchets /\ c \in Ratchets
  BY <1>2, <1>6 DEF Good
<1>8. Keeps(s, c)
  BY <1>1, <1>2, <1>6, <1>7, KeepsTrans
<1>9. /\ NewRemote(s, m) => Stepped(s, c, m.dh_public, fresh)
      /\ ~ NewRemote(s, m) => SameRoot(s, c)
  BY Zenon, <1>2, <1>5, <1>6 DEF Stepped, SameRoot
<1>10. \A v : SameRoot(c, v) =>
          /\ NewRemote(s, m) => Stepped(s, v, m.dh_public, fresh)
          /\ ~ NewRemote(s, m) => SameRoot(s, v)
  BY Zenon, <1>9 DEF Stepped, SameRoot
<1>11. DrawsKey(s, m) <=> ~ Seen(s, m) /\ ~ OpensSkipped(s, m) /\ NewRemote(s, m)
  BY DEF DrawsKey
<1>12. CASE Seen(s, m)
  <2>1. t = s /\ ~ decrypts(s, m, fresh) /\ ~ DrawsKey(s, m)
    BY <1>3, <1>4, <1>11, <1>12
  <2>2. Keeps(s, s) /\ SameRoot(s, s)
    BY <1>1 DEF Keeps, SameRoot, Ratchets
  <2> QED BY <2>1, <2>2 DEF t
<1>13. CASE ~ Seen(s, m) /\ OpensSkipped(s, m)
  <2> DEFINE R == u.received_messages \cup {<<m.dh_public, m.message_num>>}
             v == [u EXCEPT !.received_messages = R]
  <2>1. t = v /\ ~ DrawsKey(s, m)
    BY <1>3, <1>11, <1>13 DEF MarkReceived
  <2>2. R \in SUBSET (Nat \X Nat)
    <3>1. u.received_messages \in SUBSET (Nat \X Nat)
      BY <1>7 DEF Ratchets
    <3>2. <<m.dh_public, m.message_num>> \in Nat \X Nat
      BY <1>1
    <3> QED BY <3>1, <3>2
  <2> HIDE DEF R
  <2>3. Good(v) /\ Keeps(u, v) /\ SameRoot(u, v)
    BY <1>2, <2>2, RecordsKeep
  <2> HIDE DEF v
  <2>4. Keeps(s, v)
    <3>1. v \in Ratchets
      BY <2>3 DEF Good
    <3> QED BY <1>1, <1>2, <1>7, <2>3, <3>1, KeepsTrans
  <2>5. SameRoot(s, v)
    BY <1>2, <2>3 DEF SameRoot
  <2>6. ~ Spent(m.key, s) /\ Spent(m.key, v)
    BY <1>1, <1>2, <1>13, <2>3 DEF Keeps
  <2> QED BY <2>1, <2>3, <2>4, <2>5, <2>6 DEF t
<1>14. CASE ~ Seen(s, m) /\ ~ OpensSkipped(s, m) /\ c.chain_key_recv = None
  <2>1. t = c /\ ~ decrypts(s, m, fresh) /\ (DrawsKey(s, m) <=> NewRemote(s, m))
    BY <1>1, <1>3, <1>4, <1>11, <1>14
  <2> QED BY <1>6, <1>8, <1>9, <2>1 DEF t
<1>15. ASSUME ~ Seen(s, m), ~ OpensSkipped(s, m), c.chain_key_recv # None
       PROVE  /\ Good(advanced) /\ Keeps(s, advanced) /\ SameRoot(c, advanced)
              /\ ~ Spent(c.chain_key_recv, c) /\ Spent(c.chain_key_recv, advanced)
  <2>1. /\ Good(advanced) /\ Keeps(c, advanced) /\ SameRoot(c, advanced)
        /\ ~ Spent(c.chain_key_recv, c) /\ Spent(c.chain_key_recv, advanced)
    BY <1>6, <1>15, AdvanceSpends
  <2> HIDE DEF advanced
  <2>2. advanced \in Ratchets
    BY <2>1 DEF Good
  <2> QED BY <1>1, <1>7, <1>8, <2>1, <2>2, KeepsTrans
<1> HIDE DEF advanced
<1>16. CASE ~ Seen(s, m) /\ ~ OpensSkipped(s, m) /\ c.chain_key_recv # None /\ c.chain_key_recv # m.key
  <2>1. t = advanced /\ ~ decrypts(s, m, fresh) /\ (DrawsKey(s, m) <=> NewRemote(s, m))
    BY <1>3, <1>4, <1>11, <1>16
  <2> QED BY <1>10, <1>15, <1>16, <2>1 DEF t
<1>17. CASE ~ Seen(s, m) /\ ~ OpensSkipped(s, m) /\ c.chain_key_recv # None /\ c.chain_key_recv = m.key
  <2> DEFINE R == counted.received_messages \cup {<<m.dh_public, m.message_num>>}
             v == [counted EXCEPT !.received_messages = R]
  <2>1. t = v /\ (DrawsKey(s, m) <=> NewRemote(s, m))
    BY <1>3, <1>11, <1>17 DEF MarkReceived
  <2>2. Good(advanced) /\ advanced \in Ratchets
    BY <1>15, <1>17 DEF Good
  <2>3. /\ counted \in Ratchets /\ SameRoot(advanced, counted)
        /\ counted.chain_key_recv = advanced.chain_key_recv
        /\ counted.skipped_keys = advanced.skipped_keys
        /\ counted.session_key_generation = advanced.session_key_generation
    <3> DEFINE n == advanced.recv_count + 1
    <3>1. n \in Nat
      BY <2>2 DEF Ratchets
    <3>2. counted = [advanced EXCEPT !.recv_count = n]
      OBVIOUS
    <3> HIDE DEF n, counted
    <3> QED BY Zenon, <2>2, <3>1, <3>2 DEF Ratchets, SameRoot
  <2> HIDE DEF counted
  <2>4. /\ Len(advanced.root_key) <= Len(counted.root_key)
        /\ advanced.session_key_generation <= counted.session_key_generation
    BY <2>2, <2>3 DEF SameRoot, Ratchets
  <2>5. Good(counted) /\ Keeps(advanced, counted)
    BY <2>2, <2>3, <2>4, SameStoreKeeps
  <2>6. R \in SUBSET (Nat \X Nat)
    BY SMTT(40), <1>1, <2>3 DEF Ratchets
  <2> HIDE DEF R
  <2>7. Good(v) /\ Keeps(counted, v) /\ SameRoot(counted, v)
    BY <2>5, <2>6, RecordsKeep
  <2> HIDE DEF v
  <2>8. v \in Ratchets
    BY <2>7 DEF Good
  <2>9. Keeps(advanced, v)
    BY <2>2, <2>3, <2>5, <2>7, <2>8, KeepsTrans
  <2>10. Keeps(s, v)
    BY <1>1, <1>15, <1>17, <2>2, <2>8, <2>9, KeepsTrans
  <2>11. SameRoot(c, v)
    BY <1>15, <1>17, <2>3, <2>7 DEF SameRoot
  <2>12. ~ Spent(m.key, s) /\ Spent(m.key, v)
    BY <1>1, <1>8, <1>15, <1>17, <2>9 DEF Keeps
  <2> QED BY <1>10, <2>1, <2>7, <2>10, <2>11, <2>12 DEF t
<1> QED BY Zenon, <1>12, <1>13, <1>14, <1>16, <1>17

-----------------------------------------------------------------------------
(* What skipping sets aside, exactly *)

(* The keys set aside. *)
InStore(s) == {s.skipped_keys[i] : i \in 1 .. Len(s.skipped_keys)}

(* The entry of the store for place k of a chain, and those up to a place. *)
Entry(d, root, k) ==
    [dh_public |-> d, message_num |-> k, message_key |-> [root |-> root, n |-> k]]

Entries(s, until) ==
    {Entry(s.dh_remote, s.chain_key_recv.root, k) : k \in s.recv_count .. until - 1}

(* The sending half of the state, and how far a place lies ahead of the receiving chain. *)
SameSending(s, t) ==
    /\ t.dh_self = s.dh_self /\ t.root_key = s.root_key /\ t.chain_key_send = s.chain_key_send
    /\ t.send_count = s.send_count /\ t.prev_send_count = s.prev_send_count

Beyond(s, until) == IF s.recv_count < until THEN until - s.recv_count ELSE 0

SameReceiving(s, t) ==
    /\ t.dh_remote = s.dh_remote /\ t.chain_key_recv = s.chain_key_recv
    /\ t.recv_count = s.recv_count

(* try_skipped_keys takes out at most one key, one that fits the message. *)
LEMMA TryExact ==
    ASSUME SearchFinds, NEW s \in Ratchets, NEW m
    PROVE  LET u == try_skipped_keys(s, m)
           IN /\ u \in Ratchets /\ SameSending(s, u) /\ SameReceiving(s, u)
              /\ u.received_messages = s.received_messages
              /\ InStore(u) \subseteq InStore(s)
              /\ \A k \in InStore(s) : ~ Fits(k, m) => k \in InStore(u)
              /\ (\A k \in InStore(s) : ~ Fits(k, m)) => u = s
<1>1. s.skipped_keys \in Seq(Stored) /\ Len(s.skipped_keys) \in Nat
  BY StoredKeys
<1>2. DOMAIN s.skipped_keys = 1 .. Len(s.skipped_keys)
  BY <1>1
<1>3. SkippedAt(s, m) = {} <=> \A k \in InStore(s) : ~ Fits(k, m)
  BY <1>2 DEF SkippedAt, InStore
<1>4. CASE SkippedAt(s, m) = {}
  BY <1>4 DEF try_skipped_keys, SameSending, SameReceiving
<1>5. CASE SkippedAt(s, m) # {}
  <2> DEFINE q == s.skipped_keys
             x == FirstSkipped(s, m)
             r == Without(q, x)
             u == [s EXCEPT !.skipped_keys = r]
  <2>1. x \in 1 .. Len(q) /\ Fits(q[x], m)
    BY <1>5, FirstSkippedIsThere
  <2>2. /\ r \in Seq(Stored) /\ Len(r) = Len(q) - 1
        /\ \A i \in 1 .. Len(q) - 1 : r[i] = IF i < x THEN q[i] ELSE q[i + 1]
    <3> HIDE DEF x
    <3> QED BY Zenon, <1>1, <2>1, WithoutKeeps
  <2>3. try_skipped_keys(s, m) = u
    BY <1>5 DEF try_skipped_keys
  <2> HIDE DEF x, r, q
  <2>4. /\ u \in Ratchets /\ SameSending(s, u) /\ SameReceiving(s, u)
        /\ u.received_messages = s.received_messages /\ u.skipped_keys = r
    BY Zenon, <2>2 DEF Ratchets, SameSending, SameReceiving
  <2> HIDE DEF u
  <2>5. Len(q) \in Nat /\ x \in Nat
    BY <1>1, <2>1 DEF q
  <2>6. ASSUME NEW k \in InStore(u) PROVE k \in InStore(s)
    <3>1. PICK i \in 1 .. Len(r) : k = r[i]
      BY <2>4 DEF InStore
    <3>2. i \in 1 .. Len(q) - 1 /\ i \in 1 .. Len(q) /\ i + 1 \in 1 .. Len(q)
      BY <2>2, <2>5
    <3>3. k = q[i] \/ k = q[i + 1]
      BY <2>2, <3>1, <3>2
    <3> QED BY <3>2, <3>3 DEF InStore, q
  <2>7. ASSUME NEW k \in InStore(s), ~ Fits(k, m) PROVE k \in InStore(u)
    <3>1. PICK i \in 1 .. Len(q) : k = q[i]
      BY DEF InStore, q
    <3>2. i # x
      BY <2>1, <2>7, <3>1
    <3>3. CASE i < x
      <4>1. i \in 1 .. Len(q) - 1 /\ i \in 1 .. Len(r)
        BY <2>1, <2>2, <2>5, <3>3
      <4>2. k = r[i]
        BY <2>2, <3>1, <3>3, <4>1
      <4> QED BY <2>4, <4>1, <4>2 DEF InStore
    <3>4. CASE i > x
      <4>1. /\ i - 1 \in 1 .. Len(q) - 1 /\ i - 1 \in 1 .. Len(r)
            /\ ~ (i - 1 < x) /\ i - 1 + 1 = i
        BY <2>1, <2>2, <2>5, <3>4
      <4>2. k = r[i - 1]
        BY <2>2, <3>1, <4>1
      <4> QED BY <2>4, <4>1, <4>2 DEF InStore
    <3> QED BY <2>5, <3>2, <3>3, <3>4
  <2> QED BY <1>3, <1>5, <2>3, <2>4, <2>6, <2>7
<1> QED BY <1>4, <1>5

(* When every key in the store that fits a message is the message's, the store opens
   exactly the messages it has a key for. *)
LEMMA StoreOpens ==
    ASSUME SearchFinds, NEW s \in Ratchets, NEW m,
           \A k \in InStore(s) : Fits(k, m) => k.message_key = m.key
    PROVE  OpensSkipped(s, m) <=> \E k \in InStore(s) : Fits(k, m)
<1>1. s.skipped_keys \in Seq(Stored) /\ DOMAIN s.skipped_keys = 1 .. Len(s.skipped_keys)
  <2>1. s.skipped_keys \in Seq(Stored)
    BY StoredKeys
  <2> QED BY <2>1
<1>2. SkippedAt(s, m) # {} <=> \E k \in InStore(s) : Fits(k, m)
  BY <1>1 DEF SkippedAt, InStore
<1>3. ASSUME SkippedAt(s, m) # {} PROVE s.skipped_keys[FirstSkipped(s, m)].message_key = m.key
  <2> DEFINE x == FirstSkipped(s, m)
  <2>1. x \in 1 .. Len(s.skipped_keys) /\ Fits(s.skipped_keys[x], m)
    BY <1>3, FirstSkippedIsThere
  <2> HIDE DEF x
  <2>2. s.skipped_keys[x] \in InStore(s)
    BY <2>1 DEF InStore
  <2>3. s.skipped_keys[x].message_key = m.key
    BY <2>1, <2>2
  <2> QED BY <2>3 DEF x
<1> QED BY <1>2, <1>3 DEF OpensSkipped

(* dh_ratchet, field by field. *)
LEMMA StepExact ==
    ASSUME NEW s \in Ratchets, NEW remote \in Nat, NEW fresh \in Nat
    PROVE  LET t == dh_ratchet(s, remote, fresh)
           IN /\ t \in Ratchets /\ Stepped(s, t, remote, fresh)
              /\ t.chain_key_send # None
              /\ t.chain_key_send.root = t.root_key /\ t.chain_key_send.n = 0
              /\ t.send_count = 0 /\ t.prev_send_count = s.send_count
              /\ t.chain_key_recv # None
              /\ t.chain_key_recv.root = Append(s.root_key, {s.dh_self, remote})
              /\ t.chain_key_recv.n = 0 /\ t.recv_count = 0
              /\ t.skipped_keys = s.skipped_keys
              /\ t.received_messages = s.received_messages
<1> DEFINE root == Append(s.root_key, {s.dh_self, remote})
           last == Append(root, {fresh, remote})
           u == [s EXCEPT !.prev_send_count = s.send_count, !.send_count = 0, !.recv_count = 0,
                          !.dh_remote = remote,
                          !.root_key = root, !.chain_key_recv = [root |-> root, n |-> 0]]
           v == [u EXCEPT !.dh_self = fresh, !.root_key = last,
                          !.chain_key_send = [root |-> last, n |-> 0]]
           t == [v EXCEPT !.session_master_key = <<v.root_key, v.chain_key_send>>,
                          !.session_key_generation = v.session_key_generation + 1]
<1>1. s.root_key \in Seq(SUBSET Nat) /\ {s.dh_self, remote} \in SUBSET Nat /\ s.send_count \in Nat
      /\ {fresh, remote} \in SUBSET Nat
  BY DEF Ratchets
<1>2. root \in Seq(SUBSET Nat) /\ last \in Seq(SUBSET Nat)
  BY <1>1, AppendIs
<1>3. dh_ratchet(s, remote, fresh) = NewSendingChain(u, fresh, remote)
  BY DEF dh_ratchet, chain_of, kdf_rk, dh
<1> HIDE DEF root
<1>4. [root |-> root, n |-> 0] \in Chains /\ [root |-> last, n |-> 0] \in Chains
  BY <1>2 DEF Chains
<1>5. /\ u \in Ratchets /\ u.root_key = root /\ u.dh_remote = remote
      /\ u.chain_key_recv = [root |-> root, n |-> 0] /\ u.skipped_keys = s.skipped_keys
      /\ u.send_count = 0 /\ u.recv_count = 0 /\ u.prev_send_count = s.send_count
      /\ u.received_messages = s.received_messages
  BY Zenon, <1>1, <1>2, <1>4 DEF Ratchets
<1> HIDE DEF u
<1>6. NewSendingChain(u, fresh, remote) = t
  BY <1>5 DEF NewSendingChain, derive_session_master_key, chain_of, kdf_rk, dh
<1> HIDE DEF last
<1>7. /\ v.dh_self = fresh /\ v.root_key = last /\ v.chain_key_send = [root |-> last, n |-> 0]
      /\ v.dh_remote = remote
      /\ v.chain_key_recv = [root |-> root, n |-> 0] /\ v.skipped_keys = s.skipped_keys
      /\ v.send_count = 0 /\ v.recv_count = 0 /\ v.prev_send_count = s.send_count
      /\ v.received_messages = s.received_messages /\ v \in Ratchets
  BY Zenon, <1>2, <1>4, <1>5 DEF Ratchets
<1> HIDE DEF v
<1>8. /\ t.dh_self = fresh /\ t.root_key = last /\ t.chain_key_send = [root |-> last, n |-> 0]
      /\ t.dh_remote = remote
      /\ t.chain_key_recv = [root |-> root, n |-> 0] /\ t.skipped_keys = s.skipped_keys
      /\ t.send_count = 0 /\ t.recv_count = 0 /\ t.prev_send_count = s.send_count
      /\ t.received_messages = s.received_messages
  BY Zenon, <1>7 DEF Ratchets
<1>9. t \in Ratchets
  BY <1>3, <1>5, <1>6, NewSendingChainIs
<1> HIDE DEF t
<1>10. t.chain_key_send # None /\ t.chain_key_recv # None
  BY <1>4, <1>8, RatchetConstants DEF Chains
<1>11. Stepped(s, t, remote, fresh)
  BY <1>8 DEF Stepped, root, last
<1>12. /\ t.chain_key_send.root = last /\ t.chain_key_send.n = 0
       /\ t.chain_key_recv.root = root /\ t.chain_key_recv.n = 0
  BY <1>8
<1> QED BY <1>3, <1>6, <1>8, <1>9, <1>10, <1>11, <1>12 DEF root

(* What is left of the receiving chain when the sender's next one begins. *)
RestCount(s, m) == IF s.chain_key_recv = None THEN 0 ELSE Beyond(s, m.prev_chain_len)
Rest(s, m) == IF s.chain_key_recv = None THEN {} ELSE Entries(s, m.prev_chain_len)

(* A state that has just begun the chain of a new key of the sender. *)
Begun(s, t, m, fresh) ==
    /\ Stepped(s, t, m.dh_public, fresh)
    /\ t.chain_key_send # None
    /\ t.chain_key_send.root = t.root_key /\ t.chain_key_send.n = 0
    /\ t.send_count = 0 /\ t.prev_send_count = s.send_count
    /\ t.chain_key_recv # None
    /\ t.chain_key_recv.root = Append(s.root_key, {s.dh_self, m.dh_public})
    /\ t.chain_key_recv.n = t.recv_count

(* What decrypt does once the message opens on the chain. *)
Accepts(c, m) ==
    MarkReceived([[c EXCEPT !.chain_key_recv = kdf_ck(@)] EXCEPT !.recv_count = @ + 1], m)

-----------------------------------------------------------------------------
(* Which key pair a sending chain names *)

(* Key pair d is the newer one of the last DH output of root. *)
Names(root, d) ==
    Len(root) > 0 /\ d \in root[Len(root)] /\ \A x \in root[Len(root)] : x <= d

(* skip_message_keys leaves the root and the sending chain alone. *)
LEMMA SkipSends ==
    ASSUME NEW s \in Ratchets, NEW until
    PROVE  /\ skip_message_keys(s, until).chain_key_send = s.chain_key_send
           /\ skip_message_keys(s, until).root_key = s.root_key
<1> DEFINE q == Newest(s.skipped_keys \o SkippedUntil(s, until))
           c == [s.chain_key_recv EXCEPT !.n = @ + until - s.recv_count]
           t == [s EXCEPT !.skipped_keys = q, !.chain_key_recv = c, !.recv_count = until]
<1>1. skip_message_keys(s, until) \in {s, t}
  BY Zenon DEF skip_message_keys
<1> HIDE DEF q, c
<1>2. t.chain_key_send = s.chain_key_send /\ t.root_key = s.root_key
  BY Zenon DEF Ratchets
<1> HIDE DEF t
<1> QED BY Zenon, <1>1, <1>2

(* The ratchet step of decrypt begins a sending chain from the new root. *)
LEMMA RatchetedSends ==
    ASSUME NEW s, Good(s), NEW m \in Messages, NEW fresh \in Nat
    PROVE  LET t == Ratcheted(s, m, fresh)
           IN t.chain_key_send # None /\ t.chain_key_send.root = t.root_key
<1> DEFINE a == skip_message_keys(s, m.prev_chain_len)
           b == dh_ratchet(a, m.dh_public, fresh)
           R == {r \in b.received_messages : r[1] = m.dh_public}
           t == [b EXCEPT !.received_messages = R]
<1>1. m.prev_chain_len \in Nat /\ m.dh_public \in Nat
  BY DEF Messages
<1>2. Ratcheted(s, m, fresh) = t
  BY ZenonT(40) DEF Ratcheted
<1>3. a \in Ratchets
  BY <1>1, SkipKeeps DEF Good
<1> HIDE DEF a
<1>4. b \in Ratchets /\ b.chain_key_send # None /\ b.chain_key_send.root = b.root_key
  BY Zenon, <1>1, <1>3, StepExact
<1> HIDE DEF b, R
<1>5. t.chain_key_send = b.chain_key_send /\ t.root_key = b.root_key
  BY Zenon, <1>4 DEF Ratchets
<1> HIDE DEF t
<1> QED BY Zenon, <1>2, <1>4, <1>5

(* decrypt leaves the sending chain alone, unless it draws a key pair and begins the
   chain of it. *)
LEMMA DecryptSends ==
    ASSUME SearchFinds, NEW s, Good(s), NEW m \in Messages, NEW fresh \in Nat
    PROVE  LET t == after_decrypt(s, m, fresh)
           IN /\ DrawsKey(s, m) => t.chain_key_send # None /\ t.chain_key_send.root = t.root_key
              /\ ~ DrawsKey(s, m) => t.chain_key_send = s.chain_key_send
<1> DEFINE u == try_skipped_keys(s, m)
           a == Ratcheted(u, m, fresh)
           c == OnChain(u, m, fresh)
           b == IF NewRemote(u, m) THEN a ELSE u
           advanced == [c EXCEPT !.chain_key_recv = kdf_ck(@)]
           counted == [advanced EXCEPT !.recv_count = @ + 1]
           t == after_decrypt(s, m, fresh)
<1>1. s \in Ratchets /\ Good(u) /\ u \in Ratchets
  BY TrySkippedKeeps DEF Good
<1>2. u.chain_key_send = s.chain_key_send /\ u.dh_remote = s.dh_remote
  BY <1>1, TryExact DEF SameSending, SameReceiving
<1>3. NewRemote(u, m) <=> NewRemote(s, m)
  BY ZenonT(40), <1>2 DEF NewRemote
<1>4. c = skip_message_keys(b, m.message_num) /\ c \in Ratchets
  <2>1. c = skip_message_keys(b, m.message_num)
    BY Zenon DEF OnChain
  <2> HIDE DEF u
  <2>2. Good(c)
    BY <1>1, OnChainKeeps
  <2> QED BY <2>1, <2>2 DEF Good
<1>5. /\ t = s \/ t = MarkReceived(u, m) \/ t = c \/ t = MarkReceived(counted, m) \/ t = advanced
      /\ Seen(s, m) => t = s
      /\ ~ Seen(s, m) /\ OpensSkipped(s, m) => t = MarkReceived(u, m)
      /\ ~ Seen(s, m) /\ ~ OpensSkipped(s, m) =>
            t = c \/ t = MarkReceived(counted, m) \/ t = advanced
  BY Zenon DEF after_decrypt
<1>6. MarkReceived(u, m).chain_key_send = u.chain_key_send
  <2> HIDE DEF u
  <2> QED BY Zenon, <1>1 DEF MarkReceived, Ratchets
<1>7. b \in Ratchets
  <2> HIDE DEF u
  <2>1. a \in Ratchets
    BY <1>1, RatchetedKeeps DEF Good
  <2> QED BY ZenonT(40), <1>1, <2>1
<1>8. /\ NewRemote(s, m) => b.chain_key_send # None /\ b.chain_key_send.root = b.root_key
      /\ ~ NewRemote(s, m) => b.chain_key_send = s.chain_key_send
  <2> HIDE DEF u
  <2>1. a.chain_key_send # None /\ a.chain_key_send.root = a.root_key
    BY <1>1, RatchetedSends
  <2> HIDE DEF a
  <2> QED BY ZenonT(40), <1>2, <1>3, <2>1
<1> HIDE DEF u, b, c
<1>9. c.chain_key_send = b.chain_key_send /\ c.root_key = b.root_key
  BY Zenon, <1>4, <1>7, SkipSends
<1>10. \A x \in {c, advanced, MarkReceived(counted, m)} :
          x.chain_key_send = c.chain_key_send /\ x.root_key = c.root_key
  <2>1. /\ advanced.chain_key_send = c.chain_key_send /\ advanced.root_key = c.root_key
        /\ DOMAIN advanced = DOMAIN c
    BY Zenon, <1>4 DEF Ratchets
  <2>2. DOMAIN c = {"dh_self", "dh_remote", "root_key", "chain_key_send", "chain_key_recv",
                    "send_count", "recv_count", "prev_send_count", "skipped_keys",
                    "received_messages", "session_master_key", "session_key_generation"}
    BY Zenon, <1>4 DEF Ratchets
  <2> HIDE DEF advanced
  <2>3. /\ counted.chain_key_send = c.chain_key_send /\ counted.root_key = c.root_key
        /\ DOMAIN counted = DOMAIN c
    BY <2>1, <2>2
  <2> HIDE DEF counted
  <2>4. /\ MarkReceived(counted, m).chain_key_send = c.chain_key_send
        /\ MarkReceived(counted, m).root_key = c.root_key
    BY <2>2, <2>3 DEF MarkReceived
  <2> QED BY Zenon, <2>1, <2>4
<1> HIDE DEF t, advanced, counted
<1>11. CASE DrawsKey(s, m)
  <2>1. t \in {c, advanced, MarkReceived(counted, m)} /\ NewRemote(s, m)
    BY Zenon, <1>5, <1>11 DEF DrawsKey
  <2> QED BY ZenonT(40), <1>8, <1>9, <1>10, <1>11, <2>1 DEF t
<1>12. CASE ~ DrawsKey(s, m)
  <2>1. CASE Seen(s, m) \/ OpensSkipped(s, m)
    BY Zenon, <1>2, <1>5, <1>6, <1>12, <2>1 DEF t
  <2>2. CASE ~ Seen(s, m) /\ ~ OpensSkipped(s, m)
    <3>1. t \in {c, advanced, MarkReceived(counted, m)} /\ ~ NewRemote(s, m)
      BY Zenon, <1>5, <1>12, <2>2 DEF DrawsKey
    <3> QED BY Zenon, <1>8, <1>9, <1>10, <1>12, <3>1 DEF t
  <2> QED BY Zenon, <2>1, <2>2
<1> QED BY ZenonT(40), <1>11, <1>12

(* NewSendingChain, with which init_alice, dh_ratchet and force_ratchet_step end, splits
   the sending chain from the root it leaves. *)
LEMMA NewChainSends ==
    ASSUME NEW s \in Ratchets, NEW self \in Nat, NEW remote \in Nat
    PROVE  LET t == NewSendingChain(s, self, remote)
           IN t.chain_key_send # None /\ t.chain_key_send.root = Append(s.root_key, {self, remote})
<1> DEFINE root == Append(s.root_key, {self, remote})
           c == [root |-> root, n |-> 0]
           u == [s EXCEPT !.dh_self = self, !.root_key = root, !.chain_key_send = c]
           k == <<u.root_key, u.chain_key_send>>
           g == u.session_key_generation + 1
           t == [u EXCEPT !.session_master_key = k, !.session_key_generation = g]
<1>1. NewSendingChain(s, self, remote) = t
  BY Zenon DEF NewSendingChain, derive_session_master_key, chain_of, kdf_rk, dh
<1>2. root \in Seq(SUBSET Nat)
  <2>1. s.root_key \in Seq(SUBSET Nat) /\ {self, remote} \in SUBSET Nat
    BY DEF Ratchets
  <2> QED BY <2>1, AppendIs
<1> HIDE DEF root
<1>3. c \in Chains /\ c # None /\ c.root = root
  BY <1>2, RatchetConstants DEF Chains
<1> HIDE DEF c
<1>4. u \in Ratchets /\ u.chain_key_send = c
  BY Zenon, <1>2, <1>3 DEF Ratchets
<1> HIDE DEF u, k, g
<1>5. t.chain_key_send = c
  BY Zenon, <1>4 DEF Ratchets
<1> HIDE DEF t
<1> QED BY Zenon, <1>1, <1>3, <1>5 DEF root

(* A root names one key pair. *)
LEMMA NamesOne ==
    ASSUME NEW root, NEW d \in Nat, NEW f \in Nat, Names(root, d), Names(root, f)
    PROVE  d = f
BY DEF Names

(* A root that ends with a new key pair and an older one names the new one. *)
LEMMA NamesNewest ==
    ASSUME NEW r \in Seq(SUBSET Nat), NEW d \in Nat, NEW f \in Nat, f <= d
    PROVE  Names(Append(r, {d, f}), d)
<1> DEFINE q == Append(r, {d, f})
<1>1. Len(q) = Len(r) + 1 /\ q[Len(r) + 1] = {d, f} /\ Len(r) \in Nat
  <2>1. {d, f} \in SUBSET Nat
    OBVIOUS
  <2> HIDE DEF q
  <2>2. q = Append(r, {d, f})
    BY DEF q
  <2> QED BY <2>1, <2>2, AppendIs, LenIs
<1> HIDE DEF q
<1>2. Names(q, d)
  BY <1>1 DEF Names
<1> QED BY <1>2 DEF q

-----------------------------------------------------------------------------
(* The entries for the beginning of the chain m was sealed on. *)
NewEntries(m) == {Entry(m.dh_public, m.key.root, k) : k \in 0 .. m.message_num - 1}

(* A message that arrives for the first time, not in the store, on the receiving chain;
   and s after it: the keys in between are set aside. *)
DueOnChain(s, m) ==
    /\ ~ Seen(s, m) /\ (\A k \in InStore(s) : ~ Fits(k, m)) /\ ~ NewRemote(s, m)
    /\ s.chain_key_recv # None /\ s.chain_key_recv.n = s.recv_count
    /\ s.recv_count <= m.message_num
    /\ Len(s.skipped_keys) + Beyond(s, m.message_num) <= MAX_SKIP
    /\ m.key.root = s.chain_key_recv.root /\ m.key.n = m.message_num

Advanced(s, t, m) ==
    /\ t \in Ratchets /\ SameSending(s, t) /\ t.dh_remote = s.dh_remote
    /\ t.chain_key_recv # None /\ t.chain_key_recv.root = s.chain_key_recv.root
    /\ t.chain_key_recv.n = t.recv_count /\ t.recv_count = m.message_num + 1
    /\ t.received_messages = s.received_messages \cup {<<m.dh_public, m.message_num>>}
    /\ InStore(t) = InStore(s) \cup Entries(s, m.message_num)

(* The same under a new key of the sender; and s after it: the rest of the old chain and
   the beginning of the new one are set aside. *)
DueOnNew(s, m) ==
    /\ ~ Seen(s, m) /\ (\A k \in InStore(s) : ~ Fits(k, m)) /\ NewRemote(s, m)
    /\ s.chain_key_recv # None => s.chain_key_recv.n = s.recv_count
    /\ Len(s.skipped_keys) + RestCount(s, m) + m.message_num <= MAX_SKIP
    /\ m.key.root = Append(s.root_key, {s.dh_self, m.dh_public}) /\ m.key.n = m.message_num

Renewed(s, t, m, fresh) ==
    /\ t \in Ratchets /\ Begun(s, t, m, fresh) /\ t.recv_count = m.message_num + 1
    /\ t.received_messages = {r \in s.received_messages : r[1] = m.dh_public}
                               \cup {<<m.dh_public, m.message_num>>}
    /\ InStore(t) = InStore(s) \cup Rest(s, m) \cup NewEntries(m)

(* What decrypt makes of such a message: it is accepted, on the chain s is on or on the
   new one, which reaches the message's key. *)
LEMMA Arrivals ==
    ASSUME SearchFinds
    PROVE  \A s \in Ratchets, m \in Messages, fresh \in Nat :
             /\ DueOnChain(s, m) => /\ decrypts(s, m, fresh)
                                    /\ Advanced(s, after_decrypt(s, m, fresh), m)
             /\ DueOnNew(s, m) => /\ decrypts(s, m, fresh)
                                  /\ Renewed(s, after_decrypt(s, m, fresh), m, fresh)
(* While the store has room, skip_message_keys sets aside exactly the keys between the
   position of the receiving chain and the message, and drops none. *)
<1>SkipExact.
    ASSUME NEW s \in Ratchets, NEW until \in Nat,
           s.chain_key_recv # None, s.chain_key_recv.n = s.recv_count,
           Len(s.skipped_keys) + Beyond(s, until) <= MAX_SKIP
    PROVE  LET t == skip_message_keys(s, until)
           IN /\ t \in Ratchets /\ SameSending(s, t) /\ t.dh_remote = s.dh_remote
              /\ t.received_messages = s.received_messages
              /\ t.chain_key_recv # None /\ t.chain_key_recv.root = s.chain_key_recv.root
              /\ t.chain_key_recv.n = t.recv_count
              /\ t.recv_count = s.recv_count + Beyond(s, until)
              /\ InStore(t) = InStore(s) \cup Entries(s, until)
              /\ Len(t.skipped_keys) = Len(s.skipped_keys) + Beyond(s, until)
  <2> USE <1>SkipExact
  <2>1. /\ s.recv_count \in Nat /\ s.skipped_keys \in Seq(Stored) /\ Len(s.skipped_keys) \in Nat
        /\ s.chain_key_recv \in Chains /\ s.chain_key_recv.root \in Seq(SUBSET Nat)
        /\ s.chain_key_recv.n \in Nat /\ MAX_SKIP \in Nat
    BY RatchetConstants, LenIs DEF Ratchets, Chains
  <2>2. CASE until <= s.recv_count
    <3>1. skip_message_keys(s, until) = s /\ Beyond(s, until) = 0
      BY <2>1, <2>2 DEF skip_message_keys, Beyond
    <3>2. s.recv_count .. until - 1 = {}
      BY <2>1, <2>2
    <3>3. Entries(s, until) = {}
      BY <3>2 DEF Entries
    <3> QED BY <2>1, <3>1, <3>3 DEF SameSending
  <2>3. CASE s.recv_count < until
    <3> DEFINE n == until - s.recv_count
               ch == s.chain_key_recv
               next == [ch EXCEPT !.n = @ + until - s.recv_count]
               q == s.skipped_keys
               su == SkippedUntil(s, until)
               all == q \o su
               t == [s EXCEPT !.skipped_keys = all, !.chain_key_recv = next, !.recv_count = until]
    <3>1. n \in Nat /\ n = Beyond(s, until) /\ ~ TooFar(s, until) /\ s.recv_count + n = until
      BY <2>1, <2>3 DEF Beyond, TooFar
    <3>2. su \in Seq(Stored) /\ Len(su) = n
      BY <2>1, <2>3, SkippedUntilIs
    <3>3. next \in Chains /\ next.root = ch.root /\ next.n = until
      <4>1. ch.n + until - s.recv_count = until
        BY <2>1
      <4> DEFINE z == ch.n + until - s.recv_count
      <4>2. next = [ch EXCEPT !.n = z]
        OBVIOUS
      <4>3. z \in Nat
        BY <4>1
      <4> HIDE DEF z, next
      <4>4. next \in Chains /\ next.root = ch.root /\ next.n = z
        BY <2>1, <4>2, <4>3 DEF Chains
      <4> QED BY <4>1, <4>4 DEF z
    <3>4. \A i \in 1 .. n : su[i] = Entry(s.dh_remote, ch.root, s.recv_count + i - 1)
      <4> TAKE i \in 1 .. n
      <4> DEFINE c == [ch EXCEPT !.n = @ + i - 1]
      <4>1. su[i] = [dh_public |-> s.dh_remote, message_num |-> s.recv_count + i - 1, message_key |-> c]
        BY DEF SkippedUntil
      <4>2. c = [root |-> ch.root, n |-> s.recv_count + i - 1]
        BY <2>1 DEF Chains
      <4> HIDE DEF c, su
      <4> QED BY <4>1, <4>2 DEF Entry
    <3>5. /\ all \in Seq(Stored) /\ Len(all) = Len(q) + Len(su)
          /\ \A i \in 1 .. Len(q) + Len(su) : all[i] = IF i <= Len(q) THEN q[i] ELSE su[i - Len(q)]
      <4> HIDE DEF n, q, su
      <4> QED BY Zenon, <2>1, <3>2, ConcatIs DEF q
    <3>6. Newest(all) = all
      <4>1. Len(all) <= MAX_SKIP /\ Len(all) \in Nat
        BY <2>1, <3>1, <3>2, <3>5
      <4>2. ~ (Len(all) > MAX_SKIP)
        BY <2>1, <4>1
      <4> HIDE DEF all
      <4> QED BY Zenon, <4>2 DEF Newest
    <3>7. skip_message_keys(s, until) = t
      <4>1. ~ (s.chain_key_recv = None \/ TooFar(s, until) \/ until <= s.recv_count)
        BY <2>1, <2>3, <3>1
      <4>2. skip_message_keys(s, until) =
              [s EXCEPT !.skipped_keys = Newest(s.skipped_keys \o SkippedUntil(s, until)),
                        !.chain_key_recv = [s.chain_key_recv EXCEPT !.n = @ + until - s.recv_count],
                        !.recv_count = until]
        BY <4>1, Zenon DEF skip_message_keys
      <4> QED BY <3>6, <4>2, Zenon
    <3> HIDE DEF n, ch, next, q, su, all
    <3>8. /\ t \in Ratchets /\ SameSending(s, t) /\ t.dh_remote = s.dh_remote
          /\ t.received_messages = s.received_messages /\ t.skipped_keys = all
          /\ t.chain_key_recv = next /\ t.recv_count = until
      BY Zenon, <3>3, <3>5 DEF Ratchets, SameSending
    <3> HIDE DEF t
    <3>9. InStore(t) = InStore(s) \cup Entries(s, until)
      <4>1. ASSUME NEW k \in InStore(t) PROVE k \in InStore(s) \cup Entries(s, until)
        <5>1. PICK i \in 1 .. Len(all) : k = all[i]
          BY <3>8 DEF InStore
        <5>2. CASE i <= Len(q)
          <6>1. i \in 1 .. Len(q) + Len(su) /\ i \in 1 .. Len(q)
            BY <3>5, <5>2
          <6>2. k = q[i]
            BY <3>5, <5>1, <5>2, <6>1
          <6> QED BY <6>1, <6>2 DEF InStore, q
        <5>3. CASE ~ (i <= Len(q))
          <6>1. i \in 1 .. Len(q) + Len(su) /\ i - Len(q) \in 1 .. n
            BY <2>1, <3>1, <3>2, <3>5, <5>3 DEF q
          <6>2. k = su[i - Len(q)]
            BY <3>5, <5>1, <5>3, <6>1
          <6>3. k = Entry(s.dh_remote, ch.root, s.recv_count + (i - Len(q)) - 1)
            BY <3>4, <6>1, <6>2
          <6>4. s.recv_count + (i - Len(q)) - 1 \in s.recv_count .. until - 1
            <7>1. \A y \in 1 .. n : s.recv_count + y - 1 \in s.recv_count .. until - 1
              BY <2>1, <2>3 DEF n
            <7> QED BY Zenon, <6>1, <7>1
          <6> QED BY <6>3, <6>4 DEF Entries, ch
        <5> QED BY <5>2, <5>3
      <4>2. ASSUME NEW k \in InStore(s) PROVE k \in InStore(t)
        <5>1. PICK i \in 1 .. Len(q) : k = q[i]
          BY DEF InStore, q
        <5>2. i \in 1 .. Len(q) + Len(su) /\ i <= Len(q) /\ i \in 1 .. Len(all)
          BY <2>1, <3>1, <3>2, <3>5 DEF q
        <5>3. k = all[i]
          BY <3>5, <5>1, <5>2
        <5> QED BY <3>8, <5>2, <5>3 DEF InStore
      <4>3. ASSUME NEW k \in Entries(s, until) PROVE k \in InStore(t)
        <5>1. PICK j \in s.recv_count .. until - 1 : k = Entry(s.dh_remote, ch.root, j)
          BY DEF Entries, ch
        <5> DEFINE i == j - s.recv_count + 1
                   x == i + Len(q)
        <5>2. /\ i \in 1 .. n /\ s.recv_count + i - 1 = j /\ x - Len(q) = i
              /\ ~ (x <= Len(q)) /\ x \in 1 .. Len(q) + Len(su)
          <6>1. Len(q) \in Nat /\ Len(su) = until - s.recv_count /\ j \in Int
            BY <2>1, <2>3, <3>2 DEF q, n
          <6>2. i \in 1 .. until - s.recv_count /\ s.recv_count + i - 1 = j
            BY SMTT(40), <2>1, <2>3, <6>1
          <6> HIDE DEF i
          <6> QED BY SMTT(40), <2>1, <6>1, <6>2 DEF n
        <5> HIDE DEF i, x
        <5>3. all[x] = su[i]
          BY <3>5, <5>2
        <5>4. k = all[x]
          BY <3>4, <5>1, <5>2, <5>3
        <5> QED BY Zenon, <3>5, <3>8, <5>2, <5>4 DEF InStore
      <4> QED BY <4>1, <4>2, <4>3
    <3>10. next # None
      BY <3>3, RatchetConstants DEF Chains
    <3>11. Len(t.skipped_keys) = Len(s.skipped_keys) + Beyond(s, until)
      BY <3>1, <3>2, <3>5, <3>8 DEF q
    <3> QED BY <3>1, <3>3, <3>7, <3>8, <3>9, <3>10, <3>11 DEF ch
  <2> QED BY <2>1, <2>2, <2>3
(* The ratchet step of decrypt keeps every key of the store and of the rest of the old
   chain, while there is room for them. *)
<1>RatchetedExact.
    ASSUME NEW s \in Ratchets, NEW m \in Messages, NEW fresh \in Nat,
           s.chain_key_recv # None => s.chain_key_recv.n = s.recv_count,
           Len(s.skipped_keys) + RestCount(s, m) <= MAX_SKIP
    PROVE  LET t == Ratcheted(s, m, fresh)
           IN /\ t \in Ratchets /\ Begun(s, t, m, fresh) /\ t.recv_count = 0
              /\ t.received_messages = {r \in s.received_messages : r[1] = m.dh_public}
              /\ InStore(t) = InStore(s) \cup Rest(s, m)
              /\ Len(t.skipped_keys) = Len(s.skipped_keys) + RestCount(s, m)
  <2> USE <1>RatchetedExact
  <2> DEFINE a == skip_message_keys(s, m.prev_chain_len)
             b == dh_ratchet(a, m.dh_public, fresh)
             R == {r \in b.received_messages : r[1] = m.dh_public}
             t == [b EXCEPT !.received_messages = R]
  <2>1. m.prev_chain_len \in Nat /\ m.dh_public \in Nat /\ Len(s.skipped_keys) \in Nat
    BY StoredKeys DEF Messages
  <2>2. /\ a \in Ratchets /\ a.root_key = s.root_key /\ a.dh_self = s.dh_self
        /\ a.send_count = s.send_count /\ a.received_messages = s.received_messages
        /\ InStore(a) = InStore(s) \cup Rest(s, m)
        /\ Len(a.skipped_keys) = Len(s.skipped_keys) + RestCount(s, m)
    <3>1. CASE s.chain_key_recv = None
      <4>1. a = s
        BY <3>1 DEF skip_message_keys
      <4> HIDE DEF a
      <4> QED BY <2>1, <3>1, <4>1 DEF Rest, RestCount
    <3>2. CASE s.chain_key_recv # None
      <4>1. RestCount(s, m) = Beyond(s, m.prev_chain_len) /\ Rest(s, m) = Entries(s, m.prev_chain_len)
        BY <3>2 DEF RestCount, Rest
      <4>2. Len(s.skipped_keys) + Beyond(s, m.prev_chain_len) <= MAX_SKIP
        BY <4>1
      <4>3. /\ a \in Ratchets /\ SameSending(s, a) /\ a.received_messages = s.received_messages
            /\ InStore(a) = InStore(s) \cup Entries(s, m.prev_chain_len)
            /\ Len(a.skipped_keys) = Len(s.skipped_keys) + Beyond(s, m.prev_chain_len)
        BY <2>1, <3>2, <4>2, <1>SkipExact
      <4> HIDE DEF a
      <4> QED BY <4>1, <4>3 DEF SameSending
    <3> QED BY <3>1, <3>2
  <2>3. Ratcheted(s, m, fresh) = t
    BY DEF Ratcheted
  <2> HIDE DEF a
  <2>4. /\ b \in Ratchets /\ Stepped(a, b, m.dh_public, fresh)
        /\ b.chain_key_send # None
        /\ b.chain_key_send.root = b.root_key /\ b.chain_key_send.n = 0
        /\ b.send_count = 0 /\ b.prev_send_count = a.send_count
        /\ b.chain_key_recv # None
        /\ b.chain_key_recv.root = Append(a.root_key, {a.dh_self, m.dh_public})
        /\ b.chain_key_recv.n = 0 /\ b.recv_count = 0
        /\ b.skipped_keys = a.skipped_keys
        /\ b.received_messages = a.received_messages
    BY Zenon, <2>1, <2>2, StepExact
  <2> HIDE DEF b
  <2>5. R \in SUBSET (Nat \X Nat)
    BY <2>4 DEF Ratchets
  <2>6. R = {r \in s.received_messages : r[1] = m.dh_public}
    BY <2>2, <2>4
  <2> HIDE DEF R
  <2>7. /\ t \in Ratchets /\ SameSending(b, t) /\ SameReceiving(b, t)
        /\ t.received_messages = R /\ t.skipped_keys = b.skipped_keys
    BY Zenon, <2>4, <2>5 DEF Ratchets, SameSending, SameReceiving
  <2> HIDE DEF t
  <2>8. Stepped(s, t, m.dh_public, fresh)
    BY <2>2, <2>4, <2>7 DEF Stepped, SameSending, SameReceiving
  <2>9. Begun(s, t, m, fresh) /\ t.recv_count = 0
    BY <2>2, <2>4, <2>7, <2>8 DEF Begun, SameSending, SameReceiving
  <2>10. InStore(t) = InStore(a) /\ Len(t.skipped_keys) = Len(a.skipped_keys)
    BY <2>4, <2>7 DEF InStore
  <2> QED BY <2>2, <2>3, <2>6, <2>7, <2>9, <2>10
(* A chain position is its root and its number. *)
<1>ChainEqual.
    \A a, b \in Chains : a.root = b.root /\ a.n = b.n => a = b
  BY DEF Chains
(* A message that opens on the chain moves chain and counter together. *)
<1>AcceptExact.
    ASSUME NEW c \in Ratchets, NEW m \in Messages, c.chain_key_recv # None,
           c.chain_key_recv.n = c.recv_count
    PROVE  LET t == Accepts(c, m)
           IN /\ t \in Ratchets /\ SameSending(c, t) /\ t.dh_remote = c.dh_remote
              /\ t.chain_key_recv # None /\ t.chain_key_recv.root = c.chain_key_recv.root
              /\ t.chain_key_recv.n = t.recv_count /\ t.recv_count = c.recv_count + 1
              /\ t.received_messages = c.received_messages \cup {<<m.dh_public, m.message_num>>}
              /\ InStore(t) = InStore(c)
  <2> USE <1>AcceptExact
  <2> DEFINE next == [c.chain_key_recv EXCEPT !.n = @ + 1]
             a == [c EXCEPT !.chain_key_recv = next]
             b == [a EXCEPT !.recv_count = a.recv_count + 1]
             R == b.received_messages \cup {<<m.dh_public, m.message_num>>}
             t == [b EXCEPT !.received_messages = R]
  <2>1. c.chain_key_recv \in Chains /\ c.recv_count \in Nat /\ c.recv_count + 1 \in Nat
    BY DEF Ratchets
  <2>2. next \in Chains /\ next.root = c.chain_key_recv.root /\ next.n = c.recv_count + 1
    BY <2>1 DEF Chains
  <2>3. next # None
    BY Zenon, <2>2, RatchetConstants DEF Chains
  <2>4. Accepts(c, m) = t
    BY DEF Accepts, MarkReceived, kdf_ck
  <2> HIDE DEF next
  <2>5. /\ a \in Ratchets /\ SameSending(c, a) /\ a.dh_remote = c.dh_remote
        /\ a.chain_key_recv = next /\ a.recv_count = c.recv_count
        /\ a.received_messages = c.received_messages /\ a.skipped_keys = c.skipped_keys
    BY Zenon, <2>2 DEF Ratchets, SameSending
  <2> HIDE DEF a
  <2>6. /\ b \in Ratchets /\ SameSending(c, b) /\ b.dh_remote = c.dh_remote
        /\ b.chain_key_recv = next /\ b.recv_count = c.recv_count + 1
        /\ b.received_messages = c.received_messages /\ b.skipped_keys = c.skipped_keys
    <3>1. a.recv_count + 1 = c.recv_count + 1
      BY <2>5
    <3> QED BY Zenon, <2>1, <2>5, <3>1 DEF Ratchets, SameSending
  <2> HIDE DEF b
  <2>7. R \in SUBSET (Nat \X Nat)
    <3>1. b.received_messages \in SUBSET (Nat \X Nat)
      BY <2>6 DEF Ratchets
    <3>2. <<m.dh_public, m.message_num>> \in Nat \X Nat
      BY DEF Messages
    <3> QED BY <3>1, <3>2
  <2>8. R = c.received_messages \cup {<<m.dh_public, m.message_num>>}
    BY <2>6
  <2> HIDE DEF R
  <2>9. /\ t \in Ratchets /\ SameSending(c, t) /\ t.dh_remote = c.dh_remote
        /\ t.chain_key_recv = next /\ t.recv_count = c.recv_count + 1
        /\ t.received_messages = R /\ t.skipped_keys = c.skipped_keys
    BY Zenon, <2>6, <2>7 DEF Ratchets, SameSending
  <2> HIDE DEF t
  <2>10. InStore(t) = InStore(c)
    BY <2>9 DEF InStore
  <2> QED BY <2>2, <2>3, <2>4, <2>8, <2>9, <2>10
(* Without a key in the store the message is opened by the chain brought to it. *)
<1>Arrives.
    ASSUME NEW s \in Ratchets, NEW m \in Messages, NEW fresh,
           ~ Seen(s, m), \A k \in InStore(s) : ~ Fits(k, m),
           OnChain(s, m, fresh).chain_key_recv = m.key
    PROVE  /\ decrypts(s, m, fresh)
           /\ after_decrypt(s, m, fresh) = Accepts(OnChain(s, m, fresh), m)
  <2> USE <1>Arrives
  <2>1. try_skipped_keys(s, m) = s
    BY TryExact
  <2>2. ~ OpensSkipped(s, m)
    BY StoreOpens
  <2>3. m.key # None
    BY DEF Messages
  <2>4. decrypts(s, m, fresh)
    BY <2>1 DEF decrypts
  <2>5. after_decrypt(s, m, fresh) = Accepts(OnChain(s, m, fresh), m)
    BY Zenon, <2>1, <2>2, <2>3 DEF after_decrypt, Accepts
  <2> QED BY <2>4, <2>5
(* On the receiving chain: the keys in between are set aside, and the chain's next key
   is the message's. *)
<1>ArrivesOnChain.
    ASSUME NEW s \in Ratchets, NEW m \in Messages, NEW fresh \in Nat, DueOnChain(s, m)
    PROVE  decrypts(s, m, fresh) /\ Advanced(s, after_decrypt(s, m, fresh), m)
  <2> USE <1>ArrivesOnChain DEF DueOnChain
  <2> DEFINE c == OnChain(s, m, fresh)
             t == after_decrypt(s, m, fresh)
  <2>1. m.message_num \in Nat /\ m.key \in Chains /\ s.recv_count \in Nat
    BY DEF Messages, Ratchets
  <2>2. c = skip_message_keys(s, m.message_num)
    BY DEF OnChain
  <2>3. s.recv_count + Beyond(s, m.message_num) = m.message_num
    BY <2>1 DEF Beyond
  <2> HIDE DEF c
  <2>4. /\ c \in Ratchets /\ SameSending(s, c) /\ c.dh_remote = s.dh_remote
        /\ c.received_messages = s.received_messages
        /\ c.chain_key_recv # None /\ c.chain_key_recv.root = s.chain_key_recv.root
        /\ c.chain_key_recv.n = c.recv_count /\ c.recv_count = m.message_num
        /\ InStore(c) = InStore(s) \cup Entries(s, m.message_num)
    BY <2>1, <2>2, <2>3, <1>SkipExact
  <2>5. c.chain_key_recv = m.key
    <3>1. c.chain_key_recv \in Chains
      BY <2>4 DEF Ratchets
    <3> QED BY <2>1, <2>4, <3>1, <1>ChainEqual
  <2>6. decrypts(s, m, fresh) /\ t = Accepts(c, m)
    BY <2>5, <1>Arrives DEF c
  <2> HIDE DEF t
  <2>7. /\ t \in Ratchets /\ SameSending(c, t) /\ t.dh_remote = c.dh_remote
        /\ t.chain_key_recv # None /\ t.chain_key_recv.root = c.chain_key_recv.root
        /\ t.chain_key_recv.n = t.recv_count /\ t.recv_count = c.recv_count + 1
        /\ t.received_messages = c.received_messages \cup {<<m.dh_public, m.message_num>>}
        /\ InStore(t) = InStore(c)
    BY <2>4, <2>6, <1>AcceptExact
  <2>8. SameSending(s, t)
    BY <2>4, <2>7 DEF SameSending
  <2>9. Advanced(s, t, m)
    BY <2>4, <2>7, <2>8 DEF Advanced
  <2> QED BY Zenon, <2>6, <2>9 DEF t
(* Under a new key of the sender: the rest of the old chain and the beginning of the new
   one are set aside, and the new chain reaches the message's key. *)
<1>ArrivesNew.
    ASSUME NEW s \in Ratchets, NEW m \in Messages, NEW fresh \in Nat, DueOnNew(s, m)
    PROVE  decrypts(s, m, fresh) /\ Renewed(s, after_decrypt(s, m, fresh), m, fresh)
  <2> USE <1>ArrivesNew DEF DueOnNew
  <2> DEFINE a == Ratcheted(s, m, fresh)
             c == OnChain(s, m, fresh)
             t == after_decrypt(s, m, fresh)
  <2>1. /\ m.message_num \in Nat /\ m.key \in Chains /\ Len(s.skipped_keys) \in Nat
        /\ m.prev_chain_len \in Nat /\ s.recv_count \in Nat /\ MAX_SKIP \in Nat
    BY StoredKeys, RatchetConstants DEF Messages, Ratchets
  <2>2. RestCount(s, m) \in Nat /\ Len(s.skipped_keys) + RestCount(s, m) <= MAX_SKIP
    BY SMTT(40), <2>1 DEF RestCount, Beyond
  <2>3. c = skip_message_keys(a, m.message_num)
    BY DEF OnChain
  <2>4. /\ a \in Ratchets /\ Begun(s, a, m, fresh) /\ a.recv_count = 0
        /\ a.received_messages = {r \in s.received_messages : r[1] = m.dh_public}
        /\ InStore(a) = InStore(s) \cup Rest(s, m)
        /\ Len(a.skipped_keys) = Len(s.skipped_keys) + RestCount(s, m)
    BY <2>2, <1>RatchetedExact
  <2> HIDE DEF a, c
  <2>5. a.chain_key_recv # None /\ a.chain_key_recv.n = a.recv_count /\ a.dh_remote = m.dh_public
        /\ a.chain_key_recv.root = m.key.root
    BY <2>4 DEF Begun, Stepped
  <2>6. Beyond(a, m.message_num) = m.message_num
    BY <2>1, <2>4 DEF Beyond
  <2>7. Entries(a, m.message_num) = NewEntries(m)
    BY <2>4, <2>5 DEF Entries, NewEntries
  <2>8. Len(a.skipped_keys) + Beyond(a, m.message_num) <= MAX_SKIP
    BY <2>4, <2>6
  <2>9. /\ c \in Ratchets /\ SameSending(a, c) /\ c.dh_remote = a.dh_remote
        /\ c.received_messages = a.received_messages
        /\ c.chain_key_recv # None /\ c.chain_key_recv.root = a.chain_key_recv.root
        /\ c.chain_key_recv.n = c.recv_count /\ c.recv_count = a.recv_count + m.message_num
        /\ InStore(c) = InStore(a) \cup NewEntries(m)
    <3>1. a \in Ratchets /\ m.message_num \in Nat
      BY <2>1, <2>4
    <3>2. /\ c \in Ratchets /\ SameSending(a, c) /\ c.dh_remote = a.dh_remote
          /\ c.received_messages = a.received_messages
          /\ c.chain_key_recv # None /\ c.chain_key_recv.root = a.chain_key_recv.root
          /\ c.chain_key_recv.n = c.recv_count
          /\ c.recv_count = a.recv_count + Beyond(a, m.message_num)
          /\ InStore(c) = InStore(a) \cup Entries(a, m.message_num)
      BY ZenonT(40), <2>3, <2>5, <2>8, <3>1, <1>SkipExact
    <3> QED BY Zenon, <2>6, <2>7, <3>2
  <2>10. c.recv_count = m.message_num
    BY <2>1, <2>4, <2>9
  <2>11. c.chain_key_recv = m.key
    <3>1. c.chain_key_recv \in Chains
      BY <2>9 DEF Ratchets
    <3> QED BY Zenon, <2>1, <2>5, <2>9, <2>10, <3>1, <1>ChainEqual
  <2>12. decrypts(s, m, fresh) /\ t = Accepts(c, m)
    BY <2>11, <1>Arrives DEF c
  <2> HIDE DEF t
  <2>13. /\ t \in Ratchets /\ SameSending(c, t) /\ t.dh_remote = c.dh_remote
         /\ t.chain_key_recv # None /\ t.chain_key_recv.root = c.chain_key_recv.root
         /\ t.chain_key_recv.n = t.recv_count /\ t.recv_count = c.recv_count + 1
         /\ t.received_messages = c.received_messages \cup {<<m.dh_public, m.message_num>>}
         /\ InStore(t) = InStore(c)
    BY <2>9, <2>12, <1>AcceptExact
  <2>14. SameSending(a, t)
    BY <2>9, <2>13 DEF SameSending
  <2>15. Begun(s, t, m, fresh)
    BY Zenon, <2>4, <2>9, <2>13, <2>14 DEF Begun, Stepped, SameSending
  <2>16. Renewed(s, t, m, fresh)
    BY <2>4, <2>9, <2>10, <2>13, <2>15 DEF Renewed
  <2> QED BY Zenon, <2>12, <2>16 DEF t
<1> QED BY Zenon, <1>ArrivesOnChain, <1>ArrivesNew

-----------------------------------------------------------------------------
(* One direction of the channel: r sends, s receives, M are the messages sent and A
   those accepted. *)

(* Two messages that the header cannot tell apart. *)
SameNumber(m, n) == m.dh_public = n.dh_public /\ m.message_num = n.message_num

(* The receiving chains of s have moved past the place of m. *)
Passed(s, m) ==
    /\ s.dh_remote # None
    /\ \/ m.dh_public < s.dh_remote
       \/ m.dh_public = s.dh_remote /\ m.message_num < s.recv_count

(* r numbers the messages of its present key by their place on its sending chain, and
   gives no number twice. *)
Sender(r, M) ==
    /\ r.chain_key_send # None =>
          r.chain_key_send.root = r.root_key /\ r.chain_key_send.n = r.send_count
    /\ \A m \in M : m.key.n = m.message_num
    /\ \A m \in M : m.dh_public = r.dh_self =>
          /\ m.key.root = r.root_key
          /\ m.message_num < r.send_count
          /\ m.prev_chain_len = r.prev_send_count
    /\ \A m, n \in M : SameNumber(m, n) => m = n

(* The receiving chain of s is the one its newest messages were sealed on, and
   recv_count is the place it has reached. *)
Receiver(s, M) ==
    /\ s.chain_key_recv # None => s.chain_key_recv.n = s.recv_count /\ s.dh_remote # None
    /\ \A m \in M : s.dh_remote # None /\ m.dh_public <= s.dh_remote => s.chain_key_recv # None
    /\ \A m \in M : m.dh_public = s.dh_remote => m.key.root = s.chain_key_recv.root

(* received_messages records accepted messages only, and all those under the present
   DH key; the records of older keys are dropped by decrypt. *)
Records(s, M, A) ==
    /\ A \subseteq M
    /\ \A x \in s.received_messages : \E m \in A : x = <<m.dh_public, m.message_num>>
    /\ \A m \in A : s.dh_remote # None /\ m.dh_public <= s.dh_remote
    /\ \A m \in A : m.dh_public = s.dh_remote => Seen(s, m)

(* skipped_keys holds keys of places that have been passed, each the key of the message
   of that number. *)
Store(s, r, M) ==
    \A k \in InStore(s) :
        /\ s.dh_remote # None /\ k.dh_public \in Nat /\ k.dh_public <= s.dh_remote
        /\ k.dh_public = r.dh_self => k.message_num < r.send_count
        /\ \A m \in M : Fits(k, m) => k.message_key = m.key

(* What was passed and has not been accepted can still be opened. *)
NothingLost(s, M, A) ==
    \A m \in M \ A : Passed(s, m) => \E k \in InStore(s) : Fits(k, m)

(* What s knows of r, in one direction. *)
Link(s, r, M, A) ==
    Sender(r, M) /\ Receiver(s, M) /\ Records(s, M, A) /\ Store(s, r, M) /\ NothingLost(s, M, A)

(* s has followed r to its present key: no message bears a newer one. *)
Tuned(s, r, M) ==
    /\ s.dh_remote = r.dh_self
    /\ r.chain_key_send # None => s.chain_key_recv # None /\ s.chain_key_recv.root = r.root_key
    /\ s.recv_count <= r.send_count
    /\ \A m \in M : m.dh_public <= s.dh_remote

(* r has turned to a key s does not know yet, one dh_ratchet step ahead of s; of r's
   previous chain nothing lies beyond prev_send_count. *)
Pending(s, r, M) ==
    /\ r.chain_key_send # None
    /\ r.root_key = Append(s.root_key, {s.dh_self, r.dh_self})
    /\ s.dh_remote # None => s.dh_remote < r.dh_self
    /\ \A m \in M : m.dh_public = r.dh_self \/ (s.dh_remote # None /\ m.dh_public <= s.dh_remote)
    /\ \A m \in M : m.dh_public = s.dh_remote => m.message_num < r.prev_send_count

(* Both directions, and whose turn it is: one end has followed the other, which has yet
   to follow it. *)
InTouch(s, r, M, N, A, B) ==
    /\ Link(s, r, M, A) /\ Link(r, s, N, B)
    /\ \/ Tuned(s, r, M) /\ Pending(r, s, N)
       \/ Tuned(r, s, N) /\ Pending(s, r, M)

(* The initiator begins on the responder's key, and nothing has been sent (init_alice,
   init_bob). *)
LEMMA InTouchBegins == InTouch(init_alice(2, 1), init_bob(1), {}, {}, {}, {})
<1> DEFINE z == Cleared(2, 1)
           c == [root |-> Append(<< >>, {2, 1}), n |-> 0]
           u == [z EXCEPT !.dh_self = 2, !.root_key = Append(<< >>, {2, 1}), !.chain_key_send = c]
           a == init_alice(2, 1)
           b == init_bob(1)
<1>1. z \in Ratchets /\ z.root_key = << >>
  BY DEF Cleared, Ratchets
<1>2. a = derive_session_master_key(u)
  BY DEF init_alice, NewSendingChain, kdf_rk, dh, chain_of, Cleared
<1>3. /\ a.dh_self = 2 /\ a.dh_remote = 1 /\ a.root_key = Append(<< >>, {2, 1})
      /\ a.chain_key_send = c /\ a.chain_key_recv = None /\ a.send_count = 0 /\ a.recv_count = 0
      /\ a.skipped_keys = << >> /\ a.received_messages = {}
  <2> HIDE DEF c
  <2>1. u \in Ratchets
    <3>1. c \in Chains /\ Append(<< >>, {2, 1}) \in Seq(SUBSET Nat)
      BY DEF Chains, c
    <3> HIDE DEF z
    <3> QED BY Zenon, <1>1, <3>1 DEF Ratchets
  <2>2. /\ u.dh_self = 2 /\ u.dh_remote = 1 /\ u.root_key = Append(<< >>, {2, 1})
        /\ u.chain_key_send = c /\ u.chain_key_recv = None /\ u.send_count = 0 /\ u.recv_count = 0
        /\ u.skipped_keys = << >> /\ u.received_messages = {}
    BY DEF Cleared
  <2> DEFINE k == <<u.root_key, u.chain_key_send>>
             g == u.session_key_generation + 1
  <2> HIDE DEF u, z, k, g
  <2>3. a = [u EXCEPT !.session_master_key = k, !.session_key_generation = g]
    BY Zenon, <1>2 DEF derive_session_master_key, k, g
  <2>4. /\ a.dh_self = u.dh_self /\ a.dh_remote = u.dh_remote /\ a.root_key = u.root_key
        /\ a.chain_key_send = u.chain_key_send /\ a.chain_key_recv = u.chain_key_recv
        /\ a.send_count = u.send_count /\ a.recv_count = u.recv_count
        /\ a.skipped_keys = u.skipped_keys /\ a.received_messages = u.received_messages
    <3> HIDE DEF a
    <3> QED BY ZenonT(40), <2>1, <2>3 DEF Ratchets
  <2> QED BY Zenon, <2>2, <2>4
<1>4. /\ b.dh_self = 1 /\ b.dh_remote = None /\ b.root_key = << >>
      /\ b.chain_key_send = None /\ b.chain_key_recv = None /\ b.send_count = 0 /\ b.recv_count = 0
      /\ b.skipped_keys = << >> /\ b.received_messages = {}
  BY DEF init_bob, Cleared
<1>5. c # None
  <2>1. Append(<< >>, {2, 1}) \in Seq(SUBSET Nat)
    OBVIOUS
  <2>2. c \in [root : Seq(SUBSET Nat), n : Nat]
    BY <2>1
  <2> HIDE DEF c
  <2> QED BY <2>2, RatchetConstants, Zenon
<1> HIDE DEF a, b, u, z
<1>6. InStore(a) = {} /\ InStore(b) = {}
  BY <1>3, <1>4 DEF InStore
<1>7. Link(a, b, {}, {})
  BY ZenonT(40), <1>3, <1>4, <1>6 DEF Link, Sender, Receiver, Records, Store, NothingLost
<1>8. Link(b, a, {}, {})
  BY <1>3, <1>4, <1>6 DEF Link, Sender, Receiver, Records, Store, NothingLost
<1>9. Tuned(a, b, {})
  BY <1>3, <1>4 DEF Tuned
<1>10. Pending(b, a, {})
  <2>1. {2, 1} = {1, 2}
    OBVIOUS
  <2> QED BY <1>3, <1>4, <1>5, <2>1 DEF Pending
<1> QED BY Zenon, <1>7, <1>8, <1>9, <1>10 DEF InTouch, a, b

(* m is what r seals with the next key of its sending chain. *)
NextOf(r, m) ==
    /\ m.dh_public = r.dh_self /\ m.prev_chain_len = r.prev_send_count
    /\ m.message_num = r.send_count /\ m.key = r.chain_key_send

(* The ends stay in touch when one of them sends. *)
LEMMA InTouchSends ==
    \A s, r \in Ratchets, M \in SUBSET Messages, m \in Messages : \A N, A, B :
        /\ InTouch(r, s, N, M, B, A) /\ CanEncrypt(r) /\ NextOf(r, m)
        => InTouch(after_encrypt(r, TRUE), s, N, M \cup {m}, B, A)
(* What sending does to an end leaves it the receiver it was. *)
<1>SameReceiver.
    ASSUME NEW s, NEW r, NEW t, NEW M, NEW A, SameReceiving(s, t),
           t.received_messages = s.received_messages, t.skipped_keys = s.skipped_keys,
           t.root_key = s.root_key, t.dh_self = s.dh_self
    PROVE  /\ Link(s, r, M, A) => Link(t, r, M, A)
           /\ Tuned(s, r, M) => Tuned(t, r, M)
           /\ Pending(s, r, M) => Pending(t, r, M)
  <2> USE <1>SameReceiver
  <2>1. /\ t.dh_remote = s.dh_remote /\ t.chain_key_recv = s.chain_key_recv
        /\ t.recv_count = s.recv_count /\ InStore(t) = InStore(s)
        /\ \A m : (Seen(t, m) <=> Seen(s, m)) /\ (Passed(t, m) <=> Passed(s, m))
    BY DEF SameReceiving, InStore, Seen, Passed
  <2>2. Receiver(s, M) => Receiver(t, M)
    BY <2>1 DEF Receiver
  <2>3. Records(s, M, A) => Records(t, M, A)
    BY <2>1 DEF Records
  <2>4. Store(s, r, M) => Store(t, r, M)
    BY <2>1 DEF Store
  <2>5. NothingLost(s, M, A) => NothingLost(t, M, A)
    BY <2>1 DEF NothingLost
  <2>6. Tuned(s, r, M) => Tuned(t, r, M)
    BY <2>1 DEF Tuned
  <2>7. Pending(s, r, M) => Pending(t, r, M)
    BY <2>1 DEF Pending
  <2> QED BY <2>2, <2>3, <2>4, <2>5, <2>6, <2>7 DEF Link
(* encrypt, field by field. *)
<1>SendExact.
    ASSUME NEW r \in Ratchets, CanEncrypt(r)
    PROVE  LET t == after_encrypt(r, TRUE)
           IN /\ t \in Ratchets /\ SameReceiving(r, t)
              /\ t.received_messages = r.received_messages /\ t.skipped_keys = r.skipped_keys
              /\ t.root_key = r.root_key /\ t.dh_self = r.dh_self
              /\ t.prev_send_count = r.prev_send_count /\ t.send_count = r.send_count + 1
              /\ t.chain_key_send # None /\ t.chain_key_send.root = r.chain_key_send.root
              /\ t.chain_key_send.n = r.chain_key_send.n + 1
  <2> USE <1>SendExact
  <2> DEFINE c == [r.chain_key_send EXCEPT !.n = @ + 1]
             n == r.send_count + 1
             t == [r EXCEPT !.chain_key_send = c, !.send_count = n]
  <2>1. r.chain_key_send \in Chains /\ n \in Nat
    BY DEF Ratchets, CanEncrypt
  <2>2. c \in Chains /\ c.root = r.chain_key_send.root /\ c.n = r.chain_key_send.n + 1
    BY <2>1 DEF Chains
  <2>3. c # None
    BY Zenon, <2>2, RatchetConstants DEF Chains
  <2>4. after_encrypt(r, TRUE) = t
    BY DEF after_encrypt, kdf_ck
  <2> HIDE DEF c, n
  <2>5. /\ t \in Ratchets /\ SameReceiving(r, t)
        /\ t.received_messages = r.received_messages /\ t.skipped_keys = r.skipped_keys
        /\ t.root_key = r.root_key /\ t.dh_self = r.dh_self
        /\ t.prev_send_count = r.prev_send_count /\ t.send_count = n /\ t.chain_key_send = c
    BY Zenon, <2>1, <2>2 DEF Ratchets, SameReceiving
  <2> HIDE DEF t
  <2> QED BY Zenon, <2>2, <2>3, <2>4, <2>5 DEF n
(* A message sent joins the link: its number is new, its key is the next of the chain the
   receiver follows or will begin. *)
<1>LinkSends.
    ASSUME NEW s \in Ratchets, NEW r \in Ratchets, NEW M \in SUBSET Messages, NEW A,
           NEW m \in Messages, CanEncrypt(r), Link(s, r, M, A),
           Tuned(s, r, M) \/ Pending(s, r, M),
           m.dh_public = r.dh_self, m.prev_chain_len = r.prev_send_count,
           m.message_num = r.send_count, m.key = r.chain_key_send
    PROVE  LET t == after_encrypt(r, TRUE)
           IN /\ Link(s, t, M \cup {m}, A)
              /\ Tuned(s, r, M) => Tuned(s, t, M \cup {m})
              /\ Pending(s, r, M) => Pending(s, t, M \cup {m})
  <2> USE <1>LinkSends
  <2> DEFINE t == after_encrypt(r, TRUE)
             N == M \cup {m}
  <2>1. /\ t.root_key = r.root_key /\ t.dh_self = r.dh_self
        /\ t.prev_send_count = r.prev_send_count /\ t.send_count = r.send_count + 1
        /\ t.chain_key_send # None /\ t.chain_key_send.root = r.chain_key_send.root
        /\ t.chain_key_send.n = r.chain_key_send.n + 1
    BY Zenon, <1>SendExact
  <2> HIDE DEF t
  <2>2. /\ r.send_count \in Nat /\ r.dh_self \in Nat /\ s.recv_count \in Nat
        /\ s.dh_remote # None => s.dh_remote \in Nat
        /\ r.dh_self # None
        /\ \A n \in M : n.dh_public \in Nat /\ n.message_num \in Nat
    BY RatchetConstants DEF Ratchets, Messages
  <2>3. /\ r.chain_key_send # None /\ m.key.root = r.root_key /\ m.key.n = m.message_num
        /\ r.chain_key_send.n = r.send_count /\ r.chain_key_send.root = r.root_key
    BY DEF Link, Sender, CanEncrypt
  <2>4. \A n \in M : n.dh_public = r.dh_self => n.message_num < r.send_count
    BY DEF Link, Sender
  <2>5. Sender(t, N)
    <3>1. \A n \in N : n.key.n = n.message_num
      BY <2>3 DEF Link, Sender
    <3>2. \A n \in N : n.dh_public = t.dh_self =>
             n.key.root = t.root_key /\ n.message_num < t.send_count /\ n.prev_chain_len = t.prev_send_count
      <4>1. \A n \in M : n.dh_public = r.dh_self =>
               n.key.root = r.root_key /\ n.prev_chain_len = r.prev_send_count
        BY Zenon DEF Link, Sender
      <4> QED BY <2>1, <2>2, <2>3, <2>4, <4>1
    <3>3. \A n \in M : ~ SameNumber(m, n) /\ ~ SameNumber(n, m)
      BY <2>2, <2>4 DEF SameNumber
    <3>4. \A a, b \in N : SameNumber(a, b) => a = b
      BY <3>3 DEF Link, Sender
    <3> QED BY <2>1, <2>3, <3>1, <3>2, <3>4 DEF Sender
  <2>6. /\ s.dh_remote # None /\ m.dh_public <= s.dh_remote => s.chain_key_recv # None
        /\ m.dh_public = s.dh_remote => m.key.root = s.chain_key_recv.root
        /\ ~ Passed(s, m)
    <3>1. CASE Tuned(s, r, M)
      BY <2>2, <2>3, <3>1 DEF Tuned, Passed
    <3>2. CASE Pending(s, r, M)
      BY <2>2, <2>3, <3>2 DEF Pending, Passed
    <3> QED BY <3>1, <3>2
  <2>7. Receiver(s, N)
    BY <2>6 DEF Link, Receiver
  <2>8. Records(s, N, A)
    BY DEF Link, Records
  <2>9. Store(s, t, N)
    <3> SUFFICES ASSUME NEW k \in InStore(s)
                 PROVE  /\ s.dh_remote # None /\ k.dh_public \in Nat /\ k.dh_public <= s.dh_remote
                        /\ k.dh_public = t.dh_self => k.message_num < t.send_count
                        /\ \A n \in N : Fits(k, n) => k.message_key = n.key
      BY DEF Store
    <3>1. /\ s.dh_remote # None /\ k.dh_public \in Nat /\ k.dh_public <= s.dh_remote
          /\ k.dh_public = r.dh_self => k.message_num < r.send_count
          /\ \A n \in M : Fits(k, n) => k.message_key = n.key
      BY DEF Link, Store
    <3>2. k.message_num \in Nat
      <4>1. k \in Stored
        BY StoredKeys, ElementOf DEF InStore
      <4> QED BY <4>1 DEF Stored
    <3>3. ~ Fits(k, m)
      BY <2>2, <3>1, <3>2 DEF Fits
    <3> QED BY <2>1, <2>2, <3>1, <3>2, <3>3
  <2>10. NothingLost(s, N, A)
    BY Zenon, <2>6 DEF Link, NothingLost
  <2>11. ASSUME Tuned(s, r, M) PROVE Tuned(s, t, N)
    BY <2>1, <2>2, <2>3, <2>11 DEF Tuned
  <2>12. ASSUME Pending(s, r, M) PROVE Pending(s, t, N)
    BY <2>1, <2>2, <2>12 DEF Pending
  <2> QED BY Zenon, <2>5, <2>7, <2>8, <2>9, <2>10, <2>11, <2>12 DEF Link, t
<1> SUFFICES ASSUME NEW s \in Ratchets, NEW r \in Ratchets, NEW M \in SUBSET Messages,
                    NEW m \in Messages, NEW N, NEW A, NEW B,
                    InTouch(r, s, N, M, B, A), CanEncrypt(r), NextOf(r, m)
             PROVE  InTouch(after_encrypt(r, TRUE), s, N, M \cup {m}, B, A)
  BY Zenon
<1> DEFINE t == after_encrypt(r, TRUE)
<1>1. Link(s, r, M, A) /\ Link(r, s, N, B) /\ (Tuned(s, r, M) \/ Pending(s, r, M))
  BY Zenon DEF InTouch
<1>2. /\ Link(s, t, M \cup {m}, A)
      /\ Tuned(s, r, M) => Tuned(s, t, M \cup {m})
      /\ Pending(s, r, M) => Pending(s, t, M \cup {m})
  BY Zenon, <1>1, <1>LinkSends DEF NextOf
<1>3. /\ SameReceiving(r, t) /\ t.received_messages = r.received_messages
      /\ t.skipped_keys = r.skipped_keys /\ t.root_key = r.root_key /\ t.dh_self = r.dh_self
  BY Zenon, <1>SendExact
<1> HIDE DEF t
<1>4. /\ Link(t, s, N, B)
      /\ Tuned(r, s, N) => Tuned(t, s, N)
      /\ Pending(r, s, N) => Pending(t, s, N)
  BY Zenon, <1>1, <1>3, <1>SameReceiver
<1>5. InTouch(t, s, N, M \cup {m}, B, A)
  BY Zenon, <1>2, <1>4 DEF InTouch
<1> QED BY Zenon, <1>5 DEF t

(* The numbers in the store, and of the messages, are numbers. *)
LEMMA LinkTypes ==
    ASSUME NEW s \in Ratchets, NEW M \in SUBSET Messages
    PROVE  /\ s.dh_self \in Nat /\ s.send_count \in Nat /\ s.recv_count \in Nat
           /\ s.dh_remote # None => s.dh_remote \in Nat
           /\ s.chain_key_recv # None => s.chain_key_recv.root \in Seq(SUBSET Nat)
           /\ \A k \in InStore(s) : k.message_num \in Nat
           /\ \A n \in M : /\ n.dh_public \in Nat /\ n.message_num \in Nat
                            /\ n.key \in Chains /\ n.dh_public # None
<1>1. \A k \in InStore(s) : k \in Stored
  BY StoredKeys, ElementOf DEF InStore
<1>2. \A k \in InStore(s) : k.message_num \in Nat
  BY <1>1 DEF Stored
<1>3. /\ s.dh_self \in Nat /\ s.send_count \in Nat /\ s.recv_count \in Nat
      /\ s.dh_remote # None => s.dh_remote \in Nat
  BY DEF Ratchets
<1>4. s.chain_key_recv # None => s.chain_key_recv.root \in Seq(SUBSET Nat)
  BY DEF Ratchets, Chains
<1>5. \A n \in M : /\ n.dh_public \in Nat /\ n.message_num \in Nat
                   /\ n.key \in Chains /\ n.dh_public # None
  BY RatchetConstants DEF Messages
<1> QED BY <1>2, <1>3, <1>4, <1>5

(* A message opened by a stored key: one key less in the store, one message less to come. *)
LEMMA LinkOpensStored ==
    ASSUME SearchFinds, NEW s \in Ratchets, NEW r \in Ratchets, NEW M \in SUBSET Messages, NEW A,
           NEW m \in M, Link(s, r, M, A), OpensSkipped(s, m),
           NEW t, t = MarkReceived(try_skipped_keys(s, m), m)
    PROVE  /\ SameSending(s, t) /\ Link(t, r, M, A \cup {m})
           /\ Tuned(s, r, M) => Tuned(t, r, M)
           /\ Pending(s, r, M) => Pending(t, r, M)
<1> DEFINE u == try_skipped_keys(s, m)
           R == u.received_messages \cup {<<m.dh_public, m.message_num>>}
<1>1. /\ u \in Ratchets /\ SameSending(s, u) /\ SameReceiving(s, u)
      /\ u.received_messages = s.received_messages
      /\ InStore(u) \subseteq InStore(s)
      /\ \A k \in InStore(s) : ~ Fits(k, m) => k \in InStore(u)
  BY TryExact
<1>2. t = [u EXCEPT !.received_messages = R]
  BY DEF MarkReceived
<1> HIDE DEF u
<1>3. /\ SameSending(u, t) /\ SameReceiving(u, t)
      /\ t.received_messages = R /\ t.skipped_keys = u.skipped_keys
  <2> HIDE DEF R
  <2> QED BY Zenon, <1>1, <1>2 DEF Ratchets, SameSending, SameReceiving
<1>4. /\ SameSending(s, t) /\ SameReceiving(s, t) /\ InStore(t) = InStore(u)
      /\ t.received_messages = s.received_messages \cup {<<m.dh_public, m.message_num>>}
  BY <1>1, <1>3 DEF SameSending, SameReceiving, InStore
<1> HIDE DEF R
<1>5. /\ t.dh_remote = s.dh_remote /\ t.chain_key_recv = s.chain_key_recv
      /\ t.recv_count = s.recv_count /\ t.root_key = s.root_key /\ t.dh_self = s.dh_self
  BY <1>4 DEF SameSending, SameReceiving
<1>6. \E k \in InStore(s) : Fits(k, m)
  BY StoreOpens DEF Link, Store
<1>7. s.dh_remote # None /\ m.dh_public <= s.dh_remote
  BY <1>6 DEF Link, Store, Fits
<1>8. Receiver(t, M)
  BY <1>5 DEF Link, Receiver
<1>9. Records(t, M, A \cup {m})
  <2>1. A \cup {m} \subseteq M
    BY DEF Link, Records
  <2>2. \A x \in t.received_messages : \E n \in A \cup {m} : x = <<n.dh_public, n.message_num>>
    BY <1>4 DEF Link, Records
  <2>3. \A n \in A \cup {m} : t.dh_remote # None /\ n.dh_public <= t.dh_remote
    BY <1>5, <1>7 DEF Link, Records
  <2>4. \A n \in A \cup {m} : n.dh_public = t.dh_remote => Seen(t, n)
    BY <1>4, <1>5 DEF Link, Records, Seen
  <2> QED BY <2>1, <2>2, <2>3, <2>4 DEF Records
<1>10. Store(t, r, M)
  BY Zenon, <1>1, <1>4, <1>5 DEF Link, Store
<1>11. NothingLost(t, M, A \cup {m})
  <2> SUFFICES ASSUME NEW n \in M \ (A \cup {m}), Passed(t, n)
               PROVE  \E k \in InStore(t) : Fits(k, n)
    BY DEF NothingLost
  <2>1. Passed(s, n)
    BY <1>5 DEF Passed
  <2>2. PICK k \in InStore(s) : Fits(k, n)
    BY <2>1 DEF Link, NothingLost
  <2>3. ~ SameNumber(m, n)
    BY DEF Link, Sender
  <2>4. ~ Fits(k, m)
    BY <2>2, <2>3 DEF Fits, SameNumber
  <2> QED BY <1>1, <1>4, <2>2, <2>4
<1>12. Tuned(s, r, M) => Tuned(t, r, M)
  BY <1>5 DEF Tuned
<1>13. Pending(s, r, M) => Pending(t, r, M)
  BY <1>5 DEF Pending
<1> QED BY Zenon, <1>4, <1>8, <1>9, <1>10, <1>11, <1>12, <1>13 DEF Link

-----------------------------------------------------------------------------
(* A delivery *)

=============================================================================
