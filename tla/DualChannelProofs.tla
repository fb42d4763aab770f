-------------------------- MODULE DualChannelProofs --------------------------
(***************************************************************************)
(* Proofs about the secure channel, for any MAX_SKIP and any number of     *)
(* messages, deliveries and key pairs; the theorems are at the end.        *)
(*                                                                         *)
(* AcceptedOnce: the argument does not use the replay records, only that   *)
(* no method of the ratchet brings a spent key back (RatchetProofs).       *)
(*                                                                         *)
(* RootsInStep: one end is ahead of the other by one step, which no        *)
(* message but its newest makes the other take.                            *)
(*                                                                         *)
(* FirstDeliveryAccepted: no message is lost to the ratchet.  Link relates *)
(* an end s to what the other end r has sent it; InTouch says how the two  *)
(* keep turning about each other; Delivery, their conjunction while        *)
(* nothing but loss, delay and reordering has happened, is inductive       *)
(* relative to Inv and Roots.                                              *)
(*                                                                         *)
(* KeysUsedOnce: no key seals two messages.  KeysInv says that a sending   *)
(* chain names the key pair it was begun with and a key pair its owner,    *)
(* and that what was sent lies behind the chain.                           *)
(***************************************************************************)
EXTENDS DualChannel, RatchetProofs

-----------------------------------------------------------------------------
(* One direction of the channel: what the arrival of a message does to it *)

(* The keys to set aside for m fit in the store, beside those it holds. *)
Room(s, m) ==
    Len(s.skipped_keys) + (IF NewRemote(s, m) THEN RestCount(s, m) + m.message_num
                                              ELSE Beyond(s, m.message_num)) <= MAX_SKIP

(* What the arrival of m makes of the two ends: the receiver moves along the chain it is
   on, or it turns to the sender's new key and draws one of its own. *)
Follows(s, t, r, m, M, A) ==
    /\ SameSending(s, t) /\ Link(t, r, M, A \cup {m})
    /\ Tuned(s, r, M) => Tuned(t, r, M)
    /\ Pending(s, r, M) => Pending(t, r, M)

Turns(s, t, r, m, M, A, fresh) ==
    /\ t \in Ratchets /\ Pending(s, r, M) /\ m.dh_public = r.dh_self /\ s.dh_remote # r.dh_self
    /\ Begun(s, t, m, fresh) /\ Link(t, r, M, A \cup {m}) /\ Tuned(t, r, M)

(* A message not accepted yet has not been recorded as received. *)
LEMMA NotSeen ==
    ASSUME NEW s, NEW r, NEW M, NEW A, NEW m \in M \ A, Link(s, r, M, A)
    PROVE  ~ Seen(s, m)
<1> SUFFICES ASSUME Seen(s, m) PROVE FALSE
  OBVIOUS
<1>1. PICK n \in A : <<m.dh_public, m.message_num>> = <<n.dh_public, n.message_num>>
  BY DEF Seen, Link, Records
<1>2. n \in M /\ SameNumber(m, n)
  BY <1>1 DEF SameNumber, Link, Records
<1> QED BY <1>2 DEF Link, Sender

(* A message that has not been accepted decrypts when it arrives, whatever arrived before
   it, as long as there is room for the keys to set aside. *)
LEMMA LinkDelivers ==
    ASSUME SearchFinds
    PROVE  \A s, r \in Ratchets, M \in SUBSET Messages, fresh \in Nat : \A A : \A m \in M \ A :
             /\ Link(s, r, M, A) /\ (Tuned(s, r, M) \/ Pending(s, r, M))
             /\ (\A k \in InStore(s) : ~ Fits(k, m)) => Room(s, m)
             => /\ decrypts(s, m, fresh)
                /\ \/ Follows(s, after_decrypt(s, m, fresh), r, m, M, A)
                   \/ Turns(s, after_decrypt(s, m, fresh), r, m, M, A, fresh)
(* The key of an entry is the key of every message of the entry's number, when the
   messages of that DH key were sealed on the entry's chain. *)
<1>EntryFits.
    ASSUME NEW d, NEW root, NEW j, NEW n \in Messages, Fits(Entry(d, root, j), n),
           n.key.root = root, n.key.n = n.message_num
    PROVE  Entry(d, root, j).message_key = n.key
  <2> USE <1>EntryFits
  <2>1. n.message_num = j /\ Entry(d, root, j).message_key = [root |-> root, n |-> j]
    BY DEF Fits, Entry
  <2>2. n.key = [root |-> n.key.root, n |-> n.key.n]
    BY DEF Messages, Chains
  <2> QED BY <2>1, <2>2
(* A message that moves the receiving chain forward. *)
<1>LinkOnChain.
    ASSUME NEW s \in Ratchets, NEW r \in Ratchets, NEW M \in SUBSET Messages, NEW A,
           NEW m \in M, Link(s, r, M, A), m.dh_public = s.dh_remote,
           s.recv_count <= m.message_num,
           NEW t, Advanced(s, t, m)
    PROVE  /\ Link(t, r, M, A \cup {m})
           /\ Tuned(s, r, M) => Tuned(t, r, M)
           /\ Pending(s, r, M) => Pending(t, r, M)
  <2> USE <1>LinkOnChain DEF Advanced
  <2>1. /\ s.dh_self \in Nat /\ s.recv_count \in Nat /\ s.dh_remote \in Nat /\ s.dh_remote # None
        /\ \A k \in InStore(s) : k.message_num \in Nat
        /\ \A n \in M : /\ n.dh_public \in Nat /\ n.message_num \in Nat
                         /\ n.key \in Chains /\ n.dh_public # None
        /\ r.send_count \in Nat /\ r.dh_self \in Nat
    BY LinkTypes
  <2>2. m.dh_public = r.dh_self => m.message_num < r.send_count
    BY DEF Link, Sender
  <2>3. Receiver(t, M)
    BY <2>1 DEF Link, Receiver
  <2>4. Records(t, M, A \cup {m})
    <3>1. A \cup {m} \subseteq M
      BY DEF Link, Records
    <3>2. \A x \in t.received_messages : \E n \in A \cup {m} : x = <<n.dh_public, n.message_num>>
      BY DEF Link, Records
    <3>3. \A n \in A \cup {m} : t.dh_remote # None /\ n.dh_public <= t.dh_remote
      BY <2>1 DEF Link, Records
    <3>4. \A n \in A \cup {m} : n.dh_public = t.dh_remote => Seen(t, n)
      BY DEF Link, Records, Seen
    <3> QED BY <3>1, <3>2, <3>3, <3>4 DEF Records
  <2>5. Store(t, r, M)
    <3> SUFFICES ASSUME NEW k \in InStore(t)
                 PROVE  /\ t.dh_remote # None /\ k.dh_public \in Nat /\ k.dh_public <= t.dh_remote
                        /\ k.dh_public = r.dh_self => k.message_num < r.send_count
                        /\ \A n \in M : Fits(k, n) => k.message_key = n.key
      BY DEF Store
    <3>1. CASE k \in InStore(s)
      BY <3>1 DEF Link, Store
    <3>2. CASE k \in Entries(s, m.message_num)
      <4>1. PICK j \in s.recv_count .. m.message_num - 1 : k = Entry(s.dh_remote, s.chain_key_recv.root, j)
        BY <3>2 DEF Entries
      <4>2. k.dh_public = s.dh_remote /\ k.message_num = j
        BY <4>1 DEF Entry
      <4>3. k.dh_public = r.dh_self => k.message_num < r.send_count
        BY <2>1, <2>2, <4>2
      <4>4. ASSUME NEW n \in M, Fits(k, n) PROVE k.message_key = n.key
        <5>1. n.dh_public = s.dh_remote /\ n \in Messages
          BY <4>2, <4>4 DEF Fits
        <5>2. n.key.root = s.chain_key_recv.root /\ n.key.n = n.message_num
          BY <5>1 DEF Link, Sender, Receiver
        <5> QED BY <4>1, <4>4, <5>1, <5>2, <1>EntryFits
      <4> QED BY <2>1, <4>2, <4>3, <4>4
    <3> QED BY <3>1, <3>2
  <2>6. NothingLost(t, M, A \cup {m})
    <3> SUFFICES ASSUME NEW n \in M \ (A \cup {m}), Passed(t, n)
                 PROVE  \E k \in InStore(t) : Fits(k, n)
      BY DEF NothingLost
    <3>1. CASE Passed(s, n)
      BY <3>1 DEF Link, NothingLost
    <3>2. CASE ~ Passed(s, n)
      <4>1. n.dh_public = s.dh_remote /\ n.message_num < m.message_num + 1 /\ s.recv_count <= n.message_num
        BY <2>1, <3>2 DEF Passed
      <4>2. n.message_num # m.message_num
        BY <4>1 DEF Link, Sender, SameNumber
      <4>3. n.message_num \in s.recv_count .. m.message_num - 1
        BY <2>1, <4>1, <4>2
      <4> DEFINE k == Entry(s.dh_remote, s.chain_key_recv.root, n.message_num)
      <4>4. k \in InStore(t)
        BY <4>3 DEF Entries
      <4>5. Fits(k, n)
        BY <4>1 DEF Fits, Entry
      <4> QED BY <4>4, <4>5
    <3> QED BY <3>1, <3>2
  <2>7. ASSUME Tuned(s, r, M) PROVE Tuned(t, r, M)
    BY <2>1, <2>2, <2>7 DEF Tuned
  <2>8. ASSUME Pending(s, r, M) PROVE Pending(t, r, M)
    BY <2>8 DEF Pending, SameSending
  <2> QED BY <2>3, <2>4, <2>5, <2>6, <2>7, <2>8 DEF Link
(* The first message under a new key of the sender: the receiver follows it, and what
   it has not seen of the sender's previous chain is in its store. *)
<1>LinkNewKey.
    ASSUME NEW s \in Ratchets, NEW r \in Ratchets, NEW M \in SUBSET Messages, NEW A,
           NEW m \in M, Link(s, r, M, A), Pending(s, r, M), m.dh_public = r.dh_self,
           NEW fresh, NEW t, Renewed(s, t, m, fresh)
    PROVE  Link(t, r, M, A \cup {m}) /\ Tuned(t, r, M)
  <2> USE <1>LinkNewKey DEF Renewed
  <2>1. /\ s.recv_count \in Nat /\ (s.dh_remote # None => s.dh_remote \in Nat)
        /\ \A n \in M : /\ n.dh_public \in Nat /\ n.message_num \in Nat
                         /\ n.key \in Chains /\ n.dh_public # None
        /\ r.send_count \in Nat /\ r.dh_self \in Nat
    BY LinkTypes
  <2>2. m.message_num < r.send_count /\ m.prev_chain_len = r.prev_send_count
    BY DEF Link, Sender
  <2>3. r.root_key = Append(s.root_key, {s.dh_self, m.dh_public})
    BY DEF Pending
  <2>4. /\ t.dh_remote = r.dh_self /\ t.dh_remote # None /\ t.chain_key_recv # None
        /\ t.chain_key_recv.n = t.recv_count /\ t.chain_key_recv.root = r.root_key
    BY <2>1, <2>3 DEF Begun, Stepped
  <2>5. s.dh_remote # None => s.dh_remote < r.dh_self
    BY DEF Pending
  <2>6. Receiver(t, M)
    BY <2>1, <2>4 DEF Link, Sender, Receiver
  <2>7. \A n \in A : n \in M /\ s.dh_remote # None /\ n.dh_public <= s.dh_remote /\ n.dh_public < r.dh_self
    BY <2>1, <2>5 DEF Link, Records
  <2>8. Records(t, M, A \cup {m})
    <3>1. A \cup {m} \subseteq M
      BY <2>7
    <3>2. \A x \in t.received_messages : \E n \in A \cup {m} : x = <<n.dh_public, n.message_num>>
      BY DEF Link, Records
    <3>3. \A n \in A \cup {m} : t.dh_remote # None /\ n.dh_public <= t.dh_remote
      BY <2>1, <2>4, <2>7
    <3>4. \A n \in A \cup {m} : n.dh_public = t.dh_remote => n = m
      BY <2>1, <2>4, <2>7
    <3>5. Seen(t, m)
      BY DEF Seen
    <3> QED BY <3>1, <3>2, <3>3, <3>4, <3>5 DEF Records
  <2>9. Store(t, r, M)
    <3> SUFFICES ASSUME NEW k \in InStore(t)
                 PROVE  /\ t.dh_remote # None /\ k.dh_public \in Nat /\ k.dh_public <= t.dh_remote
                        /\ k.dh_public = r.dh_self => k.message_num < r.send_count
                        /\ \A n \in M : Fits(k, n) => k.message_key = n.key
      BY DEF Store
    <3>1. CASE k \in InStore(s)
      <4>1. /\ s.dh_remote # None /\ k.dh_public \in Nat /\ k.dh_public <= s.dh_remote
            /\ \A n \in M : Fits(k, n) => k.message_key = n.key
        BY <3>1 DEF Link, Store
      <4> QED BY <2>1, <2>4, <2>5, <4>1
    <3>2. CASE k \in Rest(s, m)
      <4>1. s.chain_key_recv # None /\ k \in Entries(s, m.prev_chain_len)
        BY <3>2 DEF Rest
      <4>2. PICK j \in s.recv_count .. m.prev_chain_len - 1 : k = Entry(s.dh_remote, s.chain_key_recv.root, j)
        BY <4>1 DEF Entries
      <4>3. k.dh_public = s.dh_remote /\ s.dh_remote # None
        BY <4>1, <4>2 DEF Entry, Link, Receiver
      <4>4. ASSUME NEW n \in M, Fits(k, n) PROVE k.message_key = n.key
        <5>1. n.dh_public = s.dh_remote /\ n \in Messages
          BY <4>3, <4>4 DEF Fits
        <5>2. n.key.root = s.chain_key_recv.root /\ n.key.n = n.message_num
          BY <5>1 DEF Link, Sender, Receiver
        <5> QED BY <4>2, <4>4, <5>1, <5>2, <1>EntryFits
      <4> QED BY <2>1, <2>4, <2>5, <4>3, <4>4
    <3>3. CASE k \in NewEntries(m)
      <4>1. PICK j \in 0 .. m.message_num - 1 : k = Entry(m.dh_public, m.key.root, j)
        BY <3>3 DEF NewEntries
      <4>2. k.dh_public = m.dh_public /\ k.message_num = j
        BY ZenonT(40), <4>1 DEF Entry
      <4>3. k.message_num < r.send_count
        BY <2>1, <2>2, <4>2
      <4>4. ASSUME NEW n \in M, Fits(k, n) PROVE k.message_key = n.key
        <5>1. n.dh_public = r.dh_self /\ n \in Messages
          BY <4>2, <4>4 DEF Fits
        <5>2. n.key.root = m.key.root /\ n.key.n = n.message_num
          BY <5>1 DEF Link, Sender
        <5> QED BY <4>1, <4>4, <5>1, <5>2, <1>EntryFits
      <4> QED BY <2>1, <2>4, <4>2, <4>3, <4>4
    <3> QED BY <3>1, <3>2, <3>3
  <2>10. NothingLost(t, M, A \cup {m})
    <3> SUFFICES ASSUME NEW n \in M \ (A \cup {m}), Passed(t, n)
                 PROVE  \E k \in InStore(t) : Fits(k, n)
      BY DEF NothingLost
    <3>1. \/ n.dh_public < r.dh_self
          \/ n.dh_public = r.dh_self /\ n.message_num < m.message_num + 1
      BY <2>4 DEF Passed
    <3>2. CASE n.dh_public = r.dh_self /\ n.message_num < m.message_num + 1
      <4>1. n.message_num # m.message_num
        BY <3>2 DEF Link, Sender, SameNumber
      <4>2. n.message_num \in 0 .. m.message_num - 1
        BY <2>1, <3>2, <4>1
      <4> DEFINE k == Entry(m.dh_public, m.key.root, n.message_num)
      <4>3. k \in InStore(t)
        BY <4>2 DEF NewEntries
      <4>4. Fits(k, n)
        BY <3>2 DEF Fits, Entry
      <4> QED BY <4>3, <4>4
    <3>3. CASE n.dh_public < r.dh_self
      <4>1. s.dh_remote # None /\ n.dh_public <= s.dh_remote
        BY <2>1, <3>3 DEF Pending
      <4>2. CASE Passed(s, n)
        BY <4>2 DEF Link, NothingLost
      <4>3. CASE ~ Passed(s, n)
        <5>1. n.dh_public = s.dh_remote /\ s.recv_count <= n.message_num
          BY <2>1, <4>1, <4>3 DEF Passed
        <5>2. n.message_num < m.prev_chain_len /\ m.prev_chain_len \in Nat
          BY <2>2, <5>1 DEF Pending, Messages
        <5>3. s.chain_key_recv # None
          BY <4>1 DEF Link, Receiver
        <5>4. n.message_num \in s.recv_count .. m.prev_chain_len - 1
          BY <2>1, <5>1, <5>2
        <5> DEFINE k == Entry(s.dh_remote, s.chain_key_recv.root, n.message_num)
        <5>5. k \in InStore(t)
          BY <5>3, <5>4 DEF Rest, Entries
        <5>6. Fits(k, n)
          BY <5>1 DEF Fits, Entry
        <5> QED BY <5>5, <5>6
      <4> QED BY <4>2, <4>3
    <3> QED BY <3>1, <3>2, <3>3
  <2>11. \A n \in M : n.dh_public <= r.dh_self
    BY <2>1, <2>5 DEF Pending
  <2>12. Tuned(t, r, M)
    BY <2>1, <2>2, <2>4, <2>11 DEF Tuned
  <2> QED BY <2>6, <2>8, <2>9, <2>10, <2>12 DEF Link
<1> TAKE s, r \in Ratchets, M \in SUBSET Messages, fresh \in Nat
<1> TAKE A
<1> TAKE m \in M \ A
<1> HAVE /\ Link(s, r, M, A) /\ (Tuned(s, r, M) \/ Pending(s, r, M))
         /\ (\A k \in InStore(s) : ~ Fits(k, m)) => Room(s, m)
<1> DEFINE t == after_decrypt(s, m, fresh)
<1>1. ~ Seen(s, m)
  BY NotSeen
<1>2. /\ s.recv_count \in Nat /\ (s.dh_remote # None => s.dh_remote \in Nat)
      /\ m.dh_public \in Nat /\ m.message_num \in Nat /\ m.dh_public # None
      /\ m \in Messages /\ m \in M /\ r.dh_self \in Nat /\ MAX_SKIP \in Nat
  BY LinkTypes, RatchetConstants
<1>3. CASE \E k \in InStore(s) : Fits(k, m)
  <2>1. OpensSkipped(s, m)
    BY <1>3, StoreOpens DEF Link, Store
  <2>2. decrypts(s, m, fresh)
    BY <1>1, <2>1 DEF decrypts
  <2>3. t = MarkReceived(try_skipped_keys(s, m), m)
    BY <1>1, <2>1 DEF after_decrypt
  <2> HIDE DEF t
  <2>4. Follows(s, t, r, m, M, A)
    BY <1>2, <2>1, <2>3, LinkOpensStored DEF Follows
  <2> QED BY <2>2, <2>4 DEF t
<1>4. CASE \A k \in InStore(s) : ~ Fits(k, m)
  <2>1. ~ Passed(s, m)
    BY <1>4 DEF Link, NothingLost
  <2>2. Room(s, m) /\ (s.chain_key_recv # None => s.chain_key_recv.n = s.recv_count)
    BY <1>4 DEF Link, Receiver
  <2>3. m.key.n = m.message_num
    BY <1>2 DEF Link, Sender
  <2>4. CASE ~ NewRemote(s, m)
    <3>1. s.dh_remote # None /\ m.dh_public = s.dh_remote
      BY <2>4 DEF NewRemote
    <3>2. s.recv_count <= m.message_num
      BY <1>2, <2>1, <3>1 DEF Passed
    <3>3. s.chain_key_recv # None /\ m.key.root = s.chain_key_recv.root
      BY <1>2, <3>1 DEF Link, Receiver
    <3>4. Len(s.skipped_keys) + Beyond(s, m.message_num) <= MAX_SKIP
      BY <2>2, <2>4 DEF Room
    <3>5. DueOnChain(s, m)
      BY Zenon, <1>1, <1>4, <2>2, <2>3, <2>4, <3>2, <3>3, <3>4 DEF DueOnChain
    <3>6. decrypts(s, m, fresh) /\ Advanced(s, t, m)
      BY Zenon, <1>2, <3>5, Arrivals
    <3> HIDE DEF t
    <3>7. SameSending(s, t)
      BY Zenon, <3>6 DEF Advanced
    <3>8. Follows(s, t, r, m, M, A)
      BY Zenon, <1>2, <3>1, <3>2, <3>6, <3>7, <1>LinkOnChain DEF Follows
    <3> QED BY Zenon, <3>6, <3>8 DEF t
  <2>5. CASE NewRemote(s, m)
    <3>1. s.dh_remote # None => ~ (m.dh_public <= s.dh_remote)
      BY <1>2, <2>1, <2>5 DEF Passed, NewRemote
    <3>2. ~ Tuned(s, r, M)
      <4> SUFFICES ASSUME Tuned(s, r, M) PROVE FALSE
        OBVIOUS
      <4>1. s.dh_remote # None /\ m.dh_public <= s.dh_remote
        BY <1>2, RatchetConstants DEF Tuned
      <4> QED BY <3>1, <4>1
    <3>3. Pending(s, r, M) /\ m.dh_public = r.dh_self
      BY <1>2, <3>1, <3>2 DEF Pending
    <3>4. m.key.root = Append(s.root_key, {s.dh_self, m.dh_public})
      BY Zenon, <1>2, <3>3 DEF Link, Sender, Pending
    <3>5. Len(s.skipped_keys) + RestCount(s, m) + m.message_num <= MAX_SKIP
      <4>1. Len(s.skipped_keys) \in Nat /\ RestCount(s, m) \in Nat
        BY SMTT(60), <1>2, LenIs DEF Ratchets, RestCount, Beyond, Messages
      <4>2. Len(s.skipped_keys) + (RestCount(s, m) + m.message_num) <= MAX_SKIP
        BY <2>2, <2>5 DEF Room
      <4> QED BY <1>2, <4>1, <4>2
    <3>6. DueOnNew(s, m)
      BY Zenon, <1>1, <1>4, <2>2, <2>3, <2>5, <3>4, <3>5 DEF DueOnNew
    <3>7. decrypts(s, m, fresh) /\ Renewed(s, t, m, fresh)
      BY Zenon, <1>2, <3>6, Arrivals
    <3> HIDE DEF t
    <3>8. Link(t, r, M, A \cup {m}) /\ Tuned(t, r, M)
      BY Zenon, <1>2, <3>3, <3>7, <1>LinkNewKey
    <3>9. s.dh_remote # r.dh_self
      BY <1>2, <3>1, <3>3
    <3>10. t \in Ratchets /\ Begun(s, t, m, fresh)
      BY Zenon, <3>7 DEF Renewed
    <3>11. Turns(s, t, r, m, M, A, fresh)
      BY Zenon, <3>3, <3>8, <3>9, <3>10 DEF Turns
    <3> QED BY Zenon, <3>7, <3>11 DEF t
  <2> QED BY <2>4, <2>5
<1> QED BY <1>3, <1>4

(* The two ends in touch, seen from either. *)
LEMMA InTouchEither ==
    ASSUME NEW s, NEW r, NEW M, NEW N, NEW A, NEW B, InTouch(s, r, M, N, A, B)
    PROVE  InTouch(r, s, N, M, B, A)
BY Zenon DEF InTouch

(* The ends stay in touch when a message is accepted, on the chain the receiver is on
   or on a new one. *)
LEMMA InTouchAccepts ==
    ASSUME NEW s \in Ratchets, NEW r \in Ratchets, NEW M \in SUBSET Messages,
           NEW N \in SUBSET Messages, NEW fresh \in Nat, NEW A, NEW B, NEW m, NEW t,
           InTouch(s, r, M, N, A, B), s.dh_self < fresh,
           Follows(s, t, r, m, M, A) \/ Turns(s, t, r, m, M, A, fresh)
    PROVE  InTouch(t, r, M, N, A \cup {m}, B)
<1>1. Link(r, s, N, B)
  BY Zenon DEF InTouch
(* What receiving does to an end leaves it the sender it was. *)
<1>2. CASE Follows(s, t, r, m, M, A)
  <2>1. /\ t.dh_self = s.dh_self /\ t.root_key = s.root_key /\ t.chain_key_send = s.chain_key_send
        /\ t.send_count = s.send_count /\ t.prev_send_count = s.prev_send_count
    BY Zenon, <1>2 DEF Follows, SameSending
  <2>2. Link(r, t, N, B)
    BY <1>1, <2>1 DEF Link, Sender, Store
  <2>3. Tuned(r, s, N) => Tuned(r, t, N)
    BY <2>1 DEF Tuned
  <2>4. Pending(r, s, N) => Pending(r, t, N)
    BY <2>1 DEF Pending
  <2> QED BY Zenon, <1>2, <2>2, <2>3, <2>4 DEF Follows, InTouch
(* Seen from the other end: the receiver answers under a key no message bears yet, and
   what it sent before is all of its previous chain. *)
<1>3. CASE Turns(s, t, r, m, M, A, fresh)
  <2>1. ~ Tuned(s, r, M)
    BY Zenon, <1>3 DEF Turns, Tuned
  <2>2. Tuned(r, s, N)
    BY Zenon, <2>1 DEF InTouch
  <2>3. /\ t \in Ratchets /\ m.dh_public = r.dh_self /\ Begun(s, t, m, fresh)
        /\ r.root_key = Append(s.root_key, {s.dh_self, r.dh_self})
    BY Zenon, <1>3 DEF Turns, Pending
  <2>4. /\ s.dh_self \in Nat /\ r.dh_remote = s.dh_self /\ r.dh_remote # None
        /\ \A n \in N : n.dh_public \in Nat
    BY <2>2, LinkTypes, RatchetConstants DEF Tuned
  <2>5. \A n \in N : n.dh_public # fresh
    BY <2>2, <2>4 DEF Tuned
  <2>6. \A k \in InStore(r) : k.dh_public # fresh
    BY <1>1, <2>4 DEF Link, Store
  <2>7. /\ t.dh_self = fresh /\ t.chain_key_send # None /\ t.chain_key_send.root = t.root_key
        /\ t.chain_key_send.n = t.send_count /\ t.prev_send_count = s.send_count
    BY <2>3 DEF Begun, Stepped
  <2>8. t.root_key = Append(r.root_key, {r.dh_self, fresh})
    <3>1. t.root_key = Append(r.root_key, {fresh, r.dh_self})
      BY <2>3 DEF Begun, Stepped
    <3>2. {fresh, r.dh_self} = {r.dh_self, fresh}
      OBVIOUS
    <3> QED BY <3>1, <3>2
  <2>9. Sender(t, N)
    BY <1>1, <2>5, <2>7 DEF Link, Sender
  <2>10. Store(r, t, N)
    BY <1>1, <2>6, <2>7 DEF Link, Store
  <2>11. Pending(r, t, N)
    <3>1. \A n \in N : n.dh_public = r.dh_remote => n.message_num < t.prev_send_count
      BY <1>1, <2>4, <2>7 DEF Link, Sender
    <3> QED BY <2>2, <2>4, <2>7, <2>8, <3>1 DEF Pending, Tuned
  <2>12. Link(r, t, N, B)
    BY Zenon, <1>1, <2>9, <2>10 DEF Link
  <2> QED BY Zenon, <1>3, <2>11, <2>12 DEF Turns, InTouch
<1> QED BY Zenon, <1>2, <1>3

-----------------------------------------------------------------------------
(* The two ends *)

Streams ==
    LET K == [key : (((Seq(SUBSET Nat) \X (Chains \cup {None})) \cup {None}) \X Nat),
              generation : Nat]
    IN [current_key : K \cup {None}, previous_key : K \cup {None}]

UpTo(d, gen) == \A k \in StreamKeys(d) : k.generation <= gen

Types ==
    /\ control = [e \in Ends |-> control[e]] /\ data = [e \in Ends |-> data[e]]
    /\ accepted = [e \in Ends |-> accepted[e]]
    /\ keys \in 2 .. MaxKeys /\ deliveries \in 0 .. MaxDeliveries
    /\ network \subseteq Messages

Ratcheting == \A e \in Ends : Good(control[e])

Streaming ==
    \A e \in Ends : data[e] \in Streams /\ UpTo(data[e], control[e].session_key_generation)

Accepting ==
    \A e \in Ends : \A m \in accepted[e] : m \in network /\ Spent(m.key, control[e])

Inv == Types /\ Ratcheting /\ Streaming /\ Accepting /\ AcceptedOnce

(* Peer names the other end. *)
LEMMA PeerIs ==
    \A e \in Ends : /\ Peer(e) \in Ends /\ Peer(e) # e /\ Peer(Peer(e)) = e
                    /\ \A x \in Ends : x = e \/ x = Peer(e)
<1>1. \A e \in Ends : \E p \in Ends : p # e
  BY DEF Ends
<1>2. \A e \in Ends : Peer(e) \in Ends /\ Peer(e) # e
  BY <1>1 DEF Peer
<1> QED BY <1>2 DEF Ends

(* The cipher follows the ratchet and is never ahead of it. *)
LEMMA SyncFollows ==
    ASSUME NEW d \in Streams, NEW s \in Ratchets, NEW gen \in Nat, UpTo(d, gen),
           gen <= s.session_key_generation
    PROVE  LET r == sync_data_channel_key(d, s)
           IN r \in Streams /\ UpTo(r, s.session_key_generation)
<1> DEFINE g == s.session_key_generation
           k == StreamKey(s.session_master_key, g)
           r == sync_data_channel_key(d, s)
<1>1. /\ g \in Nat
      /\ s.session_master_key \in (Seq(SUBSET Nat) \X (Chains \cup {None})) \cup {None}
  BY DEF Ratchets
<1>2. UpTo(d, g)
  BY <1>1 DEF UpTo, StreamKeys, Streams
<1>3. r = d \/ r = [current_key |-> k, previous_key |-> None]
            \/ r = [current_key |-> k, previous_key |-> d.current_key]
  BY DEF sync_data_channel_key, init_stream, update_key
<1>4. k.generation = g /\ \A p \in {None, d.current_key} :
          [current_key |-> k, previous_key |-> p] \in Streams
  BY <1>1 DEF Streams, StreamKey
<1> HIDE DEF k, r, g
<1>5. g <= g
  BY <1>1
<1> QED BY <1>2, <1>3, <1>4, <1>5 DEF UpTo, StreamKeys, r, g

(* What a step of one end leaves true, whichever method it is. *)
LEMMA EndMoves ==
    ASSUME Inv, NEW e \in Ends, NEW t, Good(t), Keeps(control[e], t),
           control' = [control EXCEPT ![e] = t],
           data' = data \/ data' = [data EXCEPT ![e] = sync_data_channel_key(data[e], t)]
    PROVE  /\ Ratcheting' /\ Streaming'
           /\ control' = [x \in Ends |-> control'[x]] /\ data' = [x \in Ends |-> data'[x]]
           /\ control'[e] = t /\ \A x \in Ends : x # e => control'[x] = control[x]
           /\ \A x \in Ends : \A k \in Chains : Spent(k, control[x]) => Spent(k, control'[x])
<1>1. /\ control = [x \in Ends |-> control[x]] /\ data = [x \in Ends |-> data[x]]
      /\ \A x \in Ends : Good(control[x])
      /\ \A x \in Ends : data[x] \in Streams /\ UpTo(data[x], control[x].session_key_generation)
  BY DEF Inv, Types, Ratcheting, Streaming
<1>2. /\ control' = [x \in Ends |-> control'[x]] /\ control'[e] = t
      /\ \A x \in Ends : x # e => control'[x] = control[x]
  BY <1>1
<1>3. Ratcheting'
  BY Zenon, <1>1, <1>2 DEF Ratcheting
<1>4. /\ \A x \in Ends : \A k \in Chains : Spent(k, control[x]) => Spent(k, control'[x])
      /\ control[e].session_key_generation <= t.session_key_generation
  BY <1>2 DEF Keeps
<1>5. t \in Ratchets /\ control[e].session_key_generation \in Nat /\ t.session_key_generation \in Nat
  BY <1>1 DEF Good, Ratchets
<1>6. data' = [x \in Ends |-> data'[x]]
  BY <1>1
<1>7. \A x \in Ends : x # e => data'[x] = data[x]
  BY <1>1
<1>8. data'[e] \in Streams /\ UpTo(data'[e], t.session_key_generation)
  <2>1. CASE data' = data
    <3>1. data'[e] = data[e]
      BY <2>1
    <3>2. UpTo(data[e], t.session_key_generation)
      BY <1>1, <1>4, <1>5 DEF UpTo, StreamKeys, Streams
    <3> QED BY <1>1, <3>1, <3>2
  <2>2. CASE data' = [data EXCEPT ![e] = sync_data_channel_key(data[e], t)]
    <3>1. data'[e] = sync_data_channel_key(data[e], t)
      BY <1>1, <2>2
    <3> QED BY <1>1, <1>4, <1>5, <3>1, SyncFollows
  <2> QED BY <2>1, <2>2
<1>9. Streaming'
  BY Zenon, <1>1, <1>2, <1>7, <1>8 DEF Streaming
<1> QED BY <1>2, <1>3, <1>4, <1>6, <1>9

(* An end that accepts nothing keeps what was accepted. *)
LEMMA NothingAccepted ==
    ASSUME Inv, accepted' = accepted, replayed' = replayed, network \subseteq network',
           \A x \in Ends : \A k \in Chains : Spent(k, control[x]) => Spent(k, control'[x])
    PROVE  Accepting' /\ AcceptedOnce' /\ accepted' = [x \in Ends |-> accepted'[x]]
<1>1. \A x \in Ends : \A m \in accepted[x] : m.key \in Chains
  BY DEF Inv, Types, Accepting, Messages
<1>2. Accepting'
  BY <1>1 DEF Inv, Accepting
<1>3. AcceptedOnce' /\ accepted' = [x \in Ends |-> accepted'[x]]
  BY DEF Inv, AcceptedOnce, Types
<1> QED BY <1>2, <1>3

(* A fresh channel satisfies the invariant: nothing was sent, nothing is spent. *)
LEMMA InitInv == Init => Inv
<1> SUFFICES ASSUME Init PROVE Inv
  OBVIOUS
<1> DEFINE z == Cleared(2, 1)
           a == init_alice(2, 1)
           b == init_bob(1)
           none == [current_key |-> None, previous_key |-> None]
<1>1. \A self, remote \in Nat \cup {None} : self \in Nat =>
         LET s == Cleared(self, remote)
         IN /\ s \in Ratchets /\ s.skipped_keys = << >> /\ s.chain_key_recv = None
            /\ s.root_key = << >> /\ s.session_key_generation = 0
            /\ s.dh_self = self /\ s.dh_remote = remote
  BY DEF Cleared, Ratchets
<1>2. ASSUME NEW s \in Ratchets, s.skipped_keys = << >>, s.chain_key_recv = None PROVE Good(s)
  BY <1>2, RatchetConstants DEF Good, Distinct
<1>3. Good(b)
  BY ZenonT(40), <1>1, <1>2 DEF init_bob
<1>4. Good(a)
  <2>1. z \in Ratchets /\ z.skipped_keys = << >> /\ z.chain_key_recv = None
    BY <1>1
  <2>2. a = NewSendingChain(z, 2, 1)
    BY DEF init_alice
  <2> HIDE DEF z, a
  <2>3. a \in Ratchets /\ a.skipped_keys = << >> /\ a.chain_key_recv = None
    BY <2>1, <2>2, NewSendingChainIs
  <2> QED BY <1>2, <2>3
<1> HIDE DEF a, b, z
<1>5. control = [e \in Ends |-> IF e = "initiator" THEN a ELSE b]
  BY DEF Init, a, b
<1>6. data = [e \in Ends |-> IF e = "initiator" THEN sync_data_channel_key(none, a) ELSE none]
  BY DEF Init, a, NoStream
<1>7. Ratcheting
  BY <1>3, <1>4, <1>5 DEF Ratcheting
<1>8. none \in Streams /\ \A gen : UpTo(none, gen)
  BY DEF Streams, UpTo, StreamKeys
<1>9. a \in Ratchets /\ a.session_key_generation \in Nat /\ b \in Ratchets
  BY <1>3, <1>4 DEF Good, Ratchets
<1> HIDE DEF none
<1>10. /\ sync_data_channel_key(none, a) \in Streams
       /\ UpTo(sync_data_channel_key(none, a), a.session_key_generation)
  BY <1>8, <1>9, SyncFollows
<1>11. Streaming
  BY <1>5, <1>6, <1>8, <1>10 DEF Streaming
<1>12. /\ control = [e \in Ends |-> control[e]] /\ data = [e \in Ends |-> data[e]]
       /\ accepted = [e \in Ends |-> accepted[e]]
  BY <1>5, <1>6 DEF Init
<1>13. keys \in 2 .. MaxKeys /\ deliveries \in 0 .. MaxDeliveries /\ network = {}
  BY ChannelBounds DEF Init
<1>14. Accepting /\ AcceptedOnce
  BY DEF Init, Accepting, AcceptedOnce
<1> QED BY <1>7, <1>11, <1>12, <1>13, <1>14 DEF Inv, Types

(* encrypt_control keeps it: the receiving chain and the skipped keys are untouched. *)
LEMMA EncryptControlInv ==
    ASSUME Inv, NEW e \in Ends, EncryptControl(e)
    PROVE  Inv'
<1> DEFINE s == control[e]
           t == after_encrypt(s, TRUE)
           m == encrypted(s, Peer(e))
<1>1. Good(s) /\ CanEncrypt(s)
  BY DEF Inv, Ratcheting, EncryptControl
<1>2. Good(t) /\ Keeps(s, t)
  BY Zenon, <1>1, EncryptKeeps
<1>3. /\ control' = [control EXCEPT ![e] = t]
      /\ data' = [data EXCEPT ![e] = sync_data_channel_key(data[e], t)]
      /\ network' = network \cup {m}
      /\ accepted' = accepted /\ replayed' = replayed /\ keys' = keys /\ deliveries' = deliveries
  BY DEF EncryptControl, Becomes
<1>4. m \in Messages
  <2>1. s \in Ratchets /\ s.chain_key_send # None /\ Peer(e) \in Ends
    BY <1>1, PeerIs DEF Good, CanEncrypt
  <2> HIDE DEF s
  <2> QED BY <2>1 DEF encrypted, Messages, Ratchets, Ends
<1> HIDE DEF t, m
<1>5. /\ Ratcheting' /\ Streaming'
      /\ control' = [x \in Ends |-> control'[x]] /\ data' = [x \in Ends |-> data'[x]]
      /\ \A x \in Ends : \A k \in Chains : Spent(k, control[x]) => Spent(k, control'[x])
  BY Zenon, <1>2, <1>3, EndMoves
<1>6. Accepting' /\ AcceptedOnce' /\ accepted' = [x \in Ends |-> accepted'[x]]
  BY <1>3, <1>5, NothingAccepted
<1>7. keys' \in 2 .. MaxKeys /\ deliveries' \in 0 .. MaxDeliveries /\ network' \subseteq Messages
  BY <1>3, <1>4 DEF Inv, Types
<1> QED BY <1>5, <1>6, <1>7 DEF Inv, Types

(* A sealing that fails keeps it: the chain moves, nothing is sent. *)
LEMMA EncryptFailsInv ==
    ASSUME Inv, NEW e \in Ends, EncryptFails(e)
    PROVE  Inv'
<1> DEFINE s == control[e]
           t == after_encrypt(s, FALSE)
<1>1. Good(s) /\ CanEncrypt(s)
  BY DEF Inv, Ratcheting, EncryptFails
<1>2. Good(t) /\ Keeps(s, t)
  BY Zenon, <1>1, EncryptKeeps
<1>3. /\ control' = [control EXCEPT ![e] = t] /\ data' = data /\ network' = network
      /\ accepted' = accepted /\ replayed' = replayed /\ keys' = keys /\ deliveries' = deliveries
  BY DEF EncryptFails
<1> HIDE DEF t
<1>5. /\ Ratcheting' /\ Streaming'
      /\ control' = [x \in Ends |-> control'[x]] /\ data' = [x \in Ends |-> data'[x]]
      /\ \A x \in Ends : \A k \in Chains : Spent(k, control[x]) => Spent(k, control'[x])
  BY Zenon, <1>2, <1>3, EndMoves
<1>6. Accepting' /\ AcceptedOnce' /\ accepted' = [x \in Ends |-> accepted'[x]]
  BY <1>3, <1>5, NothingAccepted
<1> QED BY <1>3, <1>5, <1>6 DEF Inv, Types

(* A forced ratchet step keeps it: the receiving side is untouched. *)
LEMMA ForcedInv ==
    ASSUME Inv, NEW e \in Ends, RotateKeys(e) \/ RotateAndEncryptData(e)
    PROVE  Inv'
<1> DEFINE s == control[e]
           t == force_ratchet_step(s, keys + 1)
<1>1. Good(s) /\ CanForce(s) /\ keys \in Nat /\ keys + 1 \in Nat /\ keys + 1 \in 2 .. MaxKeys
  BY ChannelBounds DEF Inv, Types, Ratcheting, RotateKeys, RotateAndEncryptData
<1>2. Good(t) /\ Keeps(s, t)
  BY <1>1, ForceKeeps
<1>3. /\ control' = [control EXCEPT ![e] = t]
      /\ data' = [data EXCEPT ![e] = sync_data_channel_key(data[e], t)]
      /\ network' = network
      /\ accepted' = accepted /\ replayed' = replayed /\ keys' = keys + 1 /\ deliveries' = deliveries
  BY DEF RotateKeys, RotateAndEncryptData, Becomes
<1> HIDE DEF t
<1>5. /\ Ratcheting' /\ Streaming'
      /\ control' = [x \in Ends |-> control'[x]] /\ data' = [x \in Ends |-> data'[x]]
      /\ \A x \in Ends : \A k \in Chains : Spent(k, control[x]) => Spent(k, control'[x])
  BY Zenon, <1>2, <1>3, EndMoves
<1>6. Accepting' /\ AcceptedOnce' /\ accepted' = [x \in Ends |-> accepted'[x]]
  BY <1>3, <1>5, NothingAccepted
<1> QED BY <1>1, <1>3, <1>5, <1>6 DEF Inv, Types

(* decrypt_control keeps it: the key that opens a message is spent from then on. *)
LEMMA DecryptControlInv ==
    ASSUME SearchFinds, Inv, NEW e \in Ends, NEW m \in network, DecryptControl(e, m)
    PROVE  Inv'
<1> DEFINE s == control[e]
           t == after_decrypt(s, m, keys + 1)
           opens == decrypts(s, m, keys + 1)
<1>1. Good(s) /\ m \in Messages /\ keys \in Nat /\ keys + 1 \in Nat /\ m.key \in Chains
  BY DEF Inv, Types, Ratcheting, Messages
<1>2. Good(t) /\ Keeps(s, t) /\ (opens => ~ Spent(m.key, s) /\ Spent(m.key, t))
  BY <1>1, DecryptKeeps
<1>3. /\ control' = [control EXCEPT ![e] = t] /\ network' = network
      /\ data' = data \/ data' = [data EXCEPT ![e] = sync_data_channel_key(data[e], t)]
  BY DEF DecryptControl
<1>4. keys' \in 2 .. MaxKeys /\ deliveries' \in 0 .. MaxDeliveries
  BY ChannelBounds DEF DecryptControl, Inv, Types
<1>5. /\ opens => /\ accepted' = [accepted EXCEPT ![e] = @ \cup {m}]
                  /\ replayed' = replayed \cup (accepted[e] \cap {m})
      /\ ~ opens => accepted' = accepted /\ replayed' = replayed
  BY DEF DecryptControl
<1> HIDE DEF t, opens
<1>6. /\ Ratcheting' /\ Streaming'
      /\ control' = [x \in Ends |-> control'[x]] /\ data' = [x \in Ends |-> data'[x]]
      /\ control'[e] = t
      /\ \A x \in Ends : \A k \in Chains : Spent(k, control[x]) => Spent(k, control'[x])
  BY Zenon, <1>2, <1>3, EndMoves
<1>7. Accepting' /\ AcceptedOnce' /\ accepted' = [x \in Ends |-> accepted'[x]]
  <2>1. CASE ~ opens
    BY <1>3, <1>5, <1>6, <2>1, NothingAccepted
  <2>2. CASE opens
    <3>1. accepted = [x \in Ends |-> accepted[x]]
      BY DEF Inv, Types
    <3>2. /\ accepted' = [x \in Ends |-> accepted'[x]]
          /\ accepted'[e] = accepted[e] \cup {m}
          /\ \A x \in Ends : x # e => accepted'[x] = accepted[x]
      BY <1>5, <2>2, <3>1
    <3>3. m \notin accepted[e]
      BY <1>2, <2>2 DEF Inv, Accepting
    <3>4. AcceptedOnce'
      BY <1>5, <2>2, <3>3 DEF Inv, AcceptedOnce
    <3>5. ASSUME NEW x \in Ends, NEW n \in accepted'[x]
          PROVE  n \in network' /\ Spent(n.key, control'[x])
      <4>1. CASE n \in accepted[x]
        <5>1. n \in network /\ n.key \in Chains /\ Spent(n.key, control[x])
          BY <4>1 DEF Inv, Accepting, Types, Messages
        <5> QED BY <1>3, <1>6, <5>1
      <4>2. CASE n \notin accepted[x]
        <5>1. x = e /\ n = m
          BY <3>2, <3>5, <4>2
        <5> QED BY <1>2, <1>3, <1>6, <2>2, <5>1
      <4> QED BY <4>1, <4>2
    <3> QED BY <3>2, <3>4, <3>5 DEF Accepting
  <2> QED BY <2>1, <2>2
<1> QED BY <1>3, <1>4, <1>6, <1>7 DEF Inv, Types

(* Encrypting data, and standing still, change nothing the invariant speaks of. *)
LEMMA OtherInv ==
    ASSUME Inv, UNCHANGED <<control, data, network, accepted, replayed, keys, deliveries>>
    PROVE  Inv'
BY DEF Inv, Types, Ratcheting, Streaming, Accepting, AcceptedOnce

(* Every step of the channel keeps it. *)
LEMMA NextInv == ASSUME SearchFinds PROVE Inv /\ [Next]_vars => Inv'
<1> SUFFICES ASSUME Inv, [Next]_vars PROVE Inv'
  OBVIOUS
<1>1. CASE UNCHANGED vars
  BY <1>1, OtherInv DEF vars
<1>2. ASSUME NEW e \in Ends, EncryptData(e) PROVE Inv'
  BY <1>2, OtherInv DEF EncryptData
<1> QED BY <1>1, <1>2, EncryptControlInv, EncryptFailsInv, DecryptControlInv, ForcedInv DEF Next

-----------------------------------------------------------------------------
(* The roots.  Unless a step was forced or an old message repeated, one end p is ahead:
   its root is its peer's and one step more, which the peer will take with the next
   message under p's present key; no other message makes either end step. *)

Quiet == disturbances \cap {"forced", "stale"} = {}

AheadOf(s, r) ==
    /\ s.root_key = Append(r.root_key, {r.dh_self, s.dh_self})
    /\ s.dh_remote = r.dh_self
    /\ r.dh_remote # None => r.dh_remote <= s.dh_self

Ahead(p) ==
    /\ AheadOf(control[p], control[Peer(p)])
    /\ \A m \in network : m.to = p => m.dh_public <= control[p].dh_remote
    /\ \A m \in network : m.to = Peer(p) =>
          \/ m.dh_public = control[p].dh_self
          \/ control[Peer(p)].dh_remote # None /\ m.dh_public <= control[Peer(p)].dh_remote

Drawn == \A e \in Ends : control[e].dh_self <= keys

Roots == Drawn /\ (Quiet => \E p \in Ends : Ahead(p))

(* The initiator begins one root ahead of the responder. *)
LEMMA InitRoots == Init => Roots
<1> SUFFICES ASSUME Init PROVE Roots
  OBVIOUS
<1> DEFINE z == Cleared(2, 1)
           a == init_alice(2, 1)
           b == init_bob(1)
<1>1. z \in Ratchets /\ z.root_key = << >> /\ z.dh_remote = 1
  BY DEF Cleared, Ratchets
<1>2. a = NewSendingChain(z, 2, 1)
  BY DEF init_alice
<1>3. b.root_key = << >> /\ b.dh_self = 1 /\ b.dh_remote = None
  BY DEF init_bob, Cleared
<1>4. control = [e \in Ends |-> IF e = "initiator" THEN a ELSE b] /\ network = {} /\ keys = 2
  BY DEF Init
<1> HIDE DEF z, a, b
<1>5. a.root_key = Append(<< >>, {2, 1}) /\ a.dh_self = 2 /\ a.dh_remote = 1
  BY <1>1, <1>2, NewSendingChainIs
<1>6. Peer("initiator") = "responder" /\ "initiator" \in Ends /\ "responder" \in Ends
  BY PeerIs DEF Ends
<1>7. control["initiator"] = a /\ control["responder"] = b
  BY <1>4, <1>6
<1>8. {1, 2} = {2, 1}
  OBVIOUS
<1>9. AheadOf(a, b)
  BY <1>3, <1>5, <1>8 DEF AheadOf
<1>10. Ahead("initiator")
  BY <1>4, <1>6, <1>7, <1>9 DEF Ahead
<1>11. Drawn
  BY <1>3, <1>4, <1>5 DEF Drawn
<1> QED BY <1>6, <1>10, <1>11 DEF Roots

(* A step that leaves the roots alone and sends nothing, or a message under the
   sender's present key. *)
LEMMA SameRoots ==
    ASSUME Inv, Roots, keys' >= keys, keys' \in Nat,
           disturbances \subseteq disturbances',
           \A x \in Ends : SameRoot(control[x], control'[x]),
           \A m \in network' : m \in network \/
              \E e \in Ends : m.to = Peer(e) /\ m.dh_public = control[e].dh_self
    PROVE  Roots'
<1>1. \A x \in Ends : control[x] \in Ratchets /\ control[x].dh_self \in Nat
  BY DEF Inv, Ratcheting, Good, Ratchets
<1>2. Drawn'
  BY <1>1 DEF Roots, Drawn, SameRoot, Inv, Types
<1>3. ASSUME Quiet' PROVE (\E p \in Ends : Ahead(p))'
  <2>1. PICK p \in Ends : Ahead(p)
    BY <1>3 DEF Roots, Quiet
  <2>2. /\ Peer(p) \in Ends /\ Peer(p) # p /\ Peer(Peer(p)) = p
        /\ \A x \in Ends : x = p \/ x = Peer(p)
    BY PeerIs
  <2>3. SameRoot(control[p], control'[p]) /\ SameRoot(control[Peer(p)], control'[Peer(p)])
    BY <2>2
  <2>4. AheadOf(control'[p], control'[Peer(p)])
    BY Zenon, <2>1, <2>3 DEF Ahead, AheadOf, SameRoot
  <2>5. ASSUME NEW m \in network', m.to = p PROVE m.dh_public <= control'[p].dh_remote
    <3>1. CASE m \in network
      BY <2>1, <2>3, <2>5, <3>1 DEF Ahead, SameRoot
    <3>2. CASE m \notin network
      <4>1. PICK e \in Ends : m.to = Peer(e) /\ m.dh_public = control[e].dh_self
        BY <3>2
      <4>2. e = Peer(p)
        BY <2>2, <2>5, <4>1
      <4>3. m.dh_public = control'[p].dh_remote /\ m.dh_public \in Nat
        BY Zenon, <1>1, <2>1, <2>2, <2>3, <4>1, <4>2 DEF Ahead, AheadOf, SameRoot
      <4> QED BY <4>3
    <3> QED BY <3>1, <3>2
  <2>6. ASSUME NEW m \in network', m.to = Peer(p)
        PROVE  \/ m.dh_public = control'[p].dh_self
               \/ control'[Peer(p)].dh_remote # None /\ m.dh_public <= control'[Peer(p)].dh_remote
    <3>1. CASE m \in network
      BY <2>1, <2>3, <2>6, <3>1 DEF Ahead, SameRoot
    <3>2. CASE m \notin network
      <4>1. PICK e \in Ends : m.to = Peer(e) /\ m.dh_public = control[e].dh_self
        BY <3>2
      <4>2. e = p
        BY <2>2, <2>6, <4>1
      <4> QED BY <2>3, <4>1, <4>2 DEF SameRoot
    <3> QED BY <3>1, <3>2
  <2>7. Ahead(p)'
    BY <2>4, <2>5, <2>6 DEF Ahead
  <2> QED BY <2>7
<1> QED BY <1>2, <1>3 DEF Roots

(* A ratchet step in decrypt: the end behind overtakes the other. *)
LEMMA StepOvertakes ==
    ASSUME SearchFinds, Inv, Roots, NEW e \in Ends, NEW m \in network, DecryptControl(e, m),
           DrawsKey(control[e], m)
    PROVE  Roots'
<1> DEFINE s == control[e]
           t == control'[e]
           r == control[Peer(e)]
<1>1. Good(s) /\ m \in Messages /\ keys \in Nat /\ m.dh_public \in Nat
  BY DEF Inv, Types, Ratcheting, Messages
<1>2. /\ control = [x \in Ends |-> control[x]]
      /\ control' = [control EXCEPT ![e] = after_decrypt(s, m, keys + 1)]
      /\ network' = network /\ keys' = keys + 1 /\ m.to = e
      /\ disturbances' = disturbances \cup Disturbs(e, m)
  BY DEF DecryptControl, Inv, Types
<1>3. /\ Peer(e) \in Ends /\ Peer(e) # e /\ Peer(Peer(e)) = e
      /\ \A x \in Ends : x = e \/ x = Peer(e)
  BY PeerIs
<1>4. t = after_decrypt(s, m, keys + 1) /\ control'[Peer(e)] = r
  BY <1>2, <1>3
<1>5. keys + 1 \in Nat
  BY <1>1
<1>6. Stepped(s, t, m.dh_public, keys + 1)
  <2>1. DrawsKey(s, m)
    OBVIOUS
  <2> HIDE DEF s, t, r
  <2> QED BY Zenon, <1>1, <1>4, <1>5, <2>1, DecryptKeeps
<1>7. /\ s.dh_self \in Nat /\ r.dh_self \in Nat
      /\ s.dh_remote # None => s.dh_remote \in Nat
      /\ r.dh_remote # None => r.dh_remote \in Nat
      /\ s.root_key \in Seq(SUBSET Nat)
  BY ZenonT(40), <1>3 DEF Inv, Ratcheting, Good, Ratchets
<1>8. ~ Seen(s, m) /\ ~ OpensSkipped(s, m) /\ (s.dh_remote = None \/ m.dh_public # s.dh_remote)
  BY DEF DrawsKey, NewRemote
<1>9. s.dh_remote # None /\ m.dh_public < s.dh_remote => "stale" \in Disturbs(e, m)
  BY Zenon, <1>8 DEF Disturbs
<1>10. s.dh_self <= keys /\ r.dh_self <= keys
  BY ZenonT(40), <1>3 DEF Roots, Drawn
<1> HIDE DEF s, t, r
<1>11. Drawn'
  <2>1. t.dh_self <= keys' /\ r.dh_self <= keys'
    BY <1>1, <1>2, <1>6, <1>7, <1>10 DEF Stepped
  <2> QED BY Zenon, <1>3, <1>4, <2>1 DEF Drawn, t
<1>12. ASSUME Quiet' PROVE (\E p \in Ends : Ahead(p))'
  <2>1. Quiet /\ ~ (s.dh_remote # None /\ m.dh_public < s.dh_remote)
    BY <1>2, <1>9, <1>12 DEF Quiet
  <2>2. PICK p \in Ends : Ahead(p)
    BY <2>1 DEF Roots
  <2>3. p = Peer(e)
    <3>1. ASSUME p = e PROVE FALSE
      <4>1. m.dh_public <= s.dh_remote /\ s.dh_remote = r.dh_self
        BY <1>2, <2>2, <3>1 DEF Ahead, AheadOf, s, r
      <4>2. s.dh_remote # None
        BY <1>7, <4>1, RatchetConstants
      <4> QED BY <1>1, <1>7, <1>8, <2>1, <4>1, <4>2
    <3> QED BY <1>3, <3>1
  <2>4. /\ AheadOf(r, s)
        /\ \A n \in network : n.to = Peer(e) => n.dh_public <= r.dh_remote
        /\ \A n \in network : n.to = e =>
              n.dh_public = r.dh_self \/ (s.dh_remote # None /\ n.dh_public <= s.dh_remote)
    BY <1>3, <2>2, <2>3 DEF Ahead, s, r
  <2>5. m.dh_public = r.dh_self
    BY <1>1, <1>2, <1>7, <1>8, <2>1, <2>4
  <2>6. t.root_key = Append(r.root_key, {r.dh_self, t.dh_self}) /\ t.dh_remote = r.dh_self
    <3>1. r.root_key = Append(s.root_key, {s.dh_self, r.dh_self})
      BY <2>4 DEF AheadOf
    <3>2. {keys + 1, r.dh_self} = {r.dh_self, keys + 1}
      OBVIOUS
    <3> QED BY <1>6, <2>5, <3>1, <3>2 DEF Stepped
  <2>7. r.dh_remote # None => r.dh_remote <= t.dh_self
    <3>1. r.dh_remote = s.dh_self /\ t.dh_self = keys + 1
      BY <1>6, <2>4 DEF AheadOf, Stepped
    <3> QED BY <1>1, <1>7, <1>10, <3>1
  <2>8. AheadOf(t, r)
    BY <2>6, <2>7 DEF AheadOf
  <2>9. \A n \in network : n.to = e => n.dh_public <= t.dh_remote
    <3> SUFFICES ASSUME NEW n \in network, n.to = e PROVE n.dh_public <= t.dh_remote
      OBVIOUS
    <3>1. n.dh_public \in Nat
      BY DEF Inv, Types, Messages
    <3>2. s.dh_remote # None => s.dh_remote <= r.dh_self
      BY <2>4 DEF AheadOf
    <3> QED BY <1>7, <2>4, <2>6, <3>1, <3>2
  <2>10. \A n \in network : n.to = Peer(e) => r.dh_remote # None /\ n.dh_public <= r.dh_remote
    BY <1>7, <2>4, RatchetConstants DEF AheadOf
  <2>11. Ahead(e)'
    BY <1>2, <1>4, <2>8, <2>9, <2>10 DEF Ahead, t
  <2> QED BY <2>11
<1> QED BY <1>11, <1>12 DEF Roots

(* A delivery either leaves both roots alone or makes the other end the one ahead. *)
LEMMA DecryptRoots ==
    ASSUME SearchFinds, Inv, Roots, NEW e \in Ends, NEW m \in network, DecryptControl(e, m)
    PROVE  Roots'
<1>1. CASE DrawsKey(control[e], m)
  BY <1>1, StepOvertakes
<1>2. CASE ~ DrawsKey(control[e], m)
  <2> DEFINE t == after_decrypt(control[e], m, keys + 1)
  <2>1. Good(control[e]) /\ m \in Messages /\ keys \in Nat /\ keys + 1 \in Nat
    BY DEF Inv, Types, Ratcheting
  <2>2. SameRoot(control[e], t)
    BY <1>2, <2>1, DecryptKeeps
  <2>3. /\ control = [x \in Ends |-> control[x]] /\ control' = [control EXCEPT ![e] = t]
        /\ network' = network /\ keys' = keys /\ disturbances \subseteq disturbances'
    BY <1>2, <2>1 DEF DecryptControl, Inv, Types
  <2> HIDE DEF t
  <2>4. \A x \in Ends : SameRoot(control[x], control'[x])
    BY <2>2, <2>3 DEF SameRoot
  <2>5. keys' >= keys /\ keys' \in Nat
    BY <2>1, <2>3
  <2> QED BY <2>3, <2>4, <2>5, SameRoots
<1> QED BY <1>1, <1>2

(* Sending, also when the sealing fails, leaves the roots alone. *)
LEMMA EncryptRoots ==
    ASSUME Inv, Roots, NEW e \in Ends, EncryptControl(e) \/ EncryptFails(e)
    PROVE  Roots'
<1>1. PICK sealed \in BOOLEAN :
         /\ control' = [control EXCEPT ![e] = after_encrypt(control[e], sealed)]
         /\ CanEncrypt(control[e])
  BY Zenon DEF EncryptControl, EncryptFails, Becomes
<1> DEFINE t == after_encrypt(control[e], sealed)
<1>2. Good(control[e]) /\ keys \in Nat /\ control = [x \in Ends |-> control[x]]
  BY DEF Inv, Types, Ratcheting
<1>3. SameRoot(control[e], t)
  BY <1>1, <1>2, EncryptKeeps
<1>4. control' = [control EXCEPT ![e] = t]
  BY <1>1
<1> HIDE DEF t
<1>5. \A x \in Ends : SameRoot(control[x], control'[x])
  BY <1>2, <1>3, <1>4 DEF SameRoot
<1>6. keys' >= keys /\ keys' \in Nat /\ disturbances \subseteq disturbances'
  <2>1. keys' = keys
    BY Zenon DEF EncryptControl, EncryptFails
  <2>2. CASE EncryptControl(e)
    BY <1>2, <2>1, <2>2 DEF EncryptControl
  <2>3. CASE EncryptFails(e)
    <3>1. disturbances' = disturbances \cup {"seal"}
      BY <2>3 DEF EncryptFails
    <3> QED BY <1>2, <2>1, <3>1
  <2> QED BY <2>2, <2>3
<1>7. \A m \in network' : m \in network \/
          \E x \in Ends : m.to = Peer(x) /\ m.dh_public = control[x].dh_self
  <2>1. CASE EncryptControl(e)
    <3>1. network' = network \cup {encrypted(control[e], Peer(e))}
      BY <2>1 DEF EncryptControl
    <3>2. /\ encrypted(control[e], Peer(e)).to = Peer(e)
          /\ encrypted(control[e], Peer(e)).dh_public = control[e].dh_self
      BY DEF encrypted
    <3> QED BY <3>1, <3>2
  <2>2. CASE EncryptFails(e)
    BY <2>2 DEF EncryptFails
  <2> QED BY <2>1, <2>2
<1> QED BY Zenon, <1>5, <1>6, <1>7, SameRoots

(* After a forced step RootsInStep claims nothing any more. *)
LEMMA ForcedRoots ==
    ASSUME Inv, Roots, NEW e \in Ends, RotateKeys(e) \/ RotateAndEncryptData(e)
    PROVE  Roots'
<1> DEFINE s == control[e]
           u == [s EXCEPT !.prev_send_count = s.send_count, !.send_count = 0]
           t == force_ratchet_step(s, keys + 1)
<1>1. /\ s \in Ratchets /\ s.dh_remote \in Nat /\ keys \in Nat
      /\ control = [x \in Ends |-> control[x]]
      /\ \A x \in Ends : control[x].dh_self \in Nat /\ control[x].dh_self <= keys
  BY DEF Inv, Types, Ratcheting, Good, Ratchets, Roots, Drawn, RotateKeys, RotateAndEncryptData, CanForce
<1>2. u \in Ratchets
  BY Zenon, <1>1 DEF Ratchets
<1>3. t = NewSendingChain(u, keys + 1, s.dh_remote) /\ keys + 1 \in Nat
  BY <1>1 DEF force_ratchet_step
<1>4. /\ control' = [control EXCEPT ![e] = t] /\ keys' = keys + 1
      /\ "forced" \in disturbances'
  BY DEF RotateKeys, RotateAndEncryptData, Becomes
<1> HIDE DEF u, t
<1>5. t.dh_self = keys + 1
  BY Zenon, <1>1, <1>2, <1>3, NewSendingChainIs
<1>6. Drawn'
  BY <1>1, <1>4, <1>5 DEF Drawn
<1>7. ~ Quiet'
  BY <1>4 DEF Quiet
<1> QED BY <1>6, <1>7 DEF Roots

(* Every step of the channel keeps the roots in step. *)
LEMMA NextRoots == ASSUME SearchFinds PROVE Inv /\ Roots /\ [Next]_vars => Roots'
<1> SUFFICES ASSUME Inv, Roots, [Next]_vars PROVE Roots'
  OBVIOUS
<1>1. ASSUME UNCHANGED <<control, network, disturbances, keys>> PROVE Roots'
  BY <1>1 DEF Roots, Drawn, Quiet, Ahead
<1>2. CASE UNCHANGED vars
  BY <1>1, <1>2 DEF vars
<1>3. ASSUME NEW e \in Ends, EncryptData(e) PROVE Roots'
  BY <1>1, <1>3 DEF EncryptData
<1> QED BY <1>2, <1>3, EncryptRoots, DecryptRoots, ForcedRoots DEF Next

-----------------------------------------------------------------------------
(* Every message is accepted at its first delivery *)

(* The messages on their way, or arrived, at e. *)
To(e) == {m \in network : m.to = e}

(* The inductive invariant. *)
Delivery ==
    disturbances = {} =>
        \A e \in Ends : InTouch(control[e], control[Peer(e)], To(e), To(Peer(e)),
                                accepted[e], accepted[Peer(e)])

(* A message that is no gap for an end finds room in its store. *)
LEMMA HasRoom ==
    ASSUME SearchFinds, NEW e, control[e] \in Ratchets, NEW m \in Messages, ~ Seen(control[e], m),
           \A k \in InStore(control[e]) : ~ Fits(k, m), "gap" \notin Disturbs(e, m)
    PROVE  Room(control[e], m)
<1> DEFINE s == control[e]
           before == try_skipped_keys(s, m)
           rest == IF NewRemote(s, m) /\ s.chain_key_recv # None
                   THEN m.prev_chain_len - s.recv_count ELSE 0
           from == IF NewRemote(s, m) THEN 0 ELSE s.recv_count
           gap == m.message_num - from
           Positive(n) == IF n > 0 THEN n ELSE 0
<1>1. before = s
  BY TryExact
<1>2. ~ OpensSkipped(s, m)
  BY StoreOpens
<1>3. ~ (Len(before.skipped_keys) + Positive(rest) + Positive(gap) > MAX_SKIP)
  BY <1>2, Zenon DEF Disturbs
<1>4. /\ s.recv_count \in Nat /\ m.prev_chain_len \in Nat /\ m.message_num \in Nat
      /\ Len(s.skipped_keys) \in Nat /\ MAX_SKIP \in Nat
  BY RatchetConstants, LenIs DEF Ratchets, Messages
<1>5. Len(s.skipped_keys) + Positive(rest) + Positive(gap) <= MAX_SKIP
  <2>1. rest \in Int /\ gap \in Int
    BY <1>4
  <2>2. Positive(rest) \in Nat /\ Positive(gap) \in Nat
    <3> HIDE DEF rest, gap
    <3> QED BY <2>1
  <2>3. ~ (Len(s.skipped_keys) + Positive(rest) + Positive(gap) > MAX_SKIP)
    <3> HIDE DEF rest, gap, before, Positive
    <3> QED BY <1>1, <1>3, Zenon
  <2> HIDE DEF rest, gap, Positive
  <2> QED BY <1>4, <2>2, <2>3
<1>6. CASE NewRemote(s, m)
  <2>1. Positive(rest) = RestCount(s, m) /\ Positive(gap) = m.message_num
    BY <1>4, <1>6 DEF RestCount, Beyond
  <2>2. RestCount(s, m) \in Nat
    BY <1>4 DEF RestCount, Beyond
  <2> HIDE DEF rest, gap, before, Positive
  <2> QED BY <1>4, <1>5, <1>6, <2>1, <2>2 DEF Room
<1>7. CASE ~ NewRemote(s, m)
  <2>1. Positive(rest) = 0 /\ Positive(gap) = Beyond(s, m.message_num)
    BY <1>4, <1>7 DEF Beyond
  <2>2. Beyond(s, m.message_num) \in Nat
    BY <1>4 DEF Beyond
  <2> HIDE DEF rest, gap, before, Positive
  <2> QED BY <1>4, <1>5, <1>7, <2>1, <2>2 DEF Room
<1> QED BY <1>6, <1>7

(* The initiator begins on the responder's key, and nothing has been sent. *)
LEMMA InitDelivery == Init => Delivery
<1> SUFFICES ASSUME Init PROVE Delivery
  OBVIOUS
<1> DEFINE a == init_alice(2, 1)
           b == init_bob(1)
<1>1. control = [e \in Ends |-> IF e = "initiator" THEN a ELSE b] /\ network = {}
  BY DEF Init
<1>2. accepted = [e \in Ends |-> {}]
  BY DEF Init
<1> HIDE DEF a, b
<1>3. InTouch(a, b, {}, {}, {}, {}) /\ InTouch(b, a, {}, {}, {}, {})
  BY Zenon, InTouchBegins, InTouchEither DEF a, b
<1>4. \A e \in Ends : To(e) = {} /\ accepted[e] = {}
  BY <1>1, <1>2 DEF To
<1>5. ASSUME NEW e \in Ends
       PROVE  \/ control[e] = a /\ control[Peer(e)] = b
              \/ control[e] = b /\ control[Peer(e)] = a
  BY <1>1, PeerIs DEF Ends
<1> QED BY Zenon, <1>3, <1>4, <1>5, PeerIs DEF Delivery

(* While nothing has disturbed them the ends are in touch. *)
LEMMA InTouchNow ==
    ASSUME disturbances = {}, Delivery, NEW e \in Ends
    PROVE  InTouch(control[e], control[Peer(e)], To(e), To(Peer(e)), accepted[e], accepted[Peer(e)])
BY Zenon DEF Delivery

(* To keep the ends in touch it is enough to show it from one of them. *)
LEMMA InTouchThen ==
    ASSUME NEW e \in Ends,
           InTouch(control'[e], control'[Peer(e)], To(e)', To(Peer(e))', accepted'[e], accepted'[Peer(e)])
    PROVE  Delivery'
<1>1. /\ Peer(e) \in Ends /\ Peer(Peer(e)) = e /\ \A x \in Ends : x = e \/ x = Peer(e)
  BY PeerIs
<1> DEFINE I(x) == InTouch(control'[x], control'[Peer(x)], To(x)', To(Peer(x))', accepted'[x], accepted'[Peer(x)])
<1>2. I(e)
  OBVIOUS
<1>3. I(Peer(e))
  BY Zenon, <1>1, <1>2, InTouchEither
<1> HIDE DEF I
<1>4. \A x \in Ends : I(x)
  BY Zenon, <1>1, <1>2, <1>3
<1> QED BY <1>4 DEF I, Delivery

(* What the steps below know of the two ends. *)
LEMMA EndsTyped ==
    ASSUME Inv, Roots, NEW e \in Ends
    PROVE  /\ control[e] \in Ratchets /\ control[Peer(e)] \in Ratchets
           /\ To(e) \in SUBSET Messages /\ To(Peer(e)) \in SUBSET Messages
           /\ keys \in Nat /\ keys + 1 \in Nat /\ control[e].dh_self < keys + 1
<1>1. Peer(e) \in Ends
  BY PeerIs
<1>2. control[e] \in Ratchets /\ control[Peer(e)] \in Ratchets
  BY Zenon, <1>1 DEF Inv, Ratcheting, Good
<1>3. control[e].dh_self \in Nat /\ control[e].dh_self <= keys
  BY <1>2 DEF Ratchets, Roots, Drawn
<1>4. keys \in Nat
  BY DEF Inv, Types
<1>5. To(e) \in SUBSET Messages /\ To(Peer(e)) \in SUBSET Messages
  BY DEF To, Inv, Types
<1>6. keys + 1 \in Nat /\ control[e].dh_self < keys + 1
  BY <1>3, <1>4
<1> QED BY Zenon, <1>2, <1>4, <1>5, <1>6

(* encrypt_control puts one message more on its way. *)
LEMMA EncryptDelivery ==
    ASSUME Inv, Roots, Delivery, NEW e \in Ends, EncryptControl(e)
    PROVE  Delivery'
<1> SUFFICES ASSUME disturbances' = {} PROVE Delivery'
  BY Zenon DEF Delivery
<1> DEFINE r == control[e]
           s == control[Peer(e)]
           m == encrypted(r, Peer(e))
           t == after_encrypt(r, TRUE)
<1>1. /\ CanEncrypt(r) /\ network' = network \cup {m} /\ accepted' = accepted
      /\ disturbances' = disturbances /\ control' = [control EXCEPT ![e] = t]
      /\ control = [x \in Ends |-> control[x]]
  BY Zenon DEF EncryptControl, Becomes, Inv, Types
<1>2. Peer(e) \in Ends /\ Peer(e) # e
  BY PeerIs
<1>3. /\ r \in Ratchets /\ s \in Ratchets /\ To(Peer(e)) \in SUBSET Messages
  BY Zenon, EndsTyped
<1>4. /\ m.to = Peer(e) /\ m.dh_public = r.dh_self /\ m.prev_chain_len = r.prev_send_count
      /\ m.message_num = r.send_count /\ m.key = r.chain_key_send
  BY DEF encrypted
<1>5. m \in Messages
  <2>1. r.dh_self \in Nat /\ r.prev_send_count \in Nat /\ r.send_count \in Nat
    BY ZenonT(40), <1>3 DEF Ratchets
  <2>2. r.chain_key_send \in Chains /\ r.chain_key_send # None
    BY <1>1, <1>3 DEF Ratchets, CanEncrypt
  <2> QED BY Zenon, <1>2, <1>4, <2>1, <2>2 DEF Messages, encrypted, Ends
<1>6. InTouch(r, s, To(e), To(Peer(e)), accepted[e], accepted[Peer(e)])
  BY Zenon, <1>1, InTouchNow
<1> HIDE DEF m
<1>7. InTouch(t, s, To(e), To(Peer(e)) \cup {m}, accepted[e], accepted[Peer(e)])
  BY ZenonT(40), <1>1, <1>3, <1>4, <1>5, <1>6, InTouchSends DEF NextOf
<1> HIDE DEF t
<1>8. To(e)' = To(e) /\ To(Peer(e))' = To(Peer(e)) \cup {m}
  BY <1>1, <1>2, <1>4 DEF To
<1>9. control'[e] = t /\ control'[Peer(e)] = s
  BY <1>1, <1>2
<1> QED BY Zenon, <1>1, <1>7, <1>8, <1>9, InTouchThen

(* decrypt_control of a message that has been accepted before: it is turned away, unless
   it bears a DH key the sender has left behind. *)
LEMMA RepeatedDelivery ==
    ASSUME SearchFinds, Inv, NEW e \in Ends, NEW m \in accepted[e], disturbances = {}, Delivery,
           Disturbs(e, m) = {}, NEW t, t = after_decrypt(control[e], m, keys + 1)
    PROVE  \/ t = control[e] /\ ~ decrypts(control[e], m, keys + 1)
           \/ /\ Follows(control[e], t, control[Peer(e)], m, To(e), accepted[e])
              /\ decrypts(control[e], m, keys + 1)
<1> DEFINE s == control[e]
           r == control[Peer(e)]
<1>1. Link(s, r, To(e), accepted[e])
  BY Zenon, InTouchNow DEF InTouch
<1>2. /\ m \in To(e) /\ s.dh_remote # None /\ m.dh_public <= s.dh_remote
      /\ m.dh_public = s.dh_remote => Seen(s, m)
  BY Zenon, <1>1 DEF Link, Records
<1>3. CASE Seen(s, m)
  BY Zenon, <1>3 DEF after_decrypt, decrypts
<1>4. CASE ~ Seen(s, m) /\ OpensSkipped(s, m)
  <2>1. t = MarkReceived(try_skipped_keys(s, m), m) /\ decrypts(s, m, keys + 1)
    BY Zenon, <1>4 DEF after_decrypt, decrypts
  <2>2. s \in Ratchets /\ r \in Ratchets /\ To(e) \in SUBSET Messages
    BY Zenon, PeerIs DEF Inv, Ratcheting, Good, Types, To
  <2>3. Follows(s, t, r, m, To(e), accepted[e])
    BY ZenonT(40), <1>1, <1>2, <1>4, <2>1, <2>2, LinkOpensStored DEF Follows
  <2> QED BY Zenon, <2>1, <2>3
<1>5. CASE ~ Seen(s, m) /\ ~ OpensSkipped(s, m)
  <2>1. s.dh_remote \in Nat /\ m.dh_public \in Nat
    BY <1>2, RatchetConstants DEF Inv, Ratcheting, Good, Ratchets, Types, To, Messages
  <2>2. m.dh_public < s.dh_remote
    BY <1>2, <1>5, <2>1
  <2>3. "stale" \in Disturbs(e, m)
    BY Zenon, <1>2, <1>5, <2>2 DEF Disturbs
  <2> QED BY <2>3
<1> QED BY Zenon, <1>3, <1>4, <1>5

(* The first arrival of a message is its acceptance. *)
LEMMA FirstDelivery ==
    ASSUME SearchFinds, Inv, Roots, NEW e \in Ends, NEW m \in To(e) \ accepted[e], disturbances = {}, Delivery,
           "gap" \notin Disturbs(e, m), NEW t, t = after_decrypt(control[e], m, keys + 1)
    PROVE  /\ decrypts(control[e], m, keys + 1)
           /\ \/ Follows(control[e], t, control[Peer(e)], m, To(e), accepted[e])
              \/ Turns(control[e], t, control[Peer(e)], m, To(e), accepted[e], keys + 1)
<1> DEFINE s == control[e]
           r == control[Peer(e)]
<1>1. Link(s, r, To(e), accepted[e]) /\ (Tuned(s, r, To(e)) \/ Pending(s, r, To(e)))
  BY Zenon, InTouchNow DEF InTouch
<1>2. /\ s \in Ratchets /\ r \in Ratchets /\ To(e) \in SUBSET Messages /\ keys + 1 \in Nat
      /\ m \in Messages
  BY Zenon, EndsTyped
<1>3. ~ Seen(s, m)
  BY Zenon, <1>1, NotSeen
<1>4. (\A k \in InStore(s) : ~ Fits(k, m)) => Room(s, m)
  BY Zenon, <1>2, <1>3, HasRoom
<1> HIDE DEF s, r
<1> QED BY Zenon, <1>1, <1>2, <1>4, LinkDelivers DEF s, r

(* decrypt_control keeps the two ends in touch. *)
LEMMA DecryptDelivery ==
    ASSUME SearchFinds, Inv, Roots, Delivery, NEW e \in Ends, NEW m \in network, DecryptControl(e, m)
    PROVE  Delivery'
<1> SUFFICES ASSUME disturbances' = {} PROVE Delivery'
  BY Zenon DEF Delivery
<1> DEFINE s == control[e]
           r == control[Peer(e)]
           t == after_decrypt(s, m, keys + 1)
           d == decrypts(s, m, keys + 1)
<1>1. /\ m \in To(e) /\ control' = [control EXCEPT ![e] = t] /\ network' = network
      /\ accepted' = (IF d THEN [accepted EXCEPT ![e] = @ \cup {m}] ELSE accepted)
      /\ disturbances' = disturbances \cup Disturbs(e, m)
      /\ control = [x \in Ends |-> control[x]] /\ accepted = [x \in Ends |-> accepted[x]]
  BY Zenon DEF DecryptControl, Inv, Types, To
<1>2. disturbances = {} /\ Disturbs(e, m) = {}
  BY <1>1
<1>3. Peer(e) \in Ends /\ Peer(e) # e
  BY PeerIs
<1>4. /\ s \in Ratchets /\ r \in Ratchets /\ To(e) \in SUBSET Messages
      /\ To(Peer(e)) \in SUBSET Messages /\ keys + 1 \in Nat /\ s.dh_self < keys + 1
  BY Zenon, EndsTyped
<1>5. InTouch(s, r, To(e), To(Peer(e)), accepted[e], accepted[Peer(e)])
  BY Zenon, <1>2, InTouchNow
<1>6. \/ t = s /\ ~ d
      \/ /\ d
         /\ \/ Follows(s, t, r, m, To(e), accepted[e])
            \/ Turns(s, t, r, m, To(e), accepted[e], keys + 1)
  <2>1. CASE m \in accepted[e]
    BY Zenon, <1>2, <2>1, RepeatedDelivery
  <2>2. CASE m \notin accepted[e]
    BY ZenonT(40), <1>1, <1>2, <2>2, FirstDelivery
  <2> QED BY Zenon, <2>1, <2>2
<1>7. To(e)' = To(e) /\ To(Peer(e))' = To(Peer(e))
  BY Zenon, <1>1 DEF To
<1> HIDE DEF t, d
<1>8. control'[e] = t /\ control'[Peer(e)] = r
  BY <1>1, <1>3
<1>9. CASE t = s /\ ~ d
  <2>1. accepted' = accepted
    BY Zenon, <1>1, <1>9
  <2> QED BY ZenonT(40), <1>5, <1>7, <1>8, <1>9, <2>1, InTouchThen
<1>10. CASE /\ d
            /\ \/ Follows(s, t, r, m, To(e), accepted[e])
               \/ Turns(s, t, r, m, To(e), accepted[e], keys + 1)
  <2>1. accepted'[e] = accepted[e] \cup {m} /\ accepted'[Peer(e)] = accepted[Peer(e)]
    BY <1>1, <1>3, <1>10
  <2>2. InTouch(t, r, To(e), To(Peer(e)), accepted[e] \cup {m}, accepted[Peer(e)])
    BY ZenonT(40), <1>4, <1>5, <1>10, InTouchAccepts
  <2> QED BY ZenonT(40), <1>7, <1>8, <2>1, <2>2, InTouchThen
<1> QED BY Zenon, <1>6, <1>9, <1>10

(* Every step of the channel keeps the invariant: a seal that fails and a forced step
   are disturbances. *)
LEMMA NextDelivery == ASSUME SearchFinds PROVE Inv /\ Roots /\ Delivery /\ [Next]_vars => Delivery'
<1> SUFFICES ASSUME Inv, Roots, Delivery, [Next]_vars PROVE Delivery'
  OBVIOUS
<1>1. ASSUME UNCHANGED <<control, network, accepted, disturbances>> PROVE Delivery'
  <2>1. control' = control /\ network' = network /\ accepted' = accepted /\ disturbances' = disturbances
    BY <1>1
  <2>2. \A e : To(e)' = To(e)
    BY Zenon, <2>1 DEF To
  <2> QED BY Zenon, <2>1, <2>2 DEF Delivery
<1>2. ASSUME disturbances' # {} PROVE Delivery'
  BY Zenon, <1>2 DEF Delivery
<1>3. CASE UNCHANGED vars
  BY Zenon, <1>1, <1>3 DEF vars
<1>4. ASSUME NEW e \in Ends, EncryptData(e) PROVE Delivery'
  BY Zenon, <1>1, <1>4 DEF EncryptData
<1>5. ASSUME NEW e \in Ends, EncryptFails(e) \/ RotateKeys(e) \/ RotateAndEncryptData(e) PROVE Delivery'
  <2>1. \E d \in {"seal", "forced"} : disturbances' = disturbances \cup {d}
    BY Zenon, <1>5 DEF EncryptFails, RotateKeys, RotateAndEncryptData
  <2>2. disturbances' # {}
    BY <2>1
  <2> QED BY Zenon, <1>2, <2>2
<1> QED BY ZenonT(40), <1>3, <1>4, <1>5, EncryptDelivery, DecryptDelivery DEF Next

-----------------------------------------------------------------------------
(* Message keys.  A sending chain is split from a root whose last DH output pairs the
   key pair drawn for it with an older one, so the chain names its key pair, and the key
   pair its owner. *)

(* The key pairs drawn so far, each end with its own. *)
Pairs ==
    /\ \A x, y \in Ends : control[x].dh_self = control[y].dh_self => x = y
    /\ \A e \in Ends : control[e].dh_self <= keys
    /\ \A e \in Ends : control[e].dh_remote # None => control[e].dh_remote <= keys
    /\ \A m \in network : m.dh_public <= keys

(* What is sent, or will be, under a key pair is sealed on its chain. *)
Sealing ==
    /\ \A e \in Ends : control[e].chain_key_send # None =>
          Names(control[e].chain_key_send.root, control[e].dh_self)
    /\ \A m \in network : Names(m.key.root, m.dh_public)

(* What an end has sent under its present key pair lies behind its sending chain. *)
Sealed ==
    \A e \in Ends : \A m \in network : m.dh_public = control[e].dh_self =>
        /\ control[e].chain_key_send # None
        /\ m.key.root = control[e].chain_key_send.root
        /\ m.key.n < control[e].chain_key_send.n

(* The inductive invariant. *)
KeysInv == Pairs /\ Sealing /\ Sealed /\ KeysUsedOnce

(* What the invariants say of the types. *)
LEMMA KeysTyped ==
    ASSUME Inv
    PROVE  /\ keys \in Nat /\ control = [x \in Ends |-> control[x]]
           /\ \A x \in Ends : /\ Good(control[x]) /\ control[x] \in Ratchets
                              /\ control[x].dh_self \in Nat
                              /\ control[x].dh_remote \in Nat \cup {None}
                              /\ control[x].chain_key_send \in Chains \cup {None}
           /\ network \subseteq Messages
           /\ \A m \in network : m.dh_public \in Nat /\ m.key \in Chains /\ m.key.n \in Nat
<1>1. keys \in Nat /\ control = [x \in Ends |-> control[x]] /\ network \subseteq Messages
  BY DEF Inv, Types
<1>2. \A x \in Ends : Good(control[x]) /\ control[x] \in Ratchets
  BY Zenon DEF Inv, Ratcheting, Good
<1>3. \A x \in Ends : /\ control[x].dh_self \in Nat
                      /\ control[x].dh_remote \in Nat \cup {None}
                      /\ control[x].chain_key_send \in Chains \cup {None}
  BY Zenon, <1>2 DEF Ratchets
<1>4. \A m \in network : m.dh_public \in Nat /\ m.key \in Chains /\ m.key.n \in Nat
  BY <1>1 DEF Messages, Chains
<1> QED BY Zenon, <1>1, <1>2, <1>3, <1>4

(* Before anything is sent: the responder's signed key pair and the initiator's first. *)
LEMMA InitKeys == Init => KeysInv
<1> SUFFICES ASSUME Init PROVE KeysInv
  OBVIOUS
<1> DEFINE z == Cleared(2, 1)
           a == init_alice(2, 1)
           b == init_bob(1)
<1>1. z \in Ratchets /\ z.root_key = << >> /\ z.dh_remote = 1
  BY DEF Cleared, Ratchets
<1>2. a = NewSendingChain(z, 2, 1)
  BY Zenon DEF init_alice
<1>3. b.dh_self = 1 /\ b.dh_remote = None /\ b.chain_key_send = None
  BY DEF init_bob, Cleared
<1> HIDE DEF z, a, b
<1>4. /\ a.dh_self = 2 /\ a.dh_remote = 1
      /\ a.chain_key_send # None /\ a.chain_key_send.root = Append(z.root_key, {2, 1})
  <2>1. 2 \in Nat /\ 1 \in Nat
    OBVIOUS
  <2>2. a.dh_self = 2 /\ a.dh_remote = z.dh_remote
    BY Zenon, <1>1, <1>2, <2>1, NewSendingChainIs
  <2>3. a.chain_key_send # None /\ a.chain_key_send.root = Append(z.root_key, {2, 1})
    BY Zenon, <1>1, <1>2, <2>1, NewChainSends
  <2> QED BY Zenon, <1>1, <2>2, <2>3
<1>5. Names(Append(z.root_key, {2, 1}), 2)
  <2>1. z.root_key \in Seq(SUBSET Nat)
    BY Zenon, <1>1 DEF Ratchets
  <2> QED BY <2>1, NamesNewest
<1>6. /\ control["initiator"] = a /\ control["responder"] = b
      /\ network = {} /\ keys = 2
  BY DEF Init, Ends, a, b
<1>7. Pairs
  BY <1>3, <1>4, <1>6 DEF Pairs, Ends
<1>8. Sealing
  BY Zenon, <1>3, <1>4, <1>5, <1>6 DEF Sealing, Ends
<1>9. Sealed /\ KeysUsedOnce
  BY <1>6 DEF Sealed, KeysUsedOnce
<1> QED BY ZenonT(40), <1>7, <1>8, <1>9 DEF KeysInv

(* A step of an end that leaves its key pair and its sending chain alone. *)
LEMMA KeysKept ==
    ASSUME Inv, KeysInv, NEW e \in Ends, NEW t, control' = [control EXCEPT ![e] = t],
           SameRoot(control[e], t), t.chain_key_send = control[e].chain_key_send,
           network' = network, keys' = keys
    PROVE  KeysInv'
<1>1. \A x \in Ends : /\ control'[x].dh_self = control[x].dh_self
                      /\ control'[x].dh_remote = control[x].dh_remote
                      /\ control'[x].chain_key_send = control[x].chain_key_send
  BY KeysTyped DEF SameRoot
<1>2. Pairs'
  BY <1>1 DEF KeysInv, Pairs
<1>3. Sealing'
  BY <1>1 DEF KeysInv, Sealing
<1>4. Sealed'
  BY <1>1 DEF KeysInv, Sealed
<1>5. KeysUsedOnce'
  BY DEF KeysInv, KeysUsedOnce
<1> QED BY Zenon, <1>2, <1>3, <1>4, <1>5 DEF KeysInv

(* A step of an end that draws a key pair and begins its chain. *)
LEMMA KeysDrawn ==
    ASSUME Inv, KeysInv, NEW e \in Ends, NEW t, control' = [control EXCEPT ![e] = t],
           NEW r \in Seq(SUBSET Nat), NEW d \in Nat, d <= keys,
           t.dh_self = keys + 1, t.dh_remote = d,
           t.chain_key_send # None, t.chain_key_send.root = Append(r, {keys + 1, d}),
           network' = network, keys' = keys + 1
    PROVE  KeysInv'
<1>0. keys \in Nat /\ control = [x \in Ends |-> control[x]]
  BY KeysTyped
<1>1. control'[e] = t /\ \A x \in Ends : x # e => control'[x] = control[x]
  BY <1>0
<1>2. Names(t.chain_key_send.root, keys + 1)
  <2>1. keys + 1 \in Nat /\ d <= keys + 1
    BY <1>0
  <2> QED BY Zenon, <2>1, NamesNewest
<1>3. /\ \A x \in Ends : /\ control[x].dh_self \in Nat /\ control[x].dh_self <= keys
                         /\ control[x].dh_remote # None =>
                               control[x].dh_remote \in Nat /\ control[x].dh_remote <= keys
      /\ \A m \in network : m.dh_public \in Nat /\ m.dh_public <= keys
  BY KeysTyped DEF KeysInv, Pairs
<1>4. Pairs'
  <2>1. \A x, y \in Ends : control'[x].dh_self = control'[y].dh_self => x = y
    BY <1>0, <1>1, <1>3 DEF KeysInv, Pairs
  <2>2. \A x \in Ends : /\ control'[x].dh_self <= keys'
                        /\ control'[x].dh_remote # None => control'[x].dh_remote <= keys'
    BY <1>0, <1>1, <1>3
  <2>3. \A m \in network' : m.dh_public <= keys'
    BY <1>0, <1>3
  <2> QED BY <2>1, <2>2, <2>3 DEF Pairs
<1>5. Sealing'
  BY ZenonT(40), <1>1, <1>2 DEF KeysInv, Sealing
<1>6. Sealed'
  BY <1>0, <1>1, <1>3 DEF KeysInv, Sealed
<1>7. KeysUsedOnce'
  BY DEF KeysInv, KeysUsedOnce
<1> QED BY ZenonT(40), <1>4, <1>5, <1>6, <1>7 DEF KeysInv

(* encrypt_control: the message takes the key at the head of the chain, and the chain
   moves on also when the sealing fails. *)
LEMMA KeysEncrypt ==
    ASSUME Inv, KeysInv, NEW e \in Ends, EncryptControl(e) \/ EncryptFails(e)
    PROVE  KeysInv'
<1> DEFINE s == control[e]
           c == s.chain_key_send
           m == encrypted(s, Peer(e))
<1>1. PICK sealed \in BOOLEAN :
         control' = [control EXCEPT ![e] = after_encrypt(s, sealed)] /\ CanEncrypt(s)
  BY Zenon DEF EncryptControl, EncryptFails, Becomes
<1> DEFINE t == after_encrypt(s, sealed)
<1>2. /\ keys' = keys /\ network \subseteq network' /\ network' \subseteq network \cup {m}
  BY Zenon DEF EncryptControl, EncryptFails
<1>3. keys \in Nat /\ control = [x \in Ends |-> control[x]] /\ s \in Ratchets /\ Good(s)
  BY KeysTyped
<1>4. m.dh_public = s.dh_self /\ m.key = c
  BY DEF encrypted
<1>5. SameRoot(s, t)
  BY <1>1, <1>3, EncryptKeeps
<1>6. c \in Chains /\ c # None /\ c.n \in Nat
  BY <1>1, <1>3 DEF CanEncrypt, Ratchets, Chains
<1>7. t.chain_key_send # None /\ t.chain_key_send.root = c.root /\ t.chain_key_send.n = c.n + 1
  <2> DEFINE next == kdf_ck(c)
             n == s.send_count + (IF sealed THEN 1 ELSE 0)
  <2>1. next \in Chains /\ next.root = c.root /\ next.n = c.n + 1
    BY <1>6 DEF kdf_ck, Chains
  <2>2. next # None
    BY <2>1, RatchetConstants DEF Chains
  <2>3. t = [s EXCEPT !.chain_key_send = next, !.send_count = n]
    BY Zenon DEF after_encrypt
  <2> HIDE DEF next, n, t
  <2>4. t.chain_key_send = next
    BY ZenonT(40), <1>3, <2>3 DEF Ratchets
  <2> QED BY Zenon, <2>1, <2>2, <2>4
<1>8. control'[e] = t /\ \A x \in Ends : x # e => control'[x] = control[x]
  BY <1>1, <1>3
<1> HIDE DEF t, m
<1>9. \A x \in Ends : control'[x].dh_self = control[x].dh_self /\ control'[x].dh_remote = control[x].dh_remote
  BY <1>5, <1>8 DEF SameRoot
<1>10. Pairs'
  BY <1>2, <1>4, <1>9 DEF KeysInv, Pairs
<1>11. Names(c.root, s.dh_self)
  BY <1>6 DEF KeysInv, Sealing
<1>12. Sealing'
  BY ZenonT(40), <1>2, <1>4, <1>7, <1>8, <1>9, <1>11 DEF KeysInv, Sealing
<1>13. Sealed'
  <2> SUFFICES ASSUME NEW x \in Ends, NEW o \in network', o.dh_public = control'[x].dh_self
               PROVE  /\ control'[x].chain_key_send # None
                      /\ o.key.root = control'[x].chain_key_send.root
                      /\ o.key.n < control'[x].chain_key_send.n
    BY DEF Sealed
  <2>1. CASE o \in network
    <3>1. /\ control[x].chain_key_send # None
          /\ o.key.root = control[x].chain_key_send.root
          /\ o.key.n < control[x].chain_key_send.n /\ o.key.n \in Nat
      BY <1>9, <2>1, KeysTyped DEF KeysInv, Sealed
    <3> QED BY <1>6, <1>7, <1>8, <3>1
  <2>2. CASE o = m
    <3>1. x = e
      BY ZenonT(40), <1>4, <1>9, <2>2 DEF KeysInv, Pairs
    <3>2. control'[x] = t /\ o.key.root = c.root /\ o.key.n = c.n
      BY Zenon, <1>4, <1>8, <2>2, <3>1
    <3>3. c.n < t.chain_key_send.n
      BY <1>6, <1>7
    <3> QED BY Zenon, <1>7, <3>2, <3>3
  <2> QED BY <1>2, <2>1, <2>2
<1>14. \A o \in network : o.key # c
  <2> SUFFICES ASSUME NEW o \in network, o.key = c PROVE FALSE
    OBVIOUS
  <2>1. o.dh_public \in Nat /\ s.dh_self \in Nat /\ Names(c.root, o.dh_public)
    BY KeysTyped DEF KeysInv, Sealing
  <2>2. o.dh_public = s.dh_self
    BY <1>11, <2>1, NamesOne
  <2>3. o.key.n < c.n
    BY <2>2 DEF KeysInv, Sealed
  <2> QED BY <1>6, <2>3
<1>15. KeysUsedOnce'
  BY <1>2, <1>4, <1>14 DEF KeysInv, KeysUsedOnce
<1> QED BY Zenon, <1>10, <1>12, <1>13, <1>15 DEF KeysInv

(* decrypt_control: a key pair is drawn for a new remote key, for no other message. *)
LEMMA KeysDecrypt ==
    ASSUME SearchFinds, Inv, KeysInv, NEW e \in Ends, NEW m \in network, DecryptControl(e, m)
    PROVE  KeysInv'
<1> DEFINE s == control[e]
           t == after_decrypt(s, m, keys + 1)
<1>1. /\ control' = [control EXCEPT ![e] = t] /\ network' = network
      /\ keys' = keys + (IF DrawsKey(s, m) THEN 1 ELSE 0)
  BY Zenon DEF DecryptControl
<1>2. Good(s) /\ s \in Ratchets /\ m \in Messages /\ keys \in Nat /\ keys + 1 \in Nat /\ m.dh_public \in Nat
  BY KeysTyped
<1>3. /\ DrawsKey(s, m) => t.chain_key_send # None /\ t.chain_key_send.root = t.root_key
      /\ ~ DrawsKey(s, m) => t.chain_key_send = s.chain_key_send
  BY Zenon, <1>2, DecryptSends
<1>4. /\ DrawsKey(s, m) => Stepped(s, t, m.dh_public, keys + 1)
      /\ ~ DrawsKey(s, m) => SameRoot(s, t)
  BY Zenon, <1>2, DecryptKeeps
<1> HIDE DEF t
<1>5. CASE DrawsKey(s, m)
  <2> DEFINE r == Append(s.root_key, {s.dh_self, m.dh_public})
  <2>1. r \in Seq(SUBSET Nat)
    <3>1. s.root_key \in Seq(SUBSET Nat) /\ {s.dh_self, m.dh_public} \in SUBSET Nat
      BY <1>2 DEF Ratchets
    <3> QED BY <3>1, AppendIs
  <2>2. /\ t.dh_self = keys + 1 /\ t.dh_remote = m.dh_public
        /\ t.chain_key_send # None /\ t.chain_key_send.root = Append(r, {keys + 1, m.dh_public})
    BY ZenonT(40), <1>3, <1>4, <1>5 DEF Stepped
  <2> HIDE DEF r
  <2>3. m.dh_public <= keys /\ keys' = keys + 1
    BY <1>1, <1>5 DEF KeysInv, Pairs
  <2> QED BY ZenonT(40), <1>1, <1>2, <2>1, <2>2, <2>3, KeysDrawn
<1>6. CASE ~ DrawsKey(s, m)
  <2>1. keys' = keys
    BY <1>1, <1>2, <1>6
  <2> QED BY ZenonT(40), <1>1, <1>3, <1>4, <1>6, <2>1, KeysKept
<1> QED BY Zenon, <1>5, <1>6

(* rotate_keys, also on the way to encrypt_data. *)
LEMMA KeysForced ==
    ASSUME Inv, KeysInv, NEW e \in Ends, RotateKeys(e) \/ RotateAndEncryptData(e)
    PROVE  KeysInv'
<1> DEFINE s == control[e]
           u == [s EXCEPT !.prev_send_count = s.send_count, !.send_count = 0]
           t == force_ratchet_step(s, keys + 1)
<1>1. /\ control' = [control EXCEPT ![e] = t] /\ network' = network /\ keys' = keys + 1
      /\ s.dh_remote # None
  BY Zenon DEF RotateKeys, RotateAndEncryptData, Becomes, CanForce
<1>2. /\ s \in Ratchets /\ keys \in Nat /\ keys + 1 \in Nat /\ s.dh_remote \in Nat
      /\ s.dh_remote <= keys
  BY <1>1, KeysTyped DEF KeysInv, Pairs
<1>3. u \in Ratchets /\ u.root_key = s.root_key /\ u.dh_remote = s.dh_remote
  <2>1. s.send_count \in Nat
    BY Zenon, <1>2 DEF Ratchets
  <2> QED BY Zenon, <1>2, <2>1 DEF Ratchets
<1>4. t = NewSendingChain(u, keys + 1, s.dh_remote)
  BY Zenon DEF force_ratchet_step
<1> HIDE DEF u, t
<1>5. /\ t.dh_self = keys + 1 /\ t.dh_remote = s.dh_remote
      /\ t.chain_key_send # None
      /\ t.chain_key_send.root = Append(u.root_key, {keys + 1, s.dh_remote})
  <2>1. t.dh_self = keys + 1 /\ t.dh_remote = u.dh_remote
    BY ZenonT(40), <1>2, <1>3, <1>4, NewSendingChainIs
  <2>2. /\ t.chain_key_send # None
        /\ t.chain_key_send.root = Append(u.root_key, {keys + 1, s.dh_remote})
    BY ZenonT(40), <1>2, <1>3, <1>4, NewChainSends
  <2> QED BY Zenon, <1>3, <2>1, <2>2
<1>6. u.root_key \in Seq(SUBSET Nat)
  BY Zenon, <1>3 DEF Ratchets
<1> QED BY ZenonT(40), <1>1, <1>2, <1>5, <1>6, KeysDrawn

(* Every step of the channel keeps the keys apart. *)
LEMMA NextKeys == ASSUME SearchFinds PROVE Inv /\ KeysInv /\ [Next]_vars => KeysInv'
<1> SUFFICES ASSUME Inv, KeysInv, [Next]_vars PROVE KeysInv'
  OBVIOUS
<1>1. ASSUME UNCHANGED <<control, network, keys>> PROVE KeysInv'
  BY Zenon, <1>1 DEF KeysInv, Pairs, Sealing, Sealed, KeysUsedOnce
<1>2. CASE UNCHANGED vars
  BY <1>1, <1>2 DEF vars
<1>3. ASSUME NEW e \in Ends, EncryptData(e) PROVE KeysInv'
  BY <1>1, <1>3 DEF EncryptData
<1> QED BY ZenonT(40), <1>2, <1>3, KeysEncrypt, KeysDecrypt, KeysForced DEF Next
-----------------------------------------------------------------------------
(* The theorems.  The search of the store needs that every set of numbers has a least
   one, the only fact taken from the library. *)
INSTANCE WellFoundedInduction

(* Every set of numbers that is not empty has a smallest one. *)
LEMMA SmallestExists ==
    ASSUME NEW T, T \subseteq Nat, T # {}
    PROVE  \E x \in T : \A y \in T : x <= y
<1>1. IsWellFoundedOn(OpToRel(<, Nat), Nat)
  BY Zenon, NatLessThanWellFounded
<1>2. \E x \in T : \A y \in T : ~ (<<y, x>> \in OpToRel(<, Nat))
  BY Zenon, <1>1, WFMin
<1>3. OpToRel(<, Nat) = {ss \in Nat \X Nat : ss[1] < ss[2]}
  BY DEF OpToRel
<1>4. PICK x \in T : \A y \in T : ~ (<<y, x>> \in OpToRel(<, Nat))
  BY Zenon, <1>2
<1>5. ASSUME NEW y \in T PROVE x <= y
  <2>1. x \in Nat /\ y \in Nat
    OBVIOUS
  <2>2. ~ (<<y, x>> \in {ss \in Nat \X Nat : ss[1] < ss[2]})
    BY Zenon, <1>3, <1>4
  <2>3. ~ (y < x)
    BY <2>1, <2>2
  <2> QED BY <2>1, <2>3
<1> QED BY <1>5

(* The search of try_skipped_keys finds what it looks for. *)
LEMMA SearchAlwaysFinds == SearchFinds
<1> SUFFICES ASSUME NEW s \in Ratchets, NEW m, SkippedAt(s, m) # {}
             PROVE  FirstSkipped(s, m) \in SkippedAt(s, m)
  BY Zenon DEF SearchFinds
<1>1. SkippedAt(s, m) \subseteq Nat
  <2>1. s.skipped_keys \in Seq(Stored)
    BY DEF Ratchets
  <2>2. DOMAIN s.skipped_keys = 1 .. Len(s.skipped_keys) /\ Len(s.skipped_keys) \in Nat
    BY <2>1
  <2> QED BY <2>2 DEF SkippedAt
<1>2. \E x \in SkippedAt(s, m) : \A y \in SkippedAt(s, m) : x <= y
  BY <1>1, SmallestExists
<1> QED BY <1>2 DEF FirstSkipped

(* Whatever the network loses, repeats, delays or reorders, and however the ends
   rotate their keys, DualChannelCrypto::decrypt_control returns the plaintext of a
   message at most once, for every MAX_SKIP. *)
THEOREM ChannelAcceptedOnce == Spec => []AcceptedOnce
<1>1. Inv => AcceptedOnce
  BY DEF Inv
<1>2. Inv /\ [Next]_vars => Inv'
  BY Zenon, SearchAlwaysFinds, NextInv
<1> QED BY InitInv, <1>1, <1>2, PTL DEF Spec

(* Type correctness of the channel; the store of skipped keys never exceeds MAX_SKIP
   and the data cipher is never ahead of its ratchet (sync_data_channel_key). *)
THEOREM ChannelTypes == Spec => []TypeOK
<1>1. Inv => TypeOK
  <2> SUFFICES ASSUME Inv PROVE TypeOK
    OBVIOUS
  <2>1. \A e \in Ends : control[e] \in Ratchets /\ Len(control[e].skipped_keys) <= MAX_SKIP
    BY DEF Inv, Ratcheting, Good
  <2>2. \A e \in Ends :
           {control[e].send_count, control[e].recv_count, control[e].prev_send_count,
            control[e].session_key_generation} \subseteq Nat
    BY <2>1 DEF Ratchets
  <2>3. \A e \in Ends : \A k \in StreamKeys(data[e]) : k.generation <= control[e].session_key_generation
    BY DEF Inv, Streaming, UpTo
  <2>4. \A e \in Ends : accepted[e] \subseteq network
    BY DEF Inv, Accepting
  <2>5. keys \in 2 .. MaxKeys /\ deliveries \in 0 .. MaxDeliveries
    BY DEF Inv, Types
  <2> QED BY <2>1, <2>2, <2>3, <2>4, <2>5 DEF TypeOK
<1>2. Inv /\ [Next]_vars => Inv'
  BY Zenon, SearchAlwaysFinds, NextInv
<1> QED BY InitInv, <1>1, <1>2, PTL DEF Spec

(* Whatever is lost, delayed, skipped too far or fails to seal, the roots of the two
   ratchets stay one dh_ratchet step apart, until a step is forced or a message of an
   old DH key is repeated. *)
THEOREM ChannelRootsInStep == Spec => []RootsInStep
<1>1. Inv /\ Roots => RootsInStep
  <2> SUFFICES ASSUME Inv, Roots, Quiet PROVE RootsInStep
    BY DEF RootsInStep, Quiet
  <2>1. PICK p \in Ends : Ahead(p)
    BY DEF Roots
  <2> DEFINE a == control[p].root_key
             b == control[Peer(p)].root_key
             d == {control[Peer(p)].dh_self, control[p].dh_self}
  <2>2. /\ Peer(p) \in Ends /\ Peer(p) # p
        /\ b \in Seq(SUBSET Nat) /\ d \in SUBSET Nat /\ a = Append(b, d)
    BY ZenonT(40), <2>1, PeerIs DEF Inv, Ratcheting, Good, Ratchets, Ahead, AheadOf
  <2> HIDE DEF a, b, d
  <2>3. Len(a) = Len(b) + 1 /\ Len(b) \in Nat /\ SubSeq(a, 1, Len(b)) = b
    BY <2>2, AppendPrefix
  <2>4. \/ p = "initiator" /\ Peer(p) = "responder"
        \/ p = "responder" /\ Peer(p) = "initiator"
    BY <2>2 DEF Ends
  <2> QED BY <2>3, <2>4 DEF RootsInStep, a, b
<1>2. Init => Inv /\ Roots
  BY InitInv, InitRoots
<1>3. Inv /\ Roots /\ [Next]_vars => Inv' /\ Roots'
  BY Zenon, SearchAlwaysFinds, NextInv, NextRoots
<1> QED BY <1>1, <1>2, <1>3, PTL DEF Spec

(* However the messages of the control channel are lost, delayed and reordered, each one
   that arrives decrypts (double_ratchet.cpp decrypt), as long as nothing but that has
   happened and its arrival needs no more than MAX_SKIP keys set aside: the two ratchets
   turn about each other without ever losing a key that is still needed. *)
THEOREM ChannelFirstDelivery == Spec => []FirstDeliveryAccepted
<1>1. Inv /\ Roots /\ Delivery => FirstDeliveryAccepted
  <2> SUFFICES ASSUME Inv, Roots, Delivery, disturbances = {}, NEW e \in Ends, NEW m \in network,
                      m.to = e, m \notin accepted[e], "gap" \notin Disturbs(e, m)
               PROVE  decrypts(control[e], m, keys + 1)
    BY Zenon DEF FirstDeliveryAccepted
  <2>1. m \in To(e) \ accepted[e]
    BY DEF To
  <2> QED BY Zenon, <2>1, SearchAlwaysFinds, FirstDelivery
<1>2. Init => Inv /\ Roots /\ Delivery
  BY InitInv, InitRoots, InitDelivery
<1>3. Inv /\ Roots /\ Delivery /\ [Next]_vars => (Inv /\ Roots /\ Delivery)'
  BY Zenon, SearchAlwaysFinds, NextInv, NextRoots, NextDelivery
<1> QED BY <1>1, <1>2, <1>3, PTL DEF Spec

(* For any number of messages, repetitions, failed seals and forced rotations, no two
   control messages, of one end or of both, are sealed under one key (encrypt, dh_ratchet
   and force_ratchet_step of double_ratchet.cpp). *)
THEOREM ChannelKeysUsedOnce == Spec => []KeysUsedOnce
<1>1. KeysInv => KeysUsedOnce
  BY DEF KeysInv
<1>2. Init => Inv /\ KeysInv
  BY Zenon, InitInv, InitKeys
<1>3. Inv /\ KeysInv /\ [Next]_vars => (Inv /\ KeysInv)'
  BY Zenon, SearchAlwaysFinds, NextInv, NextKeys
<1> QED BY <1>1, <1>2, <1>3, PTL DEF Spec
=============================================================================
