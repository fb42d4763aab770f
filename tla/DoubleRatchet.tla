---------------------------- MODULE DoubleRatchet ----------------------------
(***************************************************************************)
(* The control channel's ratchet (daemon/core/crypto/double_ratchet.cpp):  *)
(* what each method of DoubleRatchet does to a RatchetState.  Cryptography *)
(* is symbolic.  A DH key pair is a number, drawn fresh; what two parties  *)
(* agree on is the unordered pair of theirs.  A root key is the sequence   *)
(* of DH outputs mixed into the shared secret, a chain key is the root it  *)
(* was split from and how often it was advanced, and the message key       *)
(* derived at a position of a chain is that position.  A ciphertext opens  *)
(* under the key that sealed it and under no other.                        *)
(***************************************************************************)
EXTENDS Integers, Sequences

CONSTANTS MAX_SKIP, None

ASSUME RatchetConstants ==
    MAX_SKIP \in Nat /\ None \notin Nat /\ None \notin [root : Seq(SUBSET Nat), n : Nat]

dh(a, b) == {a, b}

(* kdf_rk: the new root, and the chain key split from it; kdf_ck: the next one. *)
kdf_rk(root, dh_out) == Append(root, dh_out)
chain_of(root) == [root |-> root, n |-> 0]
kdf_ck(chain) == [chain EXCEPT !.n = @ + 1]

(* derive_session_master_key mixes the root with the party's own sending chain. *)
derive_session_master_key(s) ==
    [s EXCEPT !.session_master_key = <<s.root_key, s.chain_key_send>>,
              !.session_key_generation = s.session_key_generation + 1]

(* A state cleared for a new session, as both init methods leave it. *)
Cleared(self, remote) ==
    [dh_self |-> self, dh_remote |-> remote, root_key |-> << >>,
     chain_key_send |-> None, chain_key_recv |-> None,
     send_count |-> 0, recv_count |-> 0, prev_send_count |-> 0,
     skipped_keys |-> << >>, received_messages |-> {},
     session_master_key |-> None, session_key_generation |-> 0]

(* The root moves on and the sending chain starts anew from it. *)
NewSendingChain(s, self, remote) ==
    LET root == kdf_rk(s.root_key, dh(self, remote))
    IN derive_session_master_key(
           [s EXCEPT !.dh_self = self, !.root_key = root, !.chain_key_send = chain_of(root)])

init_alice(self, bob_public) == NewSendingChain(Cleared(self, bob_public), self, bob_public)

init_bob(bob_keypair) == Cleared(bob_keypair, None)

(* MUTANT of dh_ratchet: the new key pair is drawn before the receiving chain is
   agreed on. *)
dh_ratchet_early(s, remote_public, fresh) ==
    LET root == kdf_rk(s.root_key, dh(fresh, remote_public))
    IN NewSendingChain(
           [s EXCEPT !.prev_send_count = s.send_count, !.send_count = 0, !.recv_count = 0,
                     !.dh_remote = remote_public,
                     !.root_key = root, !.chain_key_recv = chain_of(root)],
           fresh, remote_public)

(* MUTANT of dh_ratchet: one root for both chains. *)
dh_ratchet_one_root(s, remote_public, fresh) ==
    LET root == kdf_rk(s.root_key, dh(s.dh_self, remote_public))
    IN derive_session_master_key(
           [s EXCEPT !.prev_send_count = s.send_count, !.send_count = 0, !.recv_count = 0,
                     !.dh_self = fresh, !.dh_remote = remote_public, !.root_key = root,
                     !.chain_key_recv = chain_of(root), !.chain_key_send = chain_of(root)])

dh_ratchet(s, remote_public, fresh) ==
    LET root == kdf_rk(s.root_key, dh(s.dh_self, remote_public))
    IN NewSendingChain(
           [s EXCEPT !.prev_send_count = s.send_count, !.send_count = 0, !.recv_count = 0,
                     !.dh_remote = remote_public,
                     !.root_key = root, !.chain_key_recv = chain_of(root)],
           fresh, remote_public)

(* Agreement on a secret always succeeds here.  Where OpenSSL fails to derive one,
   force_ratchet_step gives up with a new key pair and the old chains, and dh_ratchet goes
   on with an empty secret; neither is modelled. *)
CanForce(s) == s.dh_remote # None

force_ratchet_step(s, fresh) ==
    NewSendingChain([s EXCEPT !.prev_send_count = s.send_count, !.send_count = 0],
                    fresh, s.dh_remote)

-----------------------------------------------------------------------------
(* Skipped keys: the keys of the messages up to until are set aside, the oldest
   ones dropped when there are more than MAX_SKIP.  Too large a gap is ignored. *)

TooFar(s, until) == s.recv_count + MAX_SKIP < until

SkippedUntil(s, until) ==
    [i \in 1 .. until - s.recv_count |->
        [dh_public |-> s.dh_remote, message_num |-> s.recv_count + i - 1,
         message_key |-> [s.chain_key_recv EXCEPT !.n = @ + i - 1]]]

(* MUTANT of Newest: nothing is dropped. *)
NewestAll(q) == q

Newest(q) == IF Len(q) > MAX_SKIP THEN SubSeq(q, Len(q) - MAX_SKIP + 1, Len(q)) ELSE q

skip_message_keys(s, until) ==
    IF s.chain_key_recv = None \/ TooFar(s, until) \/ until <= s.recv_count THEN s
    ELSE [s EXCEPT !.skipped_keys = Newest(s.skipped_keys \o SkippedUntil(s, until)),
                   !.chain_key_recv = [s.chain_key_recv EXCEPT !.n = @ + until - s.recv_count],
                   !.recv_count = until]

Fits(sk, m) == sk.dh_public = m.dh_public /\ sk.message_num = m.message_num

(* The places of the skipped keys for m; the first one is used. *)
SkippedAt(s, m) == {i \in DOMAIN s.skipped_keys : Fits(s.skipped_keys[i], m)}
FirstSkipped(s, m) == CHOOSE i \in SkippedAt(s, m) : \A j \in SkippedAt(s, m) : i <= j

(* MUTANT of try_skipped_keys: the key stays in the store. *)
try_skipped_keys_kept(s, m) == s

(* The key is erased whether or not it opens the message. *)
Without(q, x) == SubSeq(q, 1, x - 1) \o SubSeq(q, x + 1, Len(q))

try_skipped_keys(s, m) ==
    IF SkippedAt(s, m) = {} THEN s
    ELSE [s EXCEPT !.skipped_keys = Without(s.skipped_keys, FirstSkipped(s, m))]

OpensSkipped(s, m) ==
    SkippedAt(s, m) # {} /\ s.skipped_keys[FirstSkipped(s, m)].message_key = m.key

-----------------------------------------------------------------------------
(* encrypt advances the chain before it seals; the counter moves only when the
   sealing succeeds. *)

CanEncrypt(s) == s.chain_key_send # None

encrypted(s, to) ==
    [to |-> to, dh_public |-> s.dh_self, prev_chain_len |-> s.prev_send_count,
     message_num |-> s.send_count, key |-> s.chain_key_send]

after_encrypt(s, sealed) ==
    [s EXCEPT !.chain_key_send = kdf_ck(s.chain_key_send),
              !.send_count = s.send_count + (IF sealed THEN 1 ELSE 0)]

(* decrypt *)

Seen(s, m) == <<m.dh_public, m.message_num>> \in s.received_messages

NewRemote(s, m) == s.dh_remote = None \/ m.dh_public # s.dh_remote

MarkReceived(s, m) ==
    [s EXCEPT !.received_messages = @ \cup {<<m.dh_public, m.message_num>>}]

(* The records of every other DH key are dropped with the ratchet step. *)
Ratcheted(s, m, fresh) ==
    LET stepped == dh_ratchet(skip_message_keys(s, m.prev_chain_len), m.dh_public, fresh)
    IN [stepped EXCEPT !.received_messages = {r \in @ : r[1] = m.dh_public}]

(* MUTANT of OnChain: what is left of the previous chain is not set aside. *)
OnChainDropsRest(s, m, fresh) ==
    skip_message_keys(IF NewRemote(s, m) THEN dh_ratchet(s, m.dh_public, fresh) ELSE s,
                      m.message_num)

(* The receiving chain, brought to the message. *)
OnChain(s, m, fresh) ==
    skip_message_keys(IF NewRemote(s, m) THEN Ratcheted(s, m, fresh) ELSE s, m.message_num)

(* Does decrypt return the plaintext, and the state it leaves. *)
decrypts(s, m, fresh) ==
    LET u == try_skipped_keys(s, m)
        c == OnChain(u, m, fresh)
    IN ~ Seen(s, m) /\ (OpensSkipped(s, m) \/ c.chain_key_recv = m.key)

after_decrypt(s, m, fresh) ==
    LET u == try_skipped_keys(s, m)
        c == OnChain(u, m, fresh)
        advanced == [c EXCEPT !.chain_key_recv = kdf_ck(@)]
    IN IF Seen(s, m) THEN s
       ELSE IF OpensSkipped(s, m) THEN MarkReceived(u, m)
       ELSE IF c.chain_key_recv = None THEN c
       ELSE IF c.chain_key_recv = m.key
            THEN MarkReceived([advanced EXCEPT !.recv_count = @ + 1], m)
            ELSE advanced

(* Whether decrypt draws a new key pair. *)
DrawsKey(s, m) == ~ Seen(s, m) /\ ~ OpensSkipped(s, m) /\ NewRemote(s, m)
=============================================================================
