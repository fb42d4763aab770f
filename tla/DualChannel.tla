----------------------------- MODULE DualChannel -----------------------------
(***************************************************************************)
(* The two ends of the secure channel, each a DualChannelCrypto            *)
(* (daemon/core/crypto/stream_cipher.cpp): a DoubleRatchet for control     *)
(* messages and a StreamCipher, keyed from it, for data.  Every method     *)
(* holds the object's mutex, so each is one step.  Whatever an end sends   *)
(* may arrive any number of times, in any order, or never.                 *)
(***************************************************************************)
EXTENDS DoubleRatchet, FiniteSets

CONSTANTS MaxMessages, MaxKeys, MaxDeliveries, MaxChunks   \* bounds

VARIABLES
    control,        \* control_channel_ of each end
    data,           \* data_channel_ of each end: current_key_, previous_key_
    network,        \* the control messages sent so far
    accepted,       \* history: the messages each end has decrypted
    replayed,       \* history: those it decrypted more than once
    disturbances,   \* history: what happened beyond loss, delay and reordering
    chunks,         \* the data chunks sent so far
    keys,           \* key pairs drawn so far
    deliveries

vars == <<control, data, network, accepted, replayed, disturbances, chunks, keys, deliveries>>

Ends == {"initiator", "responder"}
Peer(e) == CHOOSE p \in Ends : p # e

ASSUME ChannelBounds ==
    {MaxMessages, MaxDeliveries, MaxChunks} \subseteq Nat /\ MaxKeys \in Nat \ {0, 1}

StreamKey(smk, gen) == [key |-> <<smk, gen>>, generation |-> gen]
NoStream == [current_key |-> None, previous_key |-> None]
get_key_generation(d) == IF d.current_key = None THEN 0 ELSE d.current_key.generation

init_stream(smk, gen) == [current_key |-> StreamKey(smk, gen), previous_key |-> None]
update_key(d, smk, gen) == [current_key |-> StreamKey(smk, gen), previous_key |-> d.current_key]

(* sync_data_channel_key: the cipher follows the ratchet, never back. *)
sync_data_channel_key(d, s) ==
    LET gen == s.session_key_generation
    IN IF gen <= get_key_generation(d) THEN d
       ELSE IF get_key_generation(d) = 0 THEN init_stream(s.session_master_key, gen)
       ELSE update_key(d, s.session_master_key, gen)

(* Key pair 1 is the responder's signed one, 2 the initiator's first. *)
Init ==
    LET alice == init_alice(2, 1)
    IN /\ control = [e \in Ends |-> IF e = "initiator" THEN alice ELSE init_bob(1)]
       /\ data = [e \in Ends |->
                    IF e = "initiator" THEN sync_data_channel_key(NoStream, alice) ELSE NoStream]
       /\ network = {} /\ chunks = {}
       /\ accepted = [e \in Ends |-> {}]
       /\ replayed = {}
       /\ disturbances = {}
       /\ keys = 2
       /\ deliveries = 0

(* What end e makes of its ratchet and its cipher. *)
Becomes(e, s) ==
    /\ control' = [control EXCEPT ![e] = s]
    /\ data' = [data EXCEPT ![e] = sync_data_channel_key(@, s)]

(* encrypt_control; sealing may fail for want of randomness or memory, after the
   chain has moved, and nothing is sent or synchronised then.  BOUND: MaxMessages. *)
EncryptControl(e) ==
    /\ CanEncrypt(control[e])
    /\ Cardinality(network) < MaxMessages
    /\ network' = network \cup {encrypted(control[e], Peer(e))}
    /\ Becomes(e, after_encrypt(control[e], TRUE))
    /\ UNCHANGED <<accepted, replayed, disturbances, chunks, keys, deliveries>>

EncryptFails(e) ==
    /\ CanEncrypt(control[e])
    /\ "seal" \notin disturbances
    /\ control' = [control EXCEPT ![e] = after_encrypt(@, FALSE)]
    /\ disturbances' = disturbances \cup {"seal"}
    /\ UNCHANGED <<data, network, accepted, replayed, chunks, keys, deliveries>>

(* What a delivery disturbs: a message of a DH key its sender has left behind, whose
   message key is not kept; more than MAX_SKIP keys to keep. *)
Disturbs(e, m) ==
    LET s == control[e]
        before == try_skipped_keys(s, m)
        rest == IF NewRemote(s, m) /\ s.chain_key_recv # None
                THEN m.prev_chain_len - s.recv_count ELSE 0
        from == IF NewRemote(s, m) THEN 0 ELSE s.recv_count
        gap == m.message_num - from
        Positive(n) == IF n > 0 THEN n ELSE 0
    IN {d \in {"stale", "gap"} :
          /\ ~ Seen(s, m) /\ ~ OpensSkipped(s, m)
          /\ d = "stale" => s.dh_remote # None /\ m.dh_public < s.dh_remote
          /\ d = "gap" =>
                Len(before.skipped_keys) + Positive(rest) + Positive(gap) > MAX_SKIP}

(* decrypt_control; the cipher follows only when the message opens.
   BOUNDS: MaxDeliveries, MaxKeys. *)
DecryptControl(e, m) ==
    LET s == control[e]
        t == after_decrypt(s, m, keys + 1)
    IN /\ m.to = e
       /\ deliveries < MaxDeliveries
       /\ deliveries' = deliveries + 1
       /\ DrawsKey(s, m) => keys < MaxKeys
       /\ keys' = keys + (IF DrawsKey(s, m) THEN 1 ELSE 0)
       /\ control' = [control EXCEPT ![e] = t]
       /\ IF decrypts(s, m, keys + 1)
          THEN /\ data' = [data EXCEPT ![e] = sync_data_channel_key(@, t)]
               /\ accepted' = [accepted EXCEPT ![e] = @ \cup {m}]
               /\ replayed' = replayed \cup (accepted[e] \cap {m})
          ELSE UNCHANGED <<data, accepted, replayed>>
       /\ disturbances' = disturbances \cup Disturbs(e, m)
       /\ UNCHANGED <<network, chunks>>

(* rotate_keys.  BOUND: MaxKeys. *)
RotateKeys(e) ==
    /\ CanForce(control[e])
    /\ keys < MaxKeys
    /\ keys' = keys + 1
    /\ Becomes(e, force_ratchet_step(control[e], keys + 1))
    /\ disturbances' = disturbances \cup {"forced"}
    /\ UNCHANGED <<network, accepted, replayed, chunks, deliveries>>

(* encrypt_data under the current key.  When its age or volume calls for rotation,
   encrypt_data first does what rotate_keys does.  BOUND: MaxChunks. *)
EncryptData(e) ==
    /\ data[e].current_key # None
    /\ Cardinality(chunks) < MaxChunks
    /\ chunks' = chunks \cup {[to |-> Peer(e), from |-> data[e].current_key]}
    /\ UNCHANGED <<control, data, network, accepted, replayed, disturbances, keys, deliveries>>

RotateAndEncryptData(e) ==
    /\ data[e].current_key # None
    /\ CanForce(control[e])
    /\ keys < MaxKeys
    /\ Cardinality(chunks) < MaxChunks
    /\ keys' = keys + 1
    /\ Becomes(e, force_ratchet_step(control[e], keys + 1))
    /\ chunks' = chunks \cup {[to |-> Peer(e), from |-> data'[e].current_key]}
    /\ disturbances' = disturbances \cup {"forced"}
    /\ UNCHANGED <<network, accepted, replayed, deliveries>>

(* decrypt_data changes nothing: the key of the chunk's generation opens it or not. *)
KeyFor(d, c) ==
    {k \in {d.current_key, d.previous_key} : k # None /\ k.generation = c.from.generation}
decrypt_data(d, c) == \E k \in KeyFor(d, c) : k = c.from

Next ==
    \/ \E e \in Ends :
          \/ EncryptControl(e) \/ EncryptFails(e)
          \/ \E m \in network : DecryptControl(e, m)
          \/ RotateKeys(e) \/ EncryptData(e) \/ RotateAndEncryptData(e)

Spec == Init /\ [][Next]_vars

-----------------------------------------------------------------------------

StreamKeys(d) == {d.current_key, d.previous_key} \ {None}

(* Types: counters and the store of skipped keys stay in their ranges, and each
   end's cipher never runs ahead of its ratchet. *)
TypeOK ==
    /\ \A e \in Ends :
          /\ {control[e].send_count, control[e].recv_count, control[e].prev_send_count,
              control[e].session_key_generation} \subseteq Nat
          /\ Len(control[e].skipped_keys) <= MAX_SKIP
          /\ \A k \in StreamKeys(data[e]) : k.generation <= control[e].session_key_generation
          /\ accepted[e] \subseteq network
    /\ keys \in 2 .. MaxKeys /\ deliveries \in 0 .. MaxDeliveries

(* However messages are delayed, repeated and reordered, decrypt returns the
   plaintext of each one at most once - although the replay records of a DH key are
   dropped with the next ratchet step, and skipped keys outlive them. *)
AcceptedOnce == replayed = {}

(* Loss, delay and reordering within MAX_SKIP never cost a message that arrives:
   whatever was sent and has not been decrypted yet would decrypt now, unless more
   than MAX_SKIP keys had to be kept for it. *)
FirstDeliveryAccepted ==
    disturbances = {} =>
        \A e \in Ends : \A m \in network :
            m.to = e /\ m \notin accepted[e] /\ "gap" \notin Disturbs(e, m)
                => decrypts(control[e], m, keys + 1)

(* Each message key seals one message: whatever is repeated, forced or fails to seal, no
   two control messages, of one end or of both, are ever sent under one key. *)
KeysUsedOnce == \A m, n \in network : m.key = n.key => m = n

(* Of the two roots, one is the other and one step more, whatever was lost, failed
   to seal or was skipped too far - so the channel recovers with the next ratchet
   step - unless a step was forced or an old message repeated. *)
RootsInStep ==
    disturbances \cap {"forced", "stale"} = {} =>
        LET a == control["initiator"].root_key
            b == control["responder"].root_key
        IN \/ Len(a) = Len(b) + 1 /\ SubSeq(a, 1, Len(b)) = b
           \/ Len(b) = Len(a) + 1 /\ SubSeq(b, 1, Len(a)) = a

-----------------------------------------------------------------------------
(* "Force key rotation (triggers DH ratchet step)": a rotation of one end leaves
   the control channel usable. *)
RotationKeepsChannel ==
    disturbances \subseteq {"forced"} =>
        \A e \in Ends : \A m \in network :
            m.to = e /\ m \notin accepted[e] /\ "gap" \notin Disturbs(e, m)
                => decrypts(control[e], m, keys + 1)

(* "Uses AES-256-GCM with key derived from Double Ratchet session master key": an
   end that has a key of a chunk's generation can read the chunk. *)
DataReadable ==
    disturbances = {} =>
        \A e \in Ends : \A c \in chunks :
            c.to = e /\ KeyFor(data[e], c) # {} => decrypt_data(data[e], c)
=============================================================================
