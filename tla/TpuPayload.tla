------------------------------ MODULE TpuPayload ------------------------------
(***************************************************************************)
(* The byte format in which a transaction travels through the TPU client's *)
(* channel (TpuClientPayload in src/src/tpu_next_client.rs): the wire      *)
(* transaction followed by one byte of batch flags.  The empty message is  *)
(* never a payload; the flush task sends it to wake the broadcaster up.    *)
(*                                                                         *)
(* A message is a sequence of naturals.  The letters of the wire           *)
(* transaction itself are opaque: no line of the program looks at them     *)
(* between `new` and the network.                                          *)
(***************************************************************************)
EXTENDS Integers, Sequences

\* BatchFlags::MEV_PROTECTED, the only flag.
MEV_PROTECTED == 1

\* The message of the flush task, Bytes::new().
Flush == << >>

\* Forgets the flag byte when there is no flag to set.
Mutant_new(wire, mev_protect) ==
    IF mev_protect THEN Append(wire, MEV_PROTECTED) ELSE wire

\* TpuClientPayload::new followed by into_encoded.
new(wire, mev_protect) ==
    Append(wire, IF mev_protect THEN MEV_PROTECTED ELSE 0)

\* TpuClientPayload::decode returns Some exactly for these messages.
decode(encoded) == encoded # Flush

\* Looks for the flag in the first byte.
Mutant_is_mev_protected(encoded) ==
    encoded # Flush /\ encoded[1] % 2 = MEV_PROTECTED

\* from_bits_truncate keeps the known bit 0 of the last byte.
is_mev_protected(encoded) ==
    encoded # Flush /\ encoded[Len(encoded)] % 2 = MEV_PROTECTED

wire_transaction(encoded) == SubSeq(encoded, 1, Len(encoded) - 1)
===============================================================================
