-------------------------- MODULE DecodeTransaction ---------------------------
(***************************************************************************)
(* Which transactions the two servers take, by their size: the limits of   *)
(* decode_transaction (src/src/vendor/solana_rpc.rs), which must tell a v1 *)
(* transaction from an older one by two characters of its text, the limit  *)
(* on a QUIC stream and the limit on the body of a JSON-RPC request.       *)
(*                                                                         *)
(* A transaction is its length and its first two bytes.  A text is its     *)
(* length, whether it is well formed, its first two characters (base64),   *)
(* and the length of what it stands for.                                   *)
(***************************************************************************)
EXTENDS Integers

CONSTANTS
    Sizes,    \* lengths of transactions, in bytes
    Bytes,    \* values of their first two bytes
    Overhead  \* length of the JSON around the text of a transaction

ASSUME DecodeAssumption ==
    /\ Sizes \subseteq Nat
    /\ Bytes \subseteq 0..255
    /\ Overhead \in 0..(8 * 1024 - 5464)

PACKET_DATA_SIZE == 1232      \* solana_packet
MAX_TRANSACTION_SIZE == 4096  \* solana_message::v1
V1_PREFIX == 129              \* solana_message::v1
MAX_BASE58_SIZE == 1683
MAX_BASE64_SIZE == 5464
MAX_BASE64_LEGACY_SIZE == 1644
V1_BASE64_PREFIX_LOWER_BOUND == <<103, 81>>  \* b"gQ"
QUIC_MAX_SIZE == MAX_TRANSACTION_SIZE + 64
MaxRequestBodySize == 8 * 1024

\* Transactions, well formed or not.  A legacy or v0 transaction begins with
\* the number of its signatures, a v1 transaction with V1_PREFIX.
Transactions == [size : Sizes, first : Bytes, second : Bytes]

IsV1(tx) == tx.size > 0 /\ tx.first = V1_PREFIX
IsLegacy(tx) == tx.size > 0 /\ tx.first \in 1..127

-------------------------------------------------------------------------------
(* What clients send. *)

\* The character of the base64 alphabet for six bits: A-Z, a-z, 0-9, +, /.
Base64Char(bits) ==
    CASE bits < 26 -> 65 + bits
      [] bits \in 26..51 -> 71 + bits
      [] bits \in 52..61 -> bits - 4
      [] bits = 62 -> 43
      [] OTHER -> 47

\* BASE64_STANDARD.encode.
Base64(tx) ==
    [encoding |-> "base64", valid |-> TRUE, size |-> tx.size,
     len |-> 4 * ((tx.size + 2) \div 3),
     prefix |-> <<Base64Char(tx.first \div 4),
                  Base64Char((tx.first % 4) * 16
                                + (IF tx.size > 1 THEN tx.second \div 16 ELSE 0))>>]

\* bs58::encode: a leading zero byte becomes one character; otherwise n bytes
\* become as many digits of base 58 as their value needs, 5281/3867
\* being log 256 / log 58 closely enough for every n up to 4990.
Base58Lengths(tx) ==
    IF tx.size = 0 THEN {0}
    ELSE (IF tx.first = 0 THEN tx.size ELSE ((tx.size - 1) * 5281) \div 3867 + 1)
             .. ((tx.size * 5281) \div 3867 + 1)
Base58(tx, len) ==
    [encoding |-> "base58", valid |-> TRUE, size |-> tx.size, len |-> len, prefix |-> <<0, 0>>]

\* wincode::serialize of a TransactionPacket: eight bytes of length, the
\* bytes, the flag, and an optional u16.
Packet(tx, retry) ==
    [encoding |-> "quic", valid |-> TRUE, size |-> tx.size,
     len |-> 8 + tx.size + 1 + (IF retry THEN 3 ELSE 1), prefix |-> <<0, 0>>]

\* What a client may send over JSON-RPC; a damaged text keeps its length and
\* stands for nothing.
Texts(tx) ==
    LET whole == {Base64(tx)} \cup {Base58(tx, len) : len \in Base58Lengths(tx)}
    IN  {[text EXCEPT !.valid = valid] : text \in whole, valid \in BOOLEAN}

-------------------------------------------------------------------------------
(* What the servers do with it. *)

\* Rust's order on byte slices of length two.
AtLeast(p, q) == p[1] > q[1] \/ (p[1] = q[1] /\ p[2] >= q[2])

\* encoded.get(..2).is_some_and(|prefix| prefix >= V1_BASE64_PREFIX_LOWER_BOUND)
LooksLikeV1(r) == r.len >= 2 /\ AtLeast(r.prefix, V1_BASE64_PREFIX_LOWER_BOUND)

\* The limit on the text and the limit on what it stands for.
Limits(r) ==
    IF r.encoding = "base58" THEN <<MAX_BASE58_SIZE, PACKET_DATA_SIZE>>
    ELSE IF LooksLikeV1(r) THEN <<MAX_BASE64_SIZE, MAX_TRANSACTION_SIZE>>
    ELSE <<MAX_BASE64_LEGACY_SIZE, PACKET_DATA_SIZE>>

\* The size of the text is looked at before it is decoded.
decode_transaction(r) ==
    IF r.len > Limits(r)[1] \/ ~r.valid \/ r.size > Limits(r)[2] THEN "error" ELSE "ok"

\* jsonrpsee reads the body of the request, sendTransaction decodes.
ServeRpc(r) ==
    IF r.len + Overhead > MaxRequestBodySize THEN "error" ELSE decode_transaction(r)

\* handle_uni_stream: read_to_end(QUIC_MAX_SIZE), wincode::deserialize.
ServeQuic(r) == IF r.len > QUIC_MAX_SIZE \/ ~r.valid THEN "error" ELSE "ok"

-------------------------------------------------------------------------------
(* Properties. *)

\* The largest transaction of the version a transaction says it has.
Limit(tx) == IF IsV1(tx) THEN MAX_TRANSACTION_SIZE ELSE PACKET_DATA_SIZE

\* Two characters of text are enough: sent as base64, a v1 transaction is
\* taken exactly up to 4096 bytes and a legacy or v0 one exactly up to 1232,
\* for every value of the bytes behind the first (decode_transaction).
Base64Exact ==
    \A tx \in Transactions :
        IsV1(tx) \/ IsLegacy(tx)
            => (ServeRpc(Base64(tx)) = "ok" <=> tx.size <= Limit(tx))

\* Sent as base58, a transaction of either version is taken exactly up to
\* 1232 bytes, whatever number of digits its value needs.
Base58Exact ==
    \A tx \in Transactions : \A len \in Base58Lengths(tx) :
        ServeRpc(Base58(tx, len)) = "ok" <=> tx.size <= PACKET_DATA_SIZE

\* QUIC takes every transaction of a legal size, with or without max_retry.
QuicTakesAll ==
    \A tx \in Transactions, retry \in BOOLEAN :
        tx.size <= Limit(tx) => ServeQuic(Packet(tx, retry)) = "ok"

\* Whatever the bytes and the text, JSON-RPC hands on nothing that is larger
\* than the largest transaction, and nothing from a text that stands for
\* nothing.
Bounded ==
    \A tx \in Transactions : \A text \in Texts(tx) :
        ServeRpc(text) = "ok" => text.valid /\ tx.size <= MAX_TRANSACTION_SIZE
===============================================================================
