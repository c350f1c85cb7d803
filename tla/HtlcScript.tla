----------------------------- MODULE HtlcScript -----------------------------
(***************************************************************************)
(* The witness script of src/liquid/htlc.rs, instruction by instruction,   *)
(* with its reader.  A pushed datum is the sequence of its bytes.  A byte  *)
(* has Byte values (256 in the code): a small Byte brings the bounds of a  *)
(* lock height (four bytes) and the sign bit within reach of TLC.          *)
(***************************************************************************)
EXTENDS Integers, SequencesExt

CONSTANTS
    Byte,           \* number of values of a byte
    MaxPushNum,     \* largest number with an opcode of its own (16 in the code)
    NoSpec          \* parse_witness_script's Err

ASSUME ByteAssumption ==
    /\ Byte \in Nat /\ Byte > 2 /\ Byte % 2 = 0
    /\ MaxPushNum \in 1..(Byte \div 2 - 1)

MaxU32 == Byte * Byte * Byte * Byte - 1      \* u32::MAX
U32 == 0..MaxU32
SaturatingAdd(a, b) == Min({a + b, MaxU32})

Op(name) == [op |-> name, data |-> <<>>]
push_slice(bytes) == [op |-> "PUSHBYTES", data |-> bytes]

-----------------------------------------------------------------------------
(* Script numbers: little endian, the top bit of the last byte is the sign. *)

\* n without its lowest bytes: none of them, one, and so on to four.
Shifts(n) ==
    LET n1 == n \div Byte   n2 == n1 \div Byte   n3 == n2 \div Byte   n4 == n3 \div Byte
    IN <<n, n1, n2, n3, n4>>

\* Variant: no byte is added for the sign.
build_scriptint_unsigned(n) ==
    LET rest == Shifts(n)
        len == IF n = 0 THEN 0
               ELSE CHOOSE k \in 1..5 : /\ rest[k] < Byte
                                        /\ k > 1 => rest[k - 1] >= Byte
    IN [i \in 1..len |-> rest[i] % Byte]

\* The fewest bytes that leave the sign bit of a number n >= 0 clear.
build_scriptint(n) ==
    LET rest == Shifts(n)
        len == IF n = 0 THEN 0
               ELSE CHOOSE k \in 1..5 : /\ 2 * rest[k] < Byte
                                        /\ k > 1 => 2 * rest[k - 1] >= Byte
    IN [i \in 1..len |-> rest[i] % Byte]

push_int(n) ==
    IF n \in 1..MaxPushNum THEN [op |-> "PUSHNUM", data |-> <<n>>]
                           ELSE push_slice(build_scriptint(n))

\* What at most eight bytes come to.
Magnitude(bytes) ==
    LET At(i) == IF i \in DOMAIN bytes THEN bytes[i] ELSE 0 IN
    At(1) + Byte * (At(2) + Byte * (At(3) + Byte * (At(4) + Byte * (At(5) +
        Byte * (At(6) + Byte * (At(7) + Byte * At(8)))))))

\* Variant: the sign bit is taken for a digit.
decode_script_num_unsigned(bytes) == Magnitude(bytes)

decode_script_num(bytes) ==
    IF bytes = <<>> THEN 0
    ELSE LET negative == bytes[Len(bytes)] >= Byte \div 2
             value == Magnitude([bytes EXCEPT ![Len(bytes)] = @ % (Byte \div 2)])
         IN IF negative THEN -value ELSE value

\* instructions_minimal refuses a push of a number that has an opcode.
IsMinimalPush(bytes) ==
    Len(bytes) = 1 => bytes[1] \notin (1..MaxPushNum) \cup {Byte \div 2 + 1}

-----------------------------------------------------------------------------
(* HtlcSpec::witness_script and HtlcSpec::parse_witness_script.            *)

witness_script(spec) ==
    << Op("IF"),
       Op("SIZE"), push_int(32), Op("EQUALVERIFY"),
       Op("SHA256"), push_slice(spec.payment_hash), Op("EQUALVERIFY"),
       Op("DUP"), Op("HASH160"), push_slice(spec.claimer_pubkey_hash160),
       Op("EQUALVERIFY"), Op("CHECKSIG"),
       Op("ELSE"),
       push_int(spec.refund_lock_height), Op("CLTV"), Op("DROP"),
       Op("DUP"), Op("HASH160"), push_slice(spec.refunder_pubkey_hash160),
       Op("EQUALVERIFY"), Op("CHECKSIG"),
       Op("ENDIF") >>

\* What the reader expects of each instruction.
Shape == << "IF", "SIZE", "number", "EQUALVERIFY", "SHA256", "push32", "EQUALVERIFY",
            "DUP", "HASH160", "push20", "EQUALVERIFY", "CHECKSIG", "ELSE",
            "number", "CLTV", "DROP", "DUP", "HASH160", "push20", "EQUALVERIFY",
            "CHECKSIG", "ENDIF" >>

IsPush(instruction, len) ==
    instruction.op = "PUSHBYTES" /\ Len(instruction.data) = len

\* next_instruction, expect_op, parse_script_num and expect_push.
Expected(instruction, what) ==
    \/ instruction = Op(what)
    \/ /\ what = "number"
       /\ \/ instruction.op = "PUSHNUM"
          \/ /\ instruction.op = "PUSHBYTES" /\ Len(instruction.data) <= 8
             /\ IsMinimalPush(instruction.data)
    \/ what = "push32" /\ IsPush(instruction, 32)
    \/ what = "push20" /\ IsPush(instruction, 20)

parse_witness_script(script) ==
    IF /\ Len(script) = Len(Shape)
       /\ \A i \in DOMAIN Shape : Expected(script[i], Shape[i])
       /\ decode_script_num(script[3].data) = 32
       /\ decode_script_num(script[14].data) \in U32
    THEN [payment_hash |-> script[6].data,
          claimer_pubkey_hash160 |-> script[10].data,
          refunder_pubkey_hash160 |-> script[19].data,
          refund_lock_height |-> decode_script_num(script[14].data)]
    ELSE NoSpec

-----------------------------------------------------------------------------
(* pubkey_hash160_from_p2wpkh_script: OP_0 and a push of 20 bytes.         *)

pubkey_hash160_from_p2wpkh_script(script) ==
    IF Len(script) = 2 /\ script[1] = push_slice(<<>>) /\ IsPush(script[2], 20)
    THEN script[2].data ELSE NoSpec
=============================================================================
