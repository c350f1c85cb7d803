-------------------------- MODULE HtlcSpendProofs --------------------------
(***************************************************************************)
(* What holds of one HTLC for every range of bytes and heights, every      *)
(* offer, every key, every asset and every order of the outputs: the       *)
(* reader reads what the writer wrote, the row has the HTLC's outputs, the *)
(* refund path opens no earlier than the offer says, and the network's     *)
(* verdict, one opcode after the other, is the rule of LiquidChain.        *)
(***************************************************************************)
EXTENDS HtlcSpend, SequenceTheorems, TLAPS

-----------------------------------------------------------------------------
(* Script numbers.                                                         *)

\* Division by the number of values of a byte.
LEMMA DivMod ==
    ASSUME NEW x \in Nat
    PROVE  /\ x \div Byte \in Nat /\ x % Byte \in 0..(Byte - 1)
           /\ x = (x % Byte) + Byte * (x \div Byte)
BY ByteAssumption

\* One byte less, one factor less.
LEMMA DivShrinks ==
    ASSUME NEW x \in Nat, NEW m \in Nat, x < Byte * m
    PROVE  x \div Byte < m
BY DivMod, ByteAssumption

\* A number that fits a byte is its own lowest byte.
LEMMA DivSmall ==
    ASSUME NEW x \in Nat
    PROVE  /\ x \div Byte <= x
           /\ x < Byte => x % Byte = x
BY DivMod, ByteAssumption

\* The sign bit is half the values of a byte.
LEMMA HalfByte ==
    /\ Byte \div 2 \in Nat /\ 2 * (Byte \div 2) = Byte /\ Byte >= 4
    /\ \A x \in Nat : 2 * x < Byte => x < Byte \div 2 /\ x % (Byte \div 2) = x
BY ByteAssumption

\* The digits.
LEMMA ShiftsAre ==
    ASSUME NEW n \in U32
    PROVE  LET rest == Shifts(n) IN
           /\ rest[1] = n /\ rest[5] = 0
           /\ \A k \in 1..5 : rest[k] \in Nat
           /\ \A k \in 1..4 : /\ rest[k + 1] <= rest[k]
                             /\ rest[k] = (rest[k] % Byte) + Byte * rest[k + 1]
<1> DEFINE n1 == n \div Byte
           n2 == n1 \div Byte
           n3 == n2 \div Byte
           n4 == n3 \div Byte
<1>1. n \in Nat /\ Byte \in Nat /\ n < Byte * (Byte * (Byte * Byte))
  BY ByteAssumption DEF U32, MaxU32
<1>2. n1 \in Nat /\ n2 \in Nat /\ n3 \in Nat /\ n4 \in Nat
  BY <1>1, DivMod
<1>3. Byte * Byte \in Nat /\ Byte * (Byte * Byte) \in Nat
  BY <1>1
<1>4. n1 < Byte * (Byte * Byte)
  BY <1>1, <1>3, DivShrinks
<1>5. n2 < Byte * Byte
  BY <1>2, <1>3, <1>4, DivShrinks
<1>6. n3 < Byte
  BY <1>1, <1>2, <1>5, DivShrinks
<1>7. n4 = 0
  <2>1. n3 < Byte * 1
    BY <1>1, <1>6
  <2> QED
    BY <1>2, <2>1, DivShrinks
<1>8. /\ n = (n % Byte) + Byte * n1 /\ n1 = (n1 % Byte) + Byte * n2
      /\ n2 = (n2 % Byte) + Byte * n3 /\ n3 = (n3 % Byte) + Byte * n4
      /\ n1 <= n /\ n2 <= n1 /\ n3 <= n2 /\ n4 <= n3
  BY <1>1, <1>2, DivMod, DivSmall
<1>9. Shifts(n) = <<n, n1, n2, n3, n4>>
  BY DEF Shifts
<1> HIDE DEF n1, n2, n3, n4
<1> QED
  BY <1>1, <1>2, <1>7, <1>8, <1>9

\* The number is written in k bytes, the last of them below the sign bit.
WrittenIn(n, k) ==
    /\ 2 * Shifts(n)[k] < Byte
    /\ k > 1 => 2 * Shifts(n)[k - 1] >= Byte
    /\ build_scriptint(n) = [i \in 1..k |-> Shifts(n)[i] % Byte]

\* build_scriptint: such a number of bytes exists, and is the one chosen.
LEMMA ScriptintIs ==
    ASSUME NEW n \in U32, n # 0
    PROVE  \E k \in 1..5 : WrittenIn(n, k)
<1>1. PICK rest : rest = Shifts(n)
  OBVIOUS
<1> DEFINE IsLast(k) == 2 * rest[k] < Byte /\ (k > 1 => 2 * rest[k - 1] >= Byte)
<1>2. IsLast(5) \/ IsLast(4) \/ IsLast(3) \/ IsLast(2) \/ IsLast(1)
  <2>1. /\ rest[5] = 0
        /\ rest[4] \in Nat /\ rest[3] \in Nat /\ rest[2] \in Nat /\ rest[1] \in Nat
    BY <1>1, ShiftsAre
  <2> QED
    BY <2>1, ByteAssumption
<1>3. \E k \in 1..5 : IsLast(k)
  BY <1>2
<1> DEFINE len == CHOOSE k \in 1..5 : IsLast(k)
<1>4. len \in 1..5 /\ IsLast(len)
  BY <1>3
<1>5. build_scriptint(n) = [i \in 1..len |-> rest[i] % Byte]
  BY <1>1 DEF build_scriptint
<1> HIDE DEF len
<1>6. WrittenIn(n, len)
  BY <1>1, <1>4, <1>5, Zenon DEF WrittenIn
<1> QED
  BY <1>4, <1>6

\* Zero is pushed as no bytes.
LEMMA ZeroIsEmpty == build_scriptint(0) = <<>>
BY DEF build_scriptint

\* The digits come to the number.
LEMMA MagnitudeIs ==
    ASSUME NEW n \in U32, NEW k \in 1..5, NEW bytes,
           bytes = [i \in 1..k |-> Shifts(n)[i] % Byte], Shifts(n)[k] < Byte
    PROVE  Magnitude(bytes) = n
<1>1. PICK rest : rest = Shifts(n)
  OBVIOUS
<1>2. /\ rest[1] = n
      /\ rest[1] \in Nat /\ rest[2] \in Nat /\ rest[3] \in Nat
      /\ rest[4] \in Nat /\ rest[5] \in Nat
      /\ rest[1] = (rest[1] % Byte) + Byte * rest[2]
      /\ rest[2] = (rest[2] % Byte) + Byte * rest[3]
      /\ rest[3] = (rest[3] % Byte) + Byte * rest[4]
      /\ rest[4] = (rest[4] % Byte) + Byte * rest[5]
  BY <1>1, ShiftsAre
<1>3. rest[k] % Byte = rest[k]
  BY <1>1, <1>2, DivSmall
<1> DEFINE At(i) == IF i \in DOMAIN bytes THEN bytes[i] ELSE 0
<1>4. \A i \in 1..8 : At(i) = IF i <= k THEN rest[i] % Byte ELSE 0
  BY <1>1
<1>5. Magnitude(bytes) =
        At(1) + Byte * (At(2) + Byte * (At(3) + Byte * (At(4) + Byte * (At(5) +
        Byte * (At(6) + Byte * (At(7) + Byte * At(8)))))))
  BY DEF Magnitude
<1> HIDE DEF At
<1>6. At(6) = 0 /\ At(7) = 0 /\ At(8) = 0
  BY <1>4
<1>7. Byte * 0 = 0 /\ 0 + 0 = 0
  BY ByteAssumption
<1>8. At(6) + Byte * (At(7) + Byte * At(8)) = 0
  BY <1>6, <1>7
<1>9. CASE k = 5
  <2>1. At(5) + Byte * 0 = rest[5]
    BY <1>2, <1>3, <1>4, <1>7, <1>9
  <2>2. At(4) + Byte * rest[5] = rest[4] /\ At(3) + Byte * rest[4] = rest[3]
        /\ At(2) + Byte * rest[3] = rest[2] /\ At(1) + Byte * rest[2] = rest[1]
    BY <1>2, <1>4, <1>9
  <2> QED
    BY <1>2, <1>5, <1>8, <2>1, <2>2
<1>10. CASE k = 4
  <2>1. At(5) + Byte * 0 = 0 /\ At(4) + Byte * 0 = rest[4]
    BY <1>2, <1>3, <1>4, <1>7, <1>10
  <2>2. At(3) + Byte * rest[4] = rest[3]
        /\ At(2) + Byte * rest[3] = rest[2] /\ At(1) + Byte * rest[2] = rest[1]
    BY <1>2, <1>4, <1>10
  <2> QED
    BY <1>2, <1>5, <1>8, <2>1, <2>2
<1>11. CASE k = 3
  <2>1. At(5) + Byte * 0 = 0 /\ At(4) + Byte * 0 = 0 /\ At(3) + Byte * 0 = rest[3]
    BY <1>2, <1>3, <1>4, <1>7, <1>11
  <2>2. At(2) + Byte * rest[3] = rest[2] /\ At(1) + Byte * rest[2] = rest[1]
    BY <1>2, <1>4, <1>11
  <2> QED
    BY <1>2, <1>5, <1>8, <2>1, <2>2
<1>12. CASE k = 2
  <2>1. /\ At(5) + Byte * 0 = 0 /\ At(4) + Byte * 0 = 0 /\ At(3) + Byte * 0 = 0
        /\ At(2) + Byte * 0 = rest[2]
    BY <1>2, <1>3, <1>4, <1>7, <1>12
  <2>2. At(1) + Byte * rest[2] = rest[1]
    BY <1>2, <1>4, <1>12
  <2> QED
    BY <1>2, <1>5, <1>8, <2>1, <2>2
<1>13. CASE k = 1
  <2>1. /\ At(5) + Byte * 0 = 0 /\ At(4) + Byte * 0 = 0 /\ At(3) + Byte * 0 = 0
        /\ At(2) + Byte * 0 = 0 /\ At(1) + Byte * 0 = rest[1]
    BY <1>2, <1>3, <1>4, <1>7, <1>13
  <2> QED
    BY <1>2, <1>5, <1>8, <2>1
<1> QED
  BY <1>9, <1>10, <1>11, <1>12, <1>13

\* parse_script_num reads what push_int wrote, for every u32, in five bytes.
LEMMA DecodeInvertsBuild ==
    ASSUME NEW n \in U32
    PROVE  /\ decode_script_num(build_scriptint(n)) = n
           /\ Len(build_scriptint(n)) <= 5
<1>1. CASE n = 0
  BY <1>1, ZeroIsEmpty DEF decode_script_num
<1>2. CASE n # 0
  <2> PICK k \in 1..5 : WrittenIn(n, k)
    BY <1>2, ScriptintIs
  <2>1. /\ 2 * Shifts(n)[k] < Byte
        /\ build_scriptint(n) = [i \in 1..k |-> Shifts(n)[i] % Byte]
    BY Zenon DEF WrittenIn
  <2>2. PICK bytes : bytes = build_scriptint(n)
    OBVIOUS
  <2>3. PICK last : last = Shifts(n)[k]
    OBVIOUS
  <2>4. /\ last \in Nat /\ last < Byte \div 2 /\ last % (Byte \div 2) = last
        /\ last % Byte = last /\ last < Byte
    <3>1. last \in Nat /\ 2 * last < Byte
      BY <2>1, <2>3, ShiftsAre
    <3>2. last < Byte
      BY <3>1, ByteAssumption
    <3>3. last % Byte = last
      BY <3>1, <3>2, DivSmall
    <3> QED
      BY <3>1, <3>2, <3>3, HalfByte
  <2>5. Len(bytes) = k /\ bytes[k] = last /\ bytes # <<>>
    BY <2>1, <2>2, <2>3, <2>4
  <2>6. [bytes EXCEPT ![k] = @ % (Byte \div 2)] = bytes
    BY <2>1, <2>2, <2>4, <2>5
  <2>7. Magnitude(bytes) = n
    BY <2>1, <2>2, <2>3, <2>4, MagnitudeIs
  <2>8. ~(last >= Byte \div 2)
    BY <2>4, HalfByte
  <2>9. decode_script_num(bytes) = n
    BY <2>5, <2>6, <2>7, <2>8 DEF decode_script_num
  <2> QED
    BY <2>2, <2>5, <2>9
<1> QED
  BY <1>1, <1>2

\* A number below the sign bit is one byte.
LEMMA SmallIsByte ==
    ASSUME NEW n \in U32, n # 0, 2 * n < Byte
    PROVE  build_scriptint(n) = <<n>>
<1> PICK k \in 1..5 : WrittenIn(n, k)
  BY ScriptintIs
<1>1. /\ k > 1 => 2 * Shifts(n)[k - 1] >= Byte
      /\ build_scriptint(n) = [i \in 1..k |-> Shifts(n)[i] % Byte]
  BY Zenon DEF WrittenIn
<1>2. PICK rest : rest = Shifts(n)
  OBVIOUS
<1>3. /\ rest[1] \in Nat /\ rest[2] \in Nat /\ rest[3] \in Nat /\ rest[4] \in Nat
      /\ rest[1] = n /\ rest[2] <= rest[1] /\ rest[3] <= rest[2] /\ rest[4] <= rest[3]
  BY <1>2, ShiftsAre
<1>4. ASSUME k > 1 PROVE FALSE
  <2>1. rest[k - 1] <= n /\ rest[k - 1] \in Nat
    BY <1>3, <1>4
  <2> QED
    BY <1>1, <1>2, <1>3, <1>4, <2>1, ByteAssumption
<1>5. n % Byte = n
  BY <1>3, DivSmall, ByteAssumption
<1>6. k = 1
  BY <1>4
<1> QED
  BY <1>1, <1>2, <1>3, <1>5, <1>6

\* A number with an opcode of its own would be pushed as the same byte.
LEMMA PushesAreMinimal ==
    ASSUME NEW n \in U32
    PROVE  /\ push_int(n).data = build_scriptint(n)
           /\ push_int(n).op \in {"PUSHBYTES", "PUSHNUM"}
           /\ push_int(n).op = "PUSHBYTES" => IsMinimalPush(push_int(n).data)
<1>1. n \in Nat /\ Byte \div 2 \in Nat /\ 2 * (Byte \div 2) = Byte /\ Byte \in Nat
      /\ MaxPushNum \in Nat /\ MaxPushNum < Byte \div 2
  BY HalfByte, ByteAssumption DEF U32
<1>2. CASE n \in 1..MaxPushNum
  <2>1. push_int(n).data = <<n>> /\ push_int(n).op = "PUSHNUM"
    BY <1>2 DEF push_int
  <2>2. build_scriptint(n) = <<n>>
    BY <1>1, <1>2, SmallIsByte
  <2> QED
    BY <2>1, <2>2
<1>3. CASE n \notin 1..MaxPushNum
  <2>1. push_int(n) = push_slice(build_scriptint(n))
    BY <1>3 DEF push_int
  <2>2. push_int(n).data = build_scriptint(n) /\ push_int(n).op = "PUSHBYTES"
    BY <2>1 DEF push_slice
  <2>3. ASSUME Len(build_scriptint(n)) = 1
        PROVE  build_scriptint(n)[1] \notin (1..MaxPushNum) \cup {Byte \div 2 + 1}
    <3>1. n # 0
      BY <2>3, ZeroIsEmpty
    <3> PICK k \in 1..5 : WrittenIn(n, k)
      BY <3>1, ScriptintIs
    <3>2. /\ 2 * Shifts(n)[k] < Byte
          /\ build_scriptint(n) = [i \in 1..k |-> Shifts(n)[i] % Byte]
      BY Zenon DEF WrittenIn
    <3>3. k = 1
      BY <2>3, <3>2
    <3>4. Shifts(n)[1] = n
      BY ShiftsAre
    <3>5. build_scriptint(n)[1] = n /\ 2 * n < Byte
      BY <1>1, <3>2, <3>3, <3>4, DivSmall
    <3> QED
      BY <1>1, <1>3, <3>1, <3>5
  <2>4. IsMinimalPush(build_scriptint(n))
    BY <2>3 DEF IsMinimalPush
  <2> QED
    BY <2>2, <2>4
<1> QED
  BY <1>2, <1>3

\* The length that OP_SIZE compares with is within the range of numbers.
LEMMA ThirtyTwo == 32 \in U32
<1>1. Byte \in Nat /\ Byte >= 4
  BY HalfByte, ByteAssumption
<1>2. Byte * Byte >= 4 * Byte /\ Byte * Byte \in Nat
  BY <1>1
<1>3. Byte * Byte >= 16
  BY <1>1, <1>2
<1>4. Byte * Byte * Byte >= 4 * (Byte * Byte) /\ Byte * Byte * Byte \in Nat
  BY <1>1, <1>2
<1>5. Byte * Byte * Byte * Byte >= Byte * Byte * Byte /\ Byte * Byte * Byte * Byte \in Nat
  BY <1>1, <1>4
<1>6. Byte * Byte * Byte * Byte >= 64
  BY <1>3, <1>4, <1>5, <1>2
<1> QED
  BY <1>5, <1>6 DEF U32, MaxU32

-----------------------------------------------------------------------------
(* The witness script, instruction by instruction.                         *)

\* The addresses of the wallet and of the buyer give the hashes of their keys.
LEMMA AddressHashIs == ASSUME NEW key \in Key PROVE AddressHash(key) = hash160[key]
<1>1. Len(hash160[key]) = 20
  BY DigestAssumption
<1>2. PICK script : script = <<push_slice(<<>>), push_slice(hash160[key])>>
  OBVIOUS
<1>3. /\ Len(script) = 2
      /\ script[1] = push_slice(<<>>) /\ script[2] = push_slice(hash160[key])
  BY <1>2
<1>4. IsPush(script[2], 20) /\ script[2].data = hash160[key]
  BY <1>1, <1>3 DEF IsPush, push_slice
<1> QED
  BY <1>2, <1>3, <1>4 DEF AddressHash, pubkey_hash160_from_p2wpkh_script

\* The instructions of witness_script, for the terms of an HTLC.
LEMMA ScriptItems ==
    ASSUME NEW spec \in HtlcSpec, spec.refund_lock_height \in U32,
           NEW script, script = ScriptOf(spec)
    PROVE  /\ Len(script) = 22
           /\ script[1] = Op("IF") /\ script[2] = Op("SIZE")
           /\ script[3] = push_int(32) /\ script[4] = Op("EQUALVERIFY")
           /\ script[5] = Op("SHA256") /\ script[6] = push_slice(sha256[spec.payment_hash])
           /\ script[7] = Op("EQUALVERIFY") /\ script[8] = Op("DUP")
           /\ script[9] = Op("HASH160") /\ script[10] = push_slice(hash160[spec.claimer])
           /\ script[11] = Op("EQUALVERIFY") /\ script[12] = Op("CHECKSIG")
           /\ script[13] = Op("ELSE") /\ script[14] = push_int(spec.refund_lock_height)
           /\ script[15] = Op("CLTV") /\ script[16] = Op("DROP")
           /\ script[17] = Op("DUP") /\ script[18] = Op("HASH160")
           /\ script[19] = push_slice(hash160[spec.refunder])
           /\ script[20] = Op("EQUALVERIFY") /\ script[21] = Op("CHECKSIG")
           /\ script[22] = Op("ENDIF")
<1>1. spec.claimer \in Key /\ spec.refunder \in Key
  BY DEF HtlcSpec
<1>2. PICK r : r = [payment_hash |-> sha256[spec.payment_hash],
                    claimer_pubkey_hash160 |-> hash160[spec.claimer],
                    refunder_pubkey_hash160 |-> hash160[spec.refunder],
                    refund_lock_height |-> spec.refund_lock_height]
  OBVIOUS
<1>3. script = witness_script(r)
  BY <1>1, <1>2, AddressHashIs DEF ScriptOf
<1>4. /\ r.payment_hash = sha256[spec.payment_hash]
      /\ r.claimer_pubkey_hash160 = hash160[spec.claimer]
      /\ r.refunder_pubkey_hash160 = hash160[spec.refunder]
      /\ r.refund_lock_height = spec.refund_lock_height
  BY <1>2
<1> QED
  BY <1>3, <1>4 DEF witness_script

\* The opcodes of the script's instructions, and what its pushes push.
LEMMA ScriptOps ==
    ASSUME NEW spec \in HtlcSpec, spec.refund_lock_height \in U32,
           NEW script, script = ScriptOf(spec)
    PROVE  /\ script[1].op = "IF" /\ script[2].op = "SIZE"
           /\ script[3].op \in {"PUSHBYTES", "PUSHNUM"}
           /\ script[3].data = build_scriptint(32)
           /\ script[4].op = "EQUALVERIFY" /\ script[5].op = "SHA256"
           /\ script[6].op = "PUSHBYTES" /\ script[6].data = sha256[spec.payment_hash]
           /\ script[7].op = "EQUALVERIFY" /\ script[8].op = "DUP"
           /\ script[9].op = "HASH160"
           /\ script[10].op = "PUSHBYTES" /\ script[10].data = hash160[spec.claimer]
           /\ script[11].op = "EQUALVERIFY" /\ script[12].op = "CHECKSIG"
           /\ script[13].op = "ELSE"
           /\ script[14].op \in {"PUSHBYTES", "PUSHNUM"}
           /\ script[14].data = build_scriptint(spec.refund_lock_height)
           /\ script[15].op = "CLTV" /\ script[16].op = "DROP"
           /\ script[17].op = "DUP" /\ script[18].op = "HASH160"
           /\ script[19].op = "PUSHBYTES" /\ script[19].data = hash160[spec.refunder]
           /\ script[20].op = "EQUALVERIFY" /\ script[21].op = "CHECKSIG"
           /\ script[22].op = "ENDIF"
<1>1. \A name : Op(name).op = name
  BY DEF Op
<1>2. \A b : push_slice(b).op = "PUSHBYTES" /\ push_slice(b).data = b
  BY DEF push_slice
<1>3. \A n \in U32 : /\ push_int(n).op \in {"PUSHBYTES", "PUSHNUM"}
                     /\ push_int(n).data = build_scriptint(n)
  BY PushesAreMinimal
<1> QED
  BY <1>1, <1>2, <1>3, ThirtyTwo, ScriptItems

\* No opcode of a branch starts or ends one.
LEMMA InBranch ==
    ASSUME NEW spec \in HtlcSpec, spec.refund_lock_height \in U32,
           NEW script, script = ScriptOf(spec), NEW pc \in (2..12) \cup (14..21)
    PROVE  script[pc].op \notin {"IF", "ELSE", "ENDIF"}
BY ScriptOps

-----------------------------------------------------------------------------
(* The reader.                                                             *)

\* What the reader takes for each kind of instruction.
LEMMA OpIsExpected == ASSUME NEW name PROVE Expected(Op(name), name)
BY DEF Expected

\* parse_script_num takes every number that push_int writes.
LEMMA NumberIsExpected == ASSUME NEW n \in U32 PROVE Expected(push_int(n), "number")
<1>1. PICK x : x = push_int(n)
  OBVIOUS
<1>2. /\ x.data = build_scriptint(n) /\ x.op \in {"PUSHBYTES", "PUSHNUM"}
      /\ x.op = "PUSHBYTES" => IsMinimalPush(x.data)
  BY <1>1, PushesAreMinimal
<1>3. Len(x.data) <= 8
  <2>1. PICK b : b = build_scriptint(n)
    OBVIOUS
  <2>2. Len(b) <= 5 /\ Len(b) \in Int
    <3>1. CASE n = 0
      BY <2>1, <3>1, ZeroIsEmpty
    <3>2. CASE n # 0
      <4>1. PICK k \in 1..5 : WrittenIn(n, k)
        BY <3>2, ScriptintIs
      <4>2. b = [i \in 1..k |-> Shifts(n)[i] % Byte]
        BY <2>1, <4>1, Zenon DEF WrittenIn
      <4> QED
        BY <4>2
    <3> QED
      BY <3>1, <3>2
  <2> QED
    BY <1>2, <2>1, <2>2
<1>4. Expected(x, "number")
  BY <1>2, <1>3 DEF Expected
<1> QED
  BY <1>1, <1>4

\* expect_push takes a push of the length it asks for.
LEMMA PushIsExpected ==
    ASSUME NEW b
    PROVE  /\ Len(b) = 32 => Expected(push_slice(b), "push32")
           /\ Len(b) = 20 => Expected(push_slice(b), "push20")
BY DEF Expected, IsPush, push_slice

\* What Shape asks of each instruction.
LEMMA ShapeIs ==
    /\ Len(Shape) = 22 /\ DOMAIN Shape = 1..22
    /\ Shape[1] = "IF" /\ Shape[2] = "SIZE" /\ Shape[3] = "number"
    /\ Shape[4] = "EQUALVERIFY" /\ Shape[5] = "SHA256" /\ Shape[6] = "push32"
    /\ Shape[7] = "EQUALVERIFY" /\ Shape[8] = "DUP" /\ Shape[9] = "HASH160"
    /\ Shape[10] = "push20" /\ Shape[11] = "EQUALVERIFY" /\ Shape[12] = "CHECKSIG"
    /\ Shape[13] = "ELSE" /\ Shape[14] = "number" /\ Shape[15] = "CLTV"
    /\ Shape[16] = "DROP" /\ Shape[17] = "DUP" /\ Shape[18] = "HASH160"
    /\ Shape[19] = "push20" /\ Shape[20] = "EQUALVERIFY" /\ Shape[21] = "CHECKSIG"
    /\ Shape[22] = "ENDIF"
BY DEF Shape

\* The reader takes every instruction of ours.
LEMMA OursIsExpected ==
    ASSUME NEW spec \in HtlcSpec, spec.refund_lock_height \in U32,
           NEW script, script = ScriptOf(spec), NEW i \in 1..22
    PROVE  Expected(script[i], Shape[i])
<1>1. /\ Len(sha256[spec.payment_hash]) = 32
      /\ Len(hash160[spec.claimer]) = 20 /\ Len(hash160[spec.refunder]) = 20
  BY DigestAssumption DEF HtlcSpec
<1>2. CASE i \in {3, 14}
  <2>1. \E n \in U32 : script[i] = push_int(n)
    BY <1>2, ScriptItems, ThirtyTwo
  <2> QED
    BY <1>2, <2>1, ShapeIs, NumberIsExpected
<1>3. CASE i \in {6, 10, 19}
  BY <1>1, <1>3, ScriptItems, ShapeIs, PushIsExpected
<1>4. CASE i \notin {3, 6, 10, 14, 19}
  <2>1. script[i] = Op(Shape[i])
    BY <1>4, ScriptItems, ShapeIs
  <2> QED
    BY <2>1, OpIsExpected
<1> QED
  BY <1>2, <1>3, <1>4

\* What is read of our script.
LEMMA OursIsRead ==
    ASSUME NEW spec \in HtlcSpec, spec.refund_lock_height \in U32,
           NEW script, script = ScriptOf(spec)
    PROVE  parse_witness_script(script) =
              [payment_hash |-> sha256[spec.payment_hash],
               claimer_pubkey_hash160 |-> hash160[spec.claimer],
               refunder_pubkey_hash160 |-> hash160[spec.refunder],
               refund_lock_height |-> spec.refund_lock_height]
<1>1. Len(script) = Len(Shape)
  BY ScriptItems, ShapeIs
<1>2. \A i \in DOMAIN Shape : Expected(script[i], Shape[i])
  BY OursIsExpected, ShapeIs
<1>3. /\ script[3].data = build_scriptint(32)
      /\ script[14].data = build_scriptint(spec.refund_lock_height)
      /\ script[6].data = sha256[spec.payment_hash]
      /\ script[10].data = hash160[spec.claimer]
      /\ script[19].data = hash160[spec.refunder]
  BY ScriptOps
<1>4. /\ decode_script_num(script[3].data) = 32
      /\ decode_script_num(script[14].data) = spec.refund_lock_height
  BY <1>3, DecodeInvertsBuild, ThirtyTwo
<1> QED
  BY <1>1, <1>2, <1>3, <1>4 DEF parse_witness_script

\* Numbers of one and two bytes.
LEMMA MagnitudeOfTwo ==
    ASSUME NEW x \in Nat, NEW y \in Nat
    PROVE  Magnitude(<<x>>) = x /\ Magnitude(<<x, y>>) = x + Byte * y
<1>1. Byte * 0 = 0 /\ Byte \in Nat
  BY ByteAssumption
<1>2. ASSUME NEW bytes, NEW len \in 1..2, bytes = IF len = 1 THEN <<x>> ELSE <<x, y>>
      PROVE  Magnitude(bytes) = IF len = 1 THEN x ELSE x + Byte * y
  <2> DEFINE At(i) == IF i \in DOMAIN bytes THEN bytes[i] ELSE 0
  <2>1. /\ At(1) = x /\ At(2) = IF len = 1 THEN 0 ELSE y
        /\ At(3) = 0 /\ At(4) = 0 /\ At(5) = 0 /\ At(6) = 0 /\ At(7) = 0 /\ At(8) = 0
    BY <1>2
  <2>2. Magnitude(bytes) =
          At(1) + Byte * (At(2) + Byte * (At(3) + Byte * (At(4) + Byte * (At(5) +
          Byte * (At(6) + Byte * (At(7) + Byte * At(8)))))))
    BY DEF Magnitude
  <2> HIDE DEF At
  <2>3. At(3) + Byte * (At(4) + Byte * (At(5) +
          Byte * (At(6) + Byte * (At(7) + Byte * At(8))))) = 0
    BY <1>1, <2>1
  <2> QED
    BY <1>1, <2>1, <2>2, <2>3
<1>3. PICK a, b : a = <<x>> /\ b = <<x, y>>
  OBVIOUS
<1>4. Magnitude(a) = x
  BY <1>2, <1>3
<1>5. Magnitude(b) = x + Byte * y
  BY <1>2, <1>3
<1> QED
  BY <1>3, <1>4, <1>5

\* decode_script_num on one byte, with its sign.
LEMMA DecodeOne ==
    ASSUME NEW x \in 0..(Byte - 1), NEW b, b = <<x>>
    PROVE  decode_script_num(b) = IF x >= Byte \div 2 THEN -(x % (Byte \div 2)) ELSE x
<1>1. PICK half \in Nat : half = Byte \div 2 /\ half > 0 /\ Byte \in Nat
  BY HalfByte, ByteAssumption
<1>2. x % half \in Nat /\ (x < half => x % half = x)
  BY <1>1
<1>3. PICK c : c = [b EXCEPT ![Len(b)] = @ % half]
  OBVIOUS
<1>4. c = <<x % half>> /\ b # <<>> /\ b[Len(b)] = x
  BY <1>3
<1>5. Magnitude(c) = x % half
  BY <1>2, <1>4, MagnitudeOfTwo
<1> QED
  BY <1>1, <1>2, <1>3, <1>4, <1>5 DEF decode_script_num

\* decode_script_num on two bytes.
LEMMA DecodeTwo ==
    ASSUME NEW x \in 0..(Byte - 1), NEW y \in 0..(Byte - 1), NEW b, b = <<x, y>>
    PROVE  decode_script_num(b) =
              IF y >= Byte \div 2 THEN -(x + Byte * (y % (Byte \div 2))) ELSE x + Byte * y
<1>1. PICK half \in Nat : half = Byte \div 2 /\ half > 0 /\ Byte \in Nat
  BY HalfByte, ByteAssumption
<1>2. y % half \in Nat /\ (y < half => y % half = y)
  BY <1>1
<1>3. PICK c : c = [b EXCEPT ![Len(b)] = @ % half]
  OBVIOUS
<1>4. c = <<x, y % half>> /\ b # <<>> /\ b[Len(b)] = y
  BY <1>3
<1>5. Magnitude(c) = x + Byte * (y % half)
  <2>1. PICK z \in Nat, d \in Nat : z = y % half /\ d = x
    BY <1>1, <1>2
  <2>2. c = <<d, z>>
    BY <1>4, <2>1
  <2>3. Magnitude(<<d, z>>) = d + Byte * z
    BY MagnitudeOfTwo
  <2> QED
    BY <2>1, <2>2, <2>3
<1> QED
  BY <1>1, <1>2, <1>3, <1>4, <1>5 DEF decode_script_num

\* A number of two bytes, when the second is not there for nothing.
LEMMA BuildOfTwo ==
    ASSUME NEW x \in 0..(Byte - 1), NEW y \in 0..(Byte - 1), 2 * y < Byte,
           y > 0 \/ 2 * x >= Byte, NEW n \in U32, n = x + Byte * y
    PROVE  build_scriptint(n) = <<x, y>>
<1>1. Byte \in Nat /\ Byte > 2 /\ n \in Nat
  BY ByteAssumption DEF U32
<1>2. 2 * n >= Byte
  <2>1. CASE y > 0
    <3>1. Byte * y >= Byte /\ Byte * y \in Nat
      BY <1>1, <2>1
    <3> QED
      BY <1>1, <3>1
  <2>2. CASE 2 * x >= Byte
    <3>1. Byte * y \in Nat
      BY <1>1
    <3> QED
      BY <1>1, <2>2, <3>1
  <2> QED
    BY <2>1, <2>2
<1>3. n % Byte = x /\ n \div Byte = y
  BY <1>1
<1>4. PICK rest : rest = Shifts(n)
  OBVIOUS
<1>5. rest[1] = n /\ rest[2] = y
  BY <1>3, <1>4 DEF Shifts
<1>6. /\ rest[2] \in Nat /\ rest[3] \in Nat /\ rest[4] \in Nat
      /\ rest[3] <= rest[2] /\ rest[4] <= rest[3]
  BY <1>4, ShiftsAre
<1>7. n # 0
  BY <1>1, <1>2
<1>8. PICK k \in 1..5 : WrittenIn(n, k)
  BY <1>7, ScriptintIs
<1>9. /\ 2 * rest[k] < Byte /\ (k > 1 => 2 * rest[k - 1] >= Byte)
      /\ build_scriptint(n) = [i \in 1..k |-> rest[i] % Byte]
  BY <1>4, <1>8, Zenon DEF WrittenIn
<1>10. k # 1
  BY <1>1, <1>2, <1>5, <1>9
<1>11. ASSUME k > 2 PROVE FALSE
  <2>1. k - 1 \in {2, 3, 4}
    BY <1>11
  <2>2. rest[k - 1] \in Nat /\ rest[k - 1] <= y
    BY <1>5, <1>6, <2>1
  <2> QED
    BY <1>1, <1>9, <1>11, <2>2
<1>12. k = 2
  BY <1>10, <1>11
<1>13. y % Byte = y
  BY <1>1
<1> QED
  BY <1>3, <1>5, <1>9, <1>12, <1>13

\* A number of at most two bytes is read for what it is, or is padded.
LEMMA ShortNumber ==
    ASSUME NEW b \in BoundedSeq(0..(Byte - 1), 2), IsMinimalPush(b),
           decode_script_num(b) \in U32
    PROVE  push_slice(b) = push_int(decode_script_num(b)) \/ Padded(push_slice(b))
<1>1. PICK half \in Nat : /\ half = Byte \div 2 /\ 2 * half = Byte
                          /\ Byte \in Nat /\ half >= 2
                          /\ MaxPushNum \in Nat /\ MaxPushNum < half
  BY HalfByte, ByteAssumption
<1>2. PICK n \in U32 : n = decode_script_num(b)
  OBVIOUS
<1>3. n \in Nat
  BY <1>2, ByteAssumption DEF U32
<1>4. PICK p : p = push_slice(b)
  OBVIOUS
<1>5. p.op = "PUSHBYTES" /\ p.data = b
  BY <1>4 DEF push_slice
<1>6. CASE b = <<>>
  <2>1. n = 0
    BY <1>2, <1>6 DEF decode_script_num
  <2>2. push_int(n) = push_slice(build_scriptint(0))
    BY <2>1 DEF push_int
  <2> QED
    BY <1>2, <1>6, <2>2, ZeroIsEmpty
<1>7. ASSUME NEW x \in 0..(Byte - 1), b = <<x>> PROVE p = push_int(n) \/ Padded(p)
  <2>1. n = IF x >= half THEN -(x % half) ELSE x
    BY <1>1, <1>2, <1>7, DecodeOne
  <2>2. x % half = 0 => Padded(p)
    BY <1>1, <1>5, <1>7 DEF Padded
  <2>3. CASE x >= half
    <3>1. x % half = 0
      BY <1>1, <1>3, <2>1, <2>3
    <3> QED
      BY <2>2, <3>1
  <2>4. CASE x < half /\ x # 0
    <3>1. n = x /\ n # 0 /\ 2 * n < Byte
      BY <1>1, <2>1, <2>4
    <3>2. n \notin 1..MaxPushNum
      <4>1. b[1] = x /\ Len(b) = 1
        BY <1>7
      <4> QED
        BY <3>1, <4>1 DEF IsMinimalPush
    <3>3. build_scriptint(n) = b
      BY <1>7, <3>1, SmallIsByte
    <3> QED
      BY <1>4, <3>2, <3>3 DEF push_int
  <2>5. CASE x = 0
    BY <1>1, <2>2, <2>5
  <2> QED
    BY <1>1, <2>3, <2>4, <2>5
<1>8. ASSUME NEW x \in 0..(Byte - 1), NEW y \in 0..(Byte - 1), b = <<x, y>>
      PROVE  p = push_int(n) \/ Padded(p)
  <2>1. n = IF y >= half THEN -(x + Byte * (y % half)) ELSE x + Byte * y
    BY <1>1, <1>2, <1>8, DecodeTwo
  <2>2. (y % half = 0 /\ x < half) => Padded(p)
    BY <1>1, <1>5, <1>8 DEF Padded
  <2>3. CASE y >= half
    <3>1. y % half \in Nat /\ Byte * (y % half) \in Nat
      BY <1>1
    <3>2. x = 0 /\ Byte * (y % half) = 0
      BY <1>1, <1>3, <2>1, <2>3, <3>1
    <3>3. y % half = 0
      BY <1>1, <3>1, <3>2
    <3> QED
      BY <1>1, <2>2, <3>2, <3>3
  <2>4. CASE y = 0 /\ x < half
    BY <1>1, <2>2, <2>4
  <2>5. CASE y < half /\ (y > 0 \/ x >= half)
    <3>1. n = x + Byte * y /\ 2 * y < Byte /\ (y > 0 \/ 2 * x >= Byte)
      BY <1>1, <2>1, <2>5
    <3>2. build_scriptint(n) = b
      BY <1>2, <1>8, <3>1, BuildOfTwo
    <3>3. n >= half
      <4>1. CASE x >= half
        <5>1. Byte * y \in Nat
          BY <1>1
        <5> QED
          BY <1>1, <3>1, <4>1, <5>1
      <4>2. CASE y > 0
        <5>1. Byte * y \in Nat /\ Byte * y >= Byte
          BY <1>1, <4>2
        <5> QED
          BY <1>1, <3>1, <5>1
      <4> QED
        BY <2>5, <4>1, <4>2
    <3>4. n \notin 1..MaxPushNum
      BY <1>1, <1>3, <3>3
    <3> QED
      BY <1>4, <3>2, <3>4 DEF push_int
  <2> QED
    BY <1>1, <2>3, <2>4, <2>5
<1>9. \/ b = <<>>
      \/ \E x \in 0..(Byte - 1) : b = <<x>>
      \/ \E x \in 0..(Byte - 1), y \in 0..(Byte - 1) : b = <<x, y>>
  <2>1. PICK m \in 0..2 : b \in [1..m -> 0..(Byte - 1)]
    BY DEF BoundedSeq, SeqOf
  <2>2. CASE m = 0
    BY <2>1, <2>2
  <2>3. CASE m = 1
    <3>1. b = <<b[1]>> /\ b[1] \in 0..(Byte - 1)
      BY <2>1, <2>3
    <3> QED
      BY <3>1
  <2>4. CASE m = 2
    <3>1. b = <<b[1], b[2]>> /\ b[1] \in 0..(Byte - 1) /\ b[2] \in 0..(Byte - 1)
      BY <2>1, <2>4
    <3> QED
      BY <3>1
  <2> QED
    BY <2>2, <2>3, <2>4
<1> QED
  BY <1>2, <1>4, <1>6, <1>7, <1>8, <1>9

\* What is read as a number and is in the range of one, in another instruction.
LEMMA OtherNumber ==
    ASSUME NEW other \in OtherInstruction, Expected(other, "number"),
           decode_script_num(other.data) \in U32
    PROVE  other = push_int(decode_script_num(other.data)) \/ Padded(other)
<1>1. \A name : name \in {"IF", "CLTV", "DROP", "CHECKSIG"} => ~Expected(Op(name), "number")
  BY DEF Expected, Op
<1>2. ASSUME NEW b, Len(b) \in {20, 32} PROVE ~Expected(push_slice(b), "number")
  <2>1. PICK x : x = push_slice(b)
    OBVIOUS
  <2>2. x.op = "PUSHBYTES" /\ x.data = b /\ x # Op("number")
    BY <2>1 DEF push_slice, Op
  <2>3. ~(Len(b) <= 8)
    <3>1. PICK n : n = Len(b)
      OBVIOUS
    <3>2. n = 20 \/ n = 32
      BY <1>2, <3>1
    <3>3. ~(n <= 8)
      BY <3>2
    <3> QED
      BY <3>1, <3>3
  <2>4. ~Expected(x, "number")
    BY <2>2, <2>3 DEF Expected
  <2> QED
    BY <2>1, <2>4
<1>3. /\ \A i \in Invoice : Len(sha256[i]) \in {20, 32}
      /\ \A k \in Key : Len(hash160[k]) \in {20, 32}
  BY DigestAssumption
<1>4. PICK b \in BoundedSeq(0..(Byte - 1), 2) : other = push_slice(b)
  <2>1. \/ \E name \in {"IF", "CLTV", "DROP", "CHECKSIG"} : other = Op(name)
        \/ \E b \in BoundedSeq(0..(Byte - 1), 2) : other = push_slice(b)
        \/ \E i \in Invoice : other = push_slice(sha256[i])
        \/ \E k \in Key : other = push_slice(hash160[k])
    BY Zenon DEF OtherInstruction
  <2> QED
    BY <1>1, <1>2, <1>3, <2>1
<1>5. other.data = b /\ other.op = "PUSHBYTES" /\ other # Op("number")
  BY <1>4 DEF push_slice, Op
<1>6. IsMinimalPush(b)
  BY <1>5 DEF Expected
<1>7. decode_script_num(b) \in U32
  BY <1>5
<1> QED
  BY <1>4, <1>5, <1>6, <1>7, ShortNumber

\* A push that the reader takes is a push of its data.
LEMMA OtherPush ==
    ASSUME NEW other \in OtherInstruction, NEW len, IsPush(other, len)
    PROVE  other = push_slice(other.data)
<1>1. \A name : name \in {"IF", "CLTV", "DROP", "CHECKSIG"} => ~IsPush(Op(name), len)
  BY DEF IsPush, Op
<1>2. PICK b : other = push_slice(b)
  BY <1>1, Zenon DEF OtherInstruction
<1>3. push_slice(b).data = b
  BY DEF push_slice
<1> QED
  BY <1>2, <1>3

\* What the reader expects, by kind.
LEMMA ExpectedOp ==
    ASSUME NEW x, NEW name, Expected(x, name), name \notin {"number", "push32", "push20"}
    PROVE  x = Op(name)
BY DEF Expected

\* expect_push takes nothing but a push of that length.
LEMMA ExpectedPush ==
    ASSUME NEW x
    PROVE  /\ (Expected(x, "push32") /\ x # Op("push32")) => IsPush(x, 32)
           /\ (Expected(x, "push20") /\ x # Op("push20")) => IsPush(x, 20)
BY DEF Expected

\* No instruction has the name of a kind.
LEMMA NoSuchOp ==
    ASSUME NEW other \in OtherInstruction
    PROVE  other # Op("push32") /\ other # Op("push20") /\ other # Op("number")
<1>1. \A name : name \in {"IF", "CLTV", "DROP", "CHECKSIG"} =>
         Op(name) # Op("push32") /\ Op(name) # Op("push20") /\ Op(name) # Op("number")
  BY DEF Op
<1>2. \A b : push_slice(b) # Op("push32") /\ push_slice(b) # Op("push20")
             /\ push_slice(b) # Op("number")
  BY DEF Op, push_slice
<1> QED
  BY <1>1, <1>2, Zenon DEF OtherInstruction

\* A script that differs from ours in one instruction, and is read.
LEMMA OtherIsRead ==
    ASSUME NEW spec \in HtlcSpec, spec.refund_lock_height \in U32,
           NEW ours, ours = ScriptOf(spec), NEW i \in 1..22, NEW other \in OtherInstruction,
           NEW script, script = [ours EXCEPT ![i] = other],
           parse_witness_script(script) # NoSpec
    PROVE  \/ witness_script(parse_witness_script(script)) = script
           \/ Shape[i] = "number" /\ Padded(other)
<1>1. /\ Len(script) = Len(Shape)
      /\ \A j \in DOMAIN Shape : Expected(script[j], Shape[j])
      /\ decode_script_num(script[3].data) = 32
      /\ decode_script_num(script[14].data) \in U32
  BY DEF parse_witness_script
<1>2. PICK r : r = [payment_hash |-> script[6].data,
                    claimer_pubkey_hash160 |-> script[10].data,
                    refunder_pubkey_hash160 |-> script[19].data,
                    refund_lock_height |-> decode_script_num(script[14].data)]
  OBVIOUS
<1>3. parse_witness_script(script) = r
  BY <1>1, <1>2 DEF parse_witness_script
<1>4. /\ r.payment_hash = script[6].data /\ r.claimer_pubkey_hash160 = script[10].data
      /\ r.refunder_pubkey_hash160 = script[19].data
      /\ r.refund_lock_height = decode_script_num(script[14].data)
  BY <1>2
<1>5. /\ Len(ours) = 22 /\ DOMAIN ours = 1..22
      /\ \A j \in 1..22 : script[j] = IF j = i THEN other ELSE ours[j]
  <2>1. Len(ours) = 22 /\ DOMAIN ours = 1..22
    BY DEF ScriptOf, witness_script
  <2> QED
    BY <2>1
<1>6. \A j \in 1..22 : Expected(script[j], Shape[j])
  BY <1>1, ShapeIs
<1>7. \A j \in (1..22) \ {3, 6, 10, 14, 19} : script[j] = Op(Shape[j])
  <2> SUFFICES ASSUME NEW j \in (1..22) \ {3, 6, 10, 14, 19}
               PROVE  script[j] = Op(Shape[j])
    OBVIOUS
  <2>1. Shape[j] \notin {"number", "push32", "push20"}
    BY ShapeIs
  <2> QED
    BY <1>6, <2>1, ExpectedOp
<1>8. \A j \in {6, 10, 19} : script[j] = push_slice(script[j].data)
  <2> SUFFICES ASSUME NEW j \in {6, 10, 19}
               PROVE  script[j] = push_slice(script[j].data)
    OBVIOUS
  <2>1. CASE j = i
    <3>1. script[j] = other
      BY <1>5, <2>1
    <3>2. IsPush(other, 32) \/ IsPush(other, 20)
      BY <1>6, <3>1, ShapeIs, ExpectedPush, NoSuchOp
    <3> QED
      BY <3>1, <3>2, OtherPush
  <2>2. CASE j # i
    <3>1. \E b : script[j] = push_slice(b)
      BY <1>5, <2>2, ScriptItems
    <3>2. \A b : push_slice(b).data = b
      BY DEF push_slice
    <3> QED
      BY <3>1, <3>2
  <2> QED
    BY <2>1, <2>2
<1>9. ASSUME NEW j \in {3, 14}, ~(j = i /\ Padded(other))
      PROVE  script[j] = push_int(decode_script_num(script[j].data))
  <2>1. CASE j = i
    <3>1. script[j] = other
      BY <1>5, <2>1
    <3>2. Expected(other, "number") /\ decode_script_num(other.data) \in U32
      BY <1>1, <1>6, <3>1, ShapeIs, ThirtyTwo
    <3> QED
      BY <1>9, <2>1, <3>1, <3>2, OtherNumber
  <2>2. CASE j # i
    <3>1. PICK n \in U32 : script[j] = push_int(n)
      BY <1>5, <2>2, ScriptItems, ThirtyTwo
    <3>2. decode_script_num(script[j].data) = n
      BY <3>1, PushesAreMinimal, DecodeInvertsBuild
    <3> QED
      BY <3>1, <3>2
  <2> QED
    BY <2>1, <2>2
<1>10. CASE i \in {3, 14} /\ Padded(other)
  BY <1>10, ShapeIs
<1>11. CASE ~(i \in {3, 14} /\ Padded(other))
  <2>1. /\ script[3] = push_int(32)
        /\ script[14] = push_int(r.refund_lock_height)
    BY <1>1, <1>4, <1>9, <1>11
  <2>2. /\ script[6] = push_slice(r.payment_hash)
        /\ script[10] = push_slice(r.claimer_pubkey_hash160)
        /\ script[19] = push_slice(r.refunder_pubkey_hash160)
    BY <1>4, <1>8
  <2>3. PICK built : built = witness_script(r)
    OBVIOUS
  <2>4. \A j \in 1..22 : built[j] = script[j]
    <3>1. /\ built[1] = Op("IF") /\ built[2] = Op("SIZE")
          /\ built[3] = push_int(32) /\ built[4] = Op("EQUALVERIFY")
          /\ built[5] = Op("SHA256") /\ built[6] = push_slice(r.payment_hash)
          /\ built[7] = Op("EQUALVERIFY") /\ built[8] = Op("DUP")
          /\ built[9] = Op("HASH160") /\ built[10] = push_slice(r.claimer_pubkey_hash160)
          /\ built[11] = Op("EQUALVERIFY") /\ built[12] = Op("CHECKSIG")
          /\ built[13] = Op("ELSE") /\ built[14] = push_int(r.refund_lock_height)
          /\ built[15] = Op("CLTV") /\ built[16] = Op("DROP")
          /\ built[17] = Op("DUP") /\ built[18] = Op("HASH160")
          /\ built[19] = push_slice(r.refunder_pubkey_hash160)
          /\ built[20] = Op("EQUALVERIFY") /\ built[21] = Op("CHECKSIG")
          /\ built[22] = Op("ENDIF")
      BY <2>3 DEF witness_script
    <3>2. \A j \in (1..22) \ {3, 6, 10, 14, 19} : built[j] = Op(Shape[j])
      BY <3>1, ShapeIs
    <3> QED
      BY <1>7, <2>1, <2>2, <3>1, <3>2
  <2>5. built = [j \in 1..22 |-> built[j]] /\ script = [j \in 1..22 |-> script[j]]
    <3>1. built = [j \in 1..22 |-> built[j]]
      BY <2>3 DEF witness_script
    <3>2. ours = [j \in 1..22 |-> ours[j]]
      BY DEF ScriptOf, witness_script
    <3>3. script = [j \in 1..22 |-> script[j]]
      BY <3>2
    <3> QED
      BY <3>1, <3>3
  <2>6. built = script
    BY <2>4, <2>5
  <2> QED
    BY <1>3, <2>3, <2>6
<1> QED
  BY <1>10, <1>11
-----------------------------------------------------------------------------
(* The interpreter, one opcode at a time.                                  *)

Machine(i, pc, live, ok, stack) ==
    [input |-> i, pc |-> pc, live |-> live, ok |-> ok, stack |-> stack]

\* In a branch that is taken, in one that is not, and where a check fails.
On(i, pc, stack) == Machine(i, pc, TRUE, TRUE, stack)
Off(i, pc, stack) == Machine(i, pc, FALSE, TRUE, stack)
Stopped(i, pc, stack) == Machine(i, pc, TRUE, FALSE, stack)

\* What Execute does to a machine at an instruction.
Step(instruction, m) == [Exec(instruction, m) EXCEPT !.pc = m.pc + 1]

\* The next machine, from what Exec leaves.
LEMMA StepOn ==
    ASSUME NEW x, NEW i, NEW pc, NEW t, NEW m, m.pc = pc,
           Exec(x, m) = On(i, pc, t)
    PROVE  Step(x, m) = On(i, pc + 1, t)
<1>1. PICK n, q : n = Exec(x, m) /\ q = pc + 1
  OBVIOUS
<1>2. n = Machine(i, pc, TRUE, TRUE, t)
  BY <1>1 DEF On
<1>3. PICK r : r = [n EXCEPT !.pc = q]
  OBVIOUS
<1>4. r = Machine(i, q, TRUE, TRUE, t)
  BY <1>2, <1>3 DEF Machine
<1> QED
  BY <1>1, <1>3, <1>4 DEF Step, On

\* The same where a check has failed.
LEMMA StepStopped ==
    ASSUME NEW x, NEW i, NEW pc, NEW t, NEW m, m.pc = pc,
           Exec(x, m) = Stopped(i, pc, t)
    PROVE  Step(x, m) = Stopped(i, pc + 1, t)
<1>1. PICK n, q : n = Exec(x, m) /\ q = pc + 1
  OBVIOUS
<1>2. n = Machine(i, pc, TRUE, FALSE, t)
  BY <1>1 DEF Stopped
<1>3. PICK r : r = [n EXCEPT !.pc = q]
  OBVIOUS
<1>4. r = Machine(i, q, TRUE, FALSE, t)
  BY <1>2, <1>3 DEF Machine
<1> QED
  BY <1>1, <1>3, <1>4 DEF Step, Stopped

\* The same in a branch that is not taken.
LEMMA StepOff ==
    ASSUME NEW x, NEW i, NEW pc, NEW t, NEW m, m.pc = pc,
           Exec(x, m) = Off(i, pc, t)
    PROVE  Step(x, m) = Off(i, pc + 1, t)
<1>1. PICK n, q : n = Exec(x, m) /\ q = pc + 1
  OBVIOUS
<1>2. n = Machine(i, pc, FALSE, TRUE, t)
  BY <1>1 DEF Off
<1>3. PICK r : r = [n EXCEPT !.pc = q]
  OBVIOUS
<1>4. r = Machine(i, q, FALSE, TRUE, t)
  BY <1>2, <1>3 DEF Machine
<1> QED
  BY <1>1, <1>3, <1>4 DEF Step, Off

\* The opcodes of a branch that is taken.
LEMMA DoPush ==
    ASSUME NEW x, NEW i, NEW pc, NEW s, x.op \in {"PUSHBYTES", "PUSHNUM"}
    PROVE  Step(x, On(i, pc, s)) = On(i, pc + 1, <<x.data>> \o s)
<1>1. PICK m, n : m = On(i, pc, s) /\ n = Exec(x, m)
  OBVIOUS
<1>2. m.live /\ m.stack = s /\ m.pc = pc
  BY <1>1 DEF Machine, On
<1>3. n = [m EXCEPT !.stack = <<x.data>> \o s]
  BY <1>1, <1>2 DEF Exec
<1>4. n = On(i, pc, <<x.data>> \o s)
  BY <1>1, <1>3 DEF Machine, On
<1>5. Exec(x, m) = On(i, pc, <<x.data>> \o s)
  BY <1>1, <1>4
<1>6. Step(x, m) = On(i, pc + 1, <<x.data>> \o s)
  BY <1>2, <1>5, StepOn
<1> QED
  BY <1>1, <1>6

\* OP_SIZE.
LEMMA DoSize ==
    ASSUME NEW x, NEW i, NEW pc, NEW s, x.op = "SIZE"
    PROVE  Step(x, On(i, pc, s)) = On(i, pc + 1, <<build_scriptint(32)>> \o s)
<1>1. PICK m, n : m = On(i, pc, s) /\ n = Exec(x, m)
  OBVIOUS
<1>2. m.live /\ m.stack = s /\ m.pc = pc
  BY <1>1 DEF Machine, On
<1>3. n = [m EXCEPT !.stack = <<build_scriptint(32)>> \o s]
  BY <1>1, <1>2 DEF Exec
<1>4. n = On(i, pc, <<build_scriptint(32)>> \o s)
  BY <1>1, <1>3 DEF Machine, On
<1>5. Exec(x, m) = On(i, pc, <<build_scriptint(32)>> \o s)
  BY <1>1, <1>4
<1>6. Step(x, m) = On(i, pc + 1, <<build_scriptint(32)>> \o s)
  BY <1>2, <1>5, StepOn
<1> QED
  BY <1>1, <1>6

\* OP_SHA256.
LEMMA DoSha256 ==
    ASSUME NEW x, NEW i, NEW pc, NEW s, x.op = "SHA256"
    PROVE  Step(x, On(i, pc, s)) = On(i, pc + 1, <<sha256[Head(s)]>> \o Tail(s))
<1>1. PICK m, n : m = On(i, pc, s) /\ n = Exec(x, m)
  OBVIOUS
<1>2. m.live /\ m.stack = s /\ m.pc = pc
  BY <1>1 DEF Machine, On
<1>3. n = [m EXCEPT !.stack = <<sha256[Head(s)]>> \o Tail(s)]
  BY <1>1, <1>2 DEF Exec
<1>4. n = On(i, pc, <<sha256[Head(s)]>> \o Tail(s))
  BY <1>1, <1>3 DEF Machine, On
<1>5. Exec(x, m) = On(i, pc, <<sha256[Head(s)]>> \o Tail(s))
  BY <1>1, <1>4
<1>6. Step(x, m) = On(i, pc + 1, <<sha256[Head(s)]>> \o Tail(s))
  BY <1>2, <1>5, StepOn
<1> QED
  BY <1>1, <1>6

\* OP_DUP.
LEMMA DoDup ==
    ASSUME NEW x, NEW i, NEW pc, NEW s, x.op = "DUP"
    PROVE  Step(x, On(i, pc, s)) = On(i, pc + 1, <<Head(s)>> \o s)
<1>1. PICK m, n : m = On(i, pc, s) /\ n = Exec(x, m)
  OBVIOUS
<1>2. m.live /\ m.stack = s /\ m.pc = pc
  BY <1>1 DEF Machine, On
<1>3. n = [m EXCEPT !.stack = <<Head(s)>> \o s]
  BY <1>1, <1>2 DEF Exec
<1>4. n = On(i, pc, <<Head(s)>> \o s)
  BY <1>1, <1>3 DEF Machine, On
<1>5. Exec(x, m) = On(i, pc, <<Head(s)>> \o s)
  BY <1>1, <1>4
<1>6. Step(x, m) = On(i, pc + 1, <<Head(s)>> \o s)
  BY <1>2, <1>5, StepOn
<1> QED
  BY <1>1, <1>6

\* OP_HASH160.
LEMMA DoHash160 ==
    ASSUME NEW x, NEW i, NEW pc, NEW s, x.op = "HASH160"
    PROVE  Step(x, On(i, pc, s)) = On(i, pc + 1, <<hash160[Head(s)]>> \o Tail(s))
<1>1. PICK m, n : m = On(i, pc, s) /\ n = Exec(x, m)
  OBVIOUS
<1>2. m.live /\ m.stack = s /\ m.pc = pc
  BY <1>1 DEF Machine, On
<1>3. n = [m EXCEPT !.stack = <<hash160[Head(s)]>> \o Tail(s)]
  BY <1>1, <1>2 DEF Exec
<1>4. n = On(i, pc, <<hash160[Head(s)]>> \o Tail(s))
  BY <1>1, <1>3 DEF Machine, On
<1>5. Exec(x, m) = On(i, pc, <<hash160[Head(s)]>> \o Tail(s))
  BY <1>1, <1>4
<1>6. Step(x, m) = On(i, pc + 1, <<hash160[Head(s)]>> \o Tail(s))
  BY <1>2, <1>5, StepOn
<1> QED
  BY <1>1, <1>6

\* OP_DROP.
LEMMA DoDrop ==
    ASSUME NEW x, NEW i, NEW pc, NEW s, x.op = "DROP"
    PROVE  Step(x, On(i, pc, s)) = On(i, pc + 1, Tail(s))
<1>1. PICK m, n : m = On(i, pc, s) /\ n = Exec(x, m)
  OBVIOUS
<1>2. m.live /\ m.stack = s /\ m.pc = pc
  BY <1>1 DEF Machine, On
<1>3. n = [m EXCEPT !.stack = Tail(s)]
  BY <1>1, <1>2 DEF Exec
<1>4. n = On(i, pc, Tail(s))
  BY <1>1, <1>3 DEF Machine, On
<1>5. Exec(x, m) = On(i, pc, Tail(s))
  BY <1>1, <1>4
<1>6. Step(x, m) = On(i, pc + 1, Tail(s))
  BY <1>2, <1>5, StepOn
<1> QED
  BY <1>1, <1>6

\* OP_CHECKLOCKTIMEVERIFY, where the lock time is reached.
LEMMA DoCltv ==
    ASSUME NEW x, NEW i, NEW pc, NEW s, x.op = "CLTV", LockTimeReached(Head(s), i)
    PROVE  Step(x, On(i, pc, s)) = On(i, pc + 1, s)
<1>1. PICK m, n, k : m = On(i, pc, s) /\ n = Exec(x, m) /\ k = [m EXCEPT !.stack = s]
  OBVIOUS
<1>2. m.live /\ m.stack = s /\ m.pc = pc /\ m.input = i
  BY <1>1 DEF Machine, On
<1>3. n = [m EXCEPT !.stack = s, !.ok = LockTimeReached(Head(s), i)]
  BY <1>1, <1>2 DEF Exec
<1>4. LockTimeReached(Head(s), i) = TRUE
  BY DEF LockTimeReached
<1>5. n = [k EXCEPT !.ok = TRUE] /\ k = On(i, pc, s)
  <2>1. n = [m EXCEPT !.stack = s, !.ok = TRUE]
    BY <1>3, <1>4, Zenon
  <2> QED
    BY <1>1, <2>1 DEF Machine, On
<1>6. n = On(i, pc, s)
  BY <1>5 DEF Machine, On
<1>7. Exec(x, m) = On(i, pc, s)
  BY <1>1, <1>6
<1>8. Step(x, m) = On(i, pc + 1, s)
  BY <1>2, <1>7, StepOn
<1> QED
  BY <1>1, <1>8

\* OP_IF takes the branch its operand selects.
LEMMA DoIf ==
    ASSUME NEW x, NEW i, NEW pc, NEW s, x.op = "IF"
    PROVE  Step(x, On(i, pc, s)) = IF Head(s) # <<>> THEN On(i, pc + 1, Tail(s))
                                                     ELSE Off(i, pc + 1, Tail(s))
<1>1. PICK m, n, l : m = On(i, pc, s) /\ n = Exec(x, m) /\ l = (Head(s) # <<>>)
  OBVIOUS
<1>2. m.live /\ m.stack = s /\ m.pc = pc
  BY <1>1 DEF Machine, On
<1>3. n = [m EXCEPT !.live = l, !.stack = Tail(s)]
  BY <1>1, <1>2 DEF Exec
<1>4. PICK k : k = [m EXCEPT !.live = l]
  OBVIOUS
<1>5. n = [k EXCEPT !.stack = Tail(s)] /\ k = Machine(i, pc, l, TRUE, s)
  BY <1>1, <1>3, <1>4 DEF Machine, On
<1>6. CASE l = TRUE
  <2>1. n = On(i, pc, Tail(s))
    BY <1>5, <1>6 DEF Machine, On
  <2>2. Exec(x, m) = On(i, pc, Tail(s))
    BY <1>1, <2>1
  <2>3. Step(x, m) = On(i, pc + 1, Tail(s))
    BY <1>2, <2>2, StepOn
  <2> QED
    BY <1>1, <1>6, <2>3
<1>7. CASE l = FALSE
  <2>1. n = Off(i, pc, Tail(s))
    BY <1>5, <1>7 DEF Machine, Off
  <2>2. Exec(x, m) = Off(i, pc, Tail(s))
    BY <1>1, <2>1
  <2>3. Step(x, m) = Off(i, pc + 1, Tail(s))
    BY <1>2, <2>2, StepOff
  <2> QED
    BY <1>1, <1>7, <2>3
<1> QED
  BY <1>1, <1>6, <1>7

\* An opcode of a branch that is not taken, and the ends of the branches.
LEMMA DoSkip ==
    ASSUME NEW x, NEW i, NEW pc, NEW s, x.op \notin {"IF", "ELSE", "ENDIF"}
    PROVE  Step(x, Off(i, pc, s)) = Off(i, pc + 1, s)
<1>1. PICK m, q : m = Off(i, pc, s) /\ q = pc + 1
  OBVIOUS
<1>2. ~m.live /\ m.pc = pc
  BY <1>1 DEF Machine, Off
<1>3. Exec(x, m) = m
  BY <1>2 DEF Exec
<1>4. PICK r : r = [m EXCEPT !.pc = q]
  OBVIOUS
<1>5. r = Machine(i, q, FALSE, TRUE, s)
  BY <1>1, <1>4 DEF Machine, Off
<1> QED
  BY <1>1, <1>2, <1>3, <1>4, <1>5 DEF Step, Off

\* OP_ELSE ends the branch that was taken.
LEMMA DoElse ==
    ASSUME NEW x, NEW i, NEW pc, NEW s, x.op = "ELSE"
    PROVE  Step(x, On(i, pc, s)) = Off(i, pc + 1, s)
<1>1. PICK m, q : m = On(i, pc, s) /\ q = pc + 1
  OBVIOUS
<1>2. m.live = TRUE /\ m.pc = pc
  BY <1>1 DEF Machine, On
<1>3. PICK n : n = Exec(x, m)
  OBVIOUS
<1>4. n = [m EXCEPT !.live = FALSE]
  BY <1>2, <1>3 DEF Exec
<1>5. n = Machine(i, pc, FALSE, TRUE, s)
  BY <1>1, <1>4 DEF Machine, On
<1>6. PICK r : r = [n EXCEPT !.pc = q]
  OBVIOUS
<1>7. r = Machine(i, q, FALSE, TRUE, s)
  BY <1>5, <1>6 DEF Machine
<1> QED
  BY <1>1, <1>2, <1>3, <1>6, <1>7 DEF Step, Off

\* OP_ELSE starts the other branch.
LEMMA DoOtherElse ==
    ASSUME NEW x, NEW i, NEW pc, NEW s, x.op = "ELSE"
    PROVE  Step(x, Off(i, pc, s)) = On(i, pc + 1, s)
<1>1. PICK m, q : m = Off(i, pc, s) /\ q = pc + 1
  OBVIOUS
<1>2. m.live = FALSE /\ m.pc = pc
  BY <1>1 DEF Machine, Off
<1>3. PICK n : n = Exec(x, m)
  OBVIOUS
<1>4. n = [m EXCEPT !.live = TRUE]
  BY <1>2, <1>3 DEF Exec
<1>5. n = Machine(i, pc, TRUE, TRUE, s)
  BY <1>1, <1>4 DEF Machine, Off
<1>6. PICK r : r = [n EXCEPT !.pc = q]
  OBVIOUS
<1>7. r = Machine(i, q, TRUE, TRUE, s)
  BY <1>5, <1>6 DEF Machine
<1> QED
  BY <1>1, <1>2, <1>3, <1>6, <1>7 DEF Step, On

\* OP_ENDIF after the branch of OP_ELSE.
LEMMA DoEndif ==
    ASSUME NEW x, NEW i, NEW pc, NEW s, x.op = "ENDIF"
    PROVE  Step(x, On(i, pc, s)) = On(i, pc + 1, s)
<1>1. PICK m, q : m = On(i, pc, s) /\ q = pc + 1
  OBVIOUS
<1>2. m.live = TRUE /\ m.pc = pc
  BY <1>1 DEF Machine, On
<1>3. PICK n : n = Exec(x, m)
  OBVIOUS
<1>4. n = [m EXCEPT !.live = TRUE]
  BY <1>2, <1>3 DEF Exec
<1>5. n = Machine(i, pc, TRUE, TRUE, s)
  BY <1>1, <1>4 DEF Machine, On
<1>6. PICK r : r = [n EXCEPT !.pc = q]
  OBVIOUS
<1>7. r = Machine(i, q, TRUE, TRUE, s)
  BY <1>5, <1>6 DEF Machine
<1> QED
  BY <1>1, <1>2, <1>3, <1>6, <1>7 DEF Step, On

\* OP_ENDIF after the branch of OP_IF.
LEMMA DoOtherEndif ==
    ASSUME NEW x, NEW i, NEW pc, NEW s, x.op = "ENDIF"
    PROVE  Step(x, Off(i, pc, s)) = On(i, pc + 1, s)
<1>1. PICK m, q : m = Off(i, pc, s) /\ q = pc + 1
  OBVIOUS
<1>2. m.live = FALSE /\ m.pc = pc
  BY <1>1 DEF Machine, Off
<1>3. PICK n : n = Exec(x, m)
  OBVIOUS
<1>4. n = [m EXCEPT !.live = TRUE]
  BY <1>2, <1>3 DEF Exec
<1>5. n = Machine(i, pc, TRUE, TRUE, s)
  BY <1>1, <1>4 DEF Machine, Off
<1>6. PICK r : r = [n EXCEPT !.pc = q]
  OBVIOUS
<1>7. r = Machine(i, q, TRUE, TRUE, s)
  BY <1>5, <1>6 DEF Machine
<1> QED
  BY <1>1, <1>2, <1>3, <1>6, <1>7 DEF Step, On

\* A push on a stack of so many items.
LEMMA Push0 == ASSUME NEW a PROVE <<a>> \o <<>> = <<a>>
OBVIOUS

\* A push on two items.
LEMMA Push2 ==
    ASSUME NEW a, NEW b, NEW c
    PROVE  <<a>> \o <<b, c>> = <<a, b, c>>
<1>1. PICK S : S = {a, b, c}
  OBVIOUS
<1>2. <<a>> \in Seq(S) /\ <<b, c>> \in Seq(S) /\ <<a, b, c>> \in Seq(S)
  BY <1>1
<1>3. PICK s : s = <<a>> \o <<b, c>>
  OBVIOUS
<1>4. s \in Seq(S) /\ Len(s) = 3 /\ s[1] = a /\ s[2] = b /\ s[3] = c
  BY <1>2, <1>3
<1>5. s = <<a, b, c>>
  BY <1>2, <1>4, SeqEqual
<1> QED
  BY <1>3, <1>5

\* A push on three items.
LEMMA Push3 ==
    ASSUME NEW a, NEW b, NEW c, NEW d
    PROVE  <<a>> \o <<b, c, d>> = <<a, b, c, d>>
<1>1. PICK S : S = {a, b, c, d}
  OBVIOUS
<1>2. <<a>> \in Seq(S) /\ <<b, c, d>> \in Seq(S) /\ <<a, b, c, d>> \in Seq(S)
  BY <1>1
<1>3. PICK s : s = <<a>> \o <<b, c, d>>
  OBVIOUS
<1>4. s \in Seq(S) /\ Len(s) = 4 /\ s[1] = a /\ s[2] = b /\ s[3] = c /\ s[4] = d
  BY <1>2, <1>3
<1>5. s = <<a, b, c, d>>
  BY <1>2, <1>4, SeqEqual
<1> QED
  BY <1>3, <1>5

\* A push on four items.
LEMMA Push4 ==
    ASSUME NEW a, NEW b, NEW c, NEW d, NEW e
    PROVE  <<a>> \o <<b, c, d, e>> = <<a, b, c, d, e>>
<1>1. PICK S : S = {a, b, c, d, e}
  OBVIOUS
<1>2. <<a>> \in Seq(S) /\ <<b, c, d, e>> \in Seq(S) /\ <<a, b, c, d, e>> \in Seq(S)
  BY <1>1
<1>3. PICK s : s = <<a>> \o <<b, c, d, e>>
  OBVIOUS
<1>4. s \in Seq(S) /\ Len(s) = 5 /\ s[1] = a /\ s[2] = b /\ s[3] = c /\ s[4] = d /\ s[5] = e
  BY <1>2, <1>3
<1>5. s = <<a, b, c, d, e>>
  BY <1>2, <1>4, SeqEqual
<1> QED
  BY <1>3, <1>5

\* The opcodes on the stacks they meet here.
LEMMA DupOf ==
    ASSUME NEW x, NEW i, NEW pc, NEW a, NEW b, x.op = "DUP"
    PROVE  Step(x, On(i, pc, <<a, b>>)) = On(i, pc + 1, <<a, a, b>>)
<1>1. PICK s : s = <<a, b>>
  OBVIOUS
<1>2. Step(x, On(i, pc, s)) = On(i, pc + 1, <<Head(s)>> \o s)
  BY DoDup
<1>3. Head(s) = a
  BY <1>1
<1> QED
  BY <1>1, <1>2, <1>3, Push2

\* OP_HASH160 on such a stack.
LEMMA Hash160Of ==
    ASSUME NEW x, NEW i, NEW pc, NEW a, NEW b, NEW c, x.op = "HASH160"
    PROVE  Step(x, On(i, pc, <<a, b, c>>)) = On(i, pc + 1, <<hash160[a], b, c>>)
<1>1. PICK s : s = <<a, b, c>>
  OBVIOUS
<1>2. Head(s) = a /\ Tail(s) = <<b, c>>
  BY <1>1
<1>3. Step(x, On(i, pc, s)) = On(i, pc + 1, <<hash160[Head(s)]>> \o Tail(s))
  BY DoHash160
<1> QED
  BY <1>1, <1>2, <1>3, Push2

\* OP_EQUALVERIFY goes on or stops.
LEMMA EqualVerifyOf ==
    ASSUME NEW x, NEW i, NEW pc, NEW a, NEW b, NEW c, NEW d, x.op = "EQUALVERIFY"
    PROVE  /\ a = b => Step(x, On(i, pc, <<a, b, c, d>>)) = On(i, pc + 1, <<c, d>>)
           /\ a # b => Step(x, On(i, pc, <<a, b, c, d>>)) = Stopped(i, pc + 1, <<c, d>>)
<1>1. PICK m, n, t, v : /\ m = On(i, pc, <<a, b, c, d>>) /\ n = Exec(x, m)
                        /\ t = <<c, d>> /\ v = (a = b)
  OBVIOUS
<1>2. m.live /\ m.stack = <<a, b, c, d>> /\ m.pc = pc
  BY <1>1 DEF Machine, On
<1>3. /\ Head(m.stack) = a /\ Head(Tail(m.stack)) = b
      /\ Tail(Tail(m.stack)) = <<c, d>>
  BY <1>2
<1>4. n = [m EXCEPT !.stack = t, !.ok = v]
  <2>1. n = [m EXCEPT !.stack = Tail(Tail(m.stack)),
                      !.ok = (Head(m.stack) = Head(Tail(m.stack)))]
    BY <1>1, <1>2 DEF Exec
  <2> QED
    BY <1>1, <1>3, <2>1, Zenon
<1>5. PICK k : k = [m EXCEPT !.stack = t]
  OBVIOUS
<1>6. n = [k EXCEPT !.ok = v] /\ k = On(i, pc, t)
  BY <1>1, <1>4, <1>5 DEF Machine, On
<1>7. CASE v = TRUE
  <2>1. n = On(i, pc, t)
    BY <1>6, <1>7 DEF Machine, On
  <2>2. Exec(x, m) = On(i, pc, t)
    BY <1>1, <2>1
  <2>3. Step(x, m) = On(i, pc + 1, t)
    BY <1>2, <2>2, StepOn
  <2> QED
    BY <1>1, <1>7, <2>3
<1>8. CASE v = FALSE
  <2>1. n = Stopped(i, pc, t)
    BY <1>6, <1>8 DEF Machine, On, Stopped
  <2>2. Exec(x, m) = Stopped(i, pc, t)
    BY <1>1, <2>1
  <2>3. Step(x, m) = Stopped(i, pc + 1, t)
    BY <1>2, <2>2, StepStopped
  <2> QED
    BY <1>1, <1>8, <2>3
<1> QED
  BY <1>1, <1>7, <1>8

\* OP_EQUALVERIFY after OP_SIZE.
LEMMA SizeVerifyOf ==
    ASSUME NEW x, NEW i, NEW pc, NEW a, NEW b, NEW c, NEW d, NEW e, x.op = "EQUALVERIFY"
    PROVE  /\ a = b => Step(x, On(i, pc, <<a, b, c, d, e>>)) = On(i, pc + 1, <<c, d, e>>)
           /\ a # b => Step(x, On(i, pc, <<a, b, c, d, e>>))
                         = Stopped(i, pc + 1, <<c, d, e>>)
<1>1. PICK m, n, t, v : /\ m = On(i, pc, <<a, b, c, d, e>>) /\ n = Exec(x, m)
                        /\ t = <<c, d, e>> /\ v = (a = b)
  OBVIOUS
<1>2. m.live /\ m.stack = <<a, b, c, d, e>> /\ m.pc = pc
  BY <1>1 DEF Machine, On
<1>3. /\ Head(m.stack) = a /\ Head(Tail(m.stack)) = b
      /\ Tail(Tail(m.stack)) = <<c, d, e>>
  BY <1>2
<1>4. n = [m EXCEPT !.stack = t, !.ok = v]
  <2>1. n = [m EXCEPT !.stack = Tail(Tail(m.stack)),
                      !.ok = (Head(m.stack) = Head(Tail(m.stack)))]
    BY <1>1, <1>2 DEF Exec
  <2> QED
    BY <1>1, <1>3, <2>1, Zenon
<1>5. PICK k : k = [m EXCEPT !.stack = t]
  OBVIOUS
<1>6. n = [k EXCEPT !.ok = v] /\ k = On(i, pc, t)
  BY <1>1, <1>4, <1>5 DEF Machine, On
<1>7. CASE v = TRUE
  <2>1. n = On(i, pc, t)
    BY <1>6, <1>7 DEF Machine, On
  <2>2. Exec(x, m) = On(i, pc, t)
    BY <1>1, <2>1
  <2>3. Step(x, m) = On(i, pc + 1, t)
    BY <1>2, <2>2, StepOn
  <2> QED
    BY <1>1, <1>7, <2>3
<1>8. CASE v = FALSE
  <2>1. n = Stopped(i, pc, t)
    BY <1>6, <1>8 DEF Machine, On, Stopped
  <2>2. Exec(x, m) = Stopped(i, pc, t)
    BY <1>1, <2>1
  <2>3. Step(x, m) = Stopped(i, pc + 1, t)
    BY <1>2, <2>2, StepStopped
  <2> QED
    BY <1>1, <1>8, <2>3
<1> QED
  BY <1>1, <1>7, <1>8

\* OP_CHECKSIG with a valid signature.
LEMMA ChecksigOf ==
    ASSUME NEW x, NEW i, NEW pc, NEW key, NEW sig, x.op = "CHECKSIG",
           SignatureValid(sig, key)
    PROVE  Step(x, On(i, pc, <<key, sig>>)) = On(i, pc + 1, << <<1>> >>)
<1>1. PICK m, n, t : m = On(i, pc, <<key, sig>>) /\ n = Exec(x, m) /\ t = << <<1>> >>
  OBVIOUS
<1>2. m.live /\ m.stack = <<key, sig>> /\ m.pc = pc
  BY <1>1 DEF Machine, On
<1>3. Head(m.stack) = key /\ Head(Tail(m.stack)) = sig /\ Tail(Tail(m.stack)) = <<>>
  BY <1>2
<1>4. t \o Tail(Tail(m.stack)) = t
  BY <1>1, <1>3, Push0
<1>5. SignatureValid(Head(Tail(m.stack)), Head(m.stack))
  BY <1>3
<1>6. n = [m EXCEPT !.stack = t]
  <2>1. n = [m EXCEPT !.stack = t \o Tail(Tail(m.stack))]
    BY <1>1, <1>2, <1>5 DEF Exec
  <2> QED
    BY <1>4, <2>1
<1>7. n = On(i, pc, t)
  BY <1>1, <1>6 DEF Machine, On
<1>8. Exec(x, m) = On(i, pc, t)
  BY <1>1, <1>7
<1>9. Step(x, m) = On(i, pc + 1, t)
  BY <1>2, <1>8, StepOn
<1> QED
  BY <1>1, <1>9

-----------------------------------------------------------------------------
(* A transaction's way through the script.                                 *)

\* Where a claim transaction t can be at input i: in the branch of OP_IF, then
\* past the other one.  A check that fails stops it.
ClaimAt(t, spec, i, m) ==
    LET sig == t.witness[i][1]  key == t.key  pre == t.preimage
        size == build_scriptint(32)  right == pre = spec.payment_hash
    IN
    \/ m = On(i, 1, << <<1>>, pre, key, sig >>)
    \/ m = On(i, 2, <<pre, key, sig>>)
    \/ m = On(i, 3, <<size, pre, key, sig>>)
    \/ m = On(i, 4, <<size, size, pre, key, sig>>)
    \/ m = On(i, 5, <<pre, key, sig>>)
    \/ m = On(i, 6, <<sha256[pre], key, sig>>)
    \/ m = On(i, 7, <<sha256[spec.payment_hash], sha256[pre], key, sig>>)
    \/ ~right /\ m = Stopped(i, 8, <<key, sig>>)
    \/ right /\ m = On(i, 8, <<key, sig>>)
    \/ right /\ m = On(i, 9, <<key, key, sig>>)
    \/ right /\ m = On(i, 10, <<hash160[key], key, sig>>)
    \/ right /\ m = On(i, 11, <<hash160[spec.claimer], hash160[key], key, sig>>)
    \/ right /\ key # spec.claimer /\ m = Stopped(i, 12, <<key, sig>>)
    \/ right /\ key = spec.claimer /\ m = On(i, 12, <<key, sig>>)
    \/ right /\ key = spec.claimer /\ m = On(i, 13, << <<1>> >>)
    \/ right /\ key = spec.claimer /\ \E pc \in 14..22 : m = Off(i, pc, << <<1>> >>)
    \/ right /\ key = spec.claimer /\ m = On(i, 23, << <<1>> >>)

\* Where a refund transaction can be: in the branch of OP_ELSE.
RefundAt(t, spec, i, m) ==
    LET sig == t.witness[i][1]  key == t.key
        lock == build_scriptint(spec.refund_lock_height)
    IN
    \/ m = On(i, 1, << <<>>, key, sig >>)
    \/ \E pc \in 2..13 : m = Off(i, pc, <<key, sig>>)
    \/ m = On(i, 14, <<key, sig>>)
    \/ m = On(i, 15, <<lock, key, sig>>)
    \/ m = On(i, 16, <<lock, key, sig>>)
    \/ m = On(i, 17, <<key, sig>>)
    \/ m = On(i, 18, <<key, key, sig>>)
    \/ m = On(i, 19, <<hash160[key], key, sig>>)
    \/ m = On(i, 20, <<hash160[spec.refunder], hash160[key], key, sig>>)
    \/ key # spec.refunder /\ m = Stopped(i, 21, <<key, sig>>)
    \/ key = spec.refunder /\ m = On(i, 21, <<key, sig>>)
    \/ key = spec.refunder /\ m = On(i, 22, << <<1>> >>)
    \/ key = spec.refunder /\ m = On(i, 23, << <<1>> >>)

\* A machine's counter, and whether it runs.
LEMMA MachineIs ==
    ASSUME NEW i, NEW pc, NEW s
    PROVE  /\ On(i, pc, s).pc = pc /\ Off(i, pc, s).pc = pc /\ Stopped(i, pc, s).pc = pc
           /\ On(i, pc, s).ok /\ Off(i, pc, s).ok /\ ~Stopped(i, pc, s).ok
           /\ On(i, pc, s).input = i /\ Off(i, pc, s).input = i
           /\ Stopped(i, pc, s).input = i
           /\ On(i, pc, s).stack = s
BY DEF Machine, On, Off, Stopped

\* A key is known by its hash.
LEMMA KeyIsHash ==
    ASSUME NEW a \in Key, NEW b \in Key
    PROVE  hash160[a] = hash160[b] => a = b
BY DigestAssumption DEF IsInjective

\* A preimage is known by its hash.
LEMMA PreimageIsHash ==
    ASSUME NEW a \in Invoice, NEW b \in Invoice
    PROVE  sha256[a] = sha256[b] => a = b
BY DigestAssumption DEF IsInjective

\* Each instruction takes a claim transaction one place further.
LEMMA ClaimStep ==
    ASSUME NEW t, NEW spec \in HtlcSpec, spec.refund_lock_height \in U32,
           t.key \in Key, t.preimage \in Invoice, NEW i, NEW m, ClaimAt(t, spec, i, m),
           NEW script, script = ScriptOf(spec), SignatureValid(t.witness[i][1], t.key),
           m.ok, m.pc <= 22
    PROVE  ClaimAt(t, spec, i, Step(script[m.pc], m))
<1>1. PICK sig, key, pre, size, n, right :
        /\ sig = t.witness[i][1] /\ key = t.key /\ pre = t.preimage
        /\ size = build_scriptint(32) /\ n = Step(script[m.pc], m)
        /\ right = (pre = spec.payment_hash)
  OBVIOUS
<1>2. SignatureValid(sig, key)
  BY <1>1
<1>3. (sha256[spec.payment_hash] = sha256[pre]) <=> pre = spec.payment_hash
  BY <1>1, PreimageIsHash DEF HtlcSpec
<1>4. (hash160[spec.claimer] = hash160[key]) <=> key = spec.claimer
  BY <1>1, KeyIsHash DEF HtlcSpec
<1>5. CASE m = On(i, 1, << <<1>>, pre, key, sig >>)
  <2>1. m.pc = 1 /\ script[1].op = "IF"
    BY <1>5, MachineIs, ScriptOps
  <2>2. PICK s : s = << <<1>>, pre, key, sig >>
    OBVIOUS
  <2>3. Head(s) # <<>> /\ Tail(s) = <<pre, key, sig>>
    BY <2>2
  <2>4. Step(script[1], On(i, 1, s)) = On(i, 2, Tail(s))
    BY <2>1, <2>3, DoIf
  <2>5. Step(script[1], m) = On(i, 2, <<pre, key, sig>>)
    BY <1>5, <2>1, <2>2, <2>3, <2>4
  <2> QED
    BY <1>1, <1>5, <2>1, <2>5 DEF ClaimAt
<1>6. CASE m = On(i, 2, <<pre, key, sig>>)
  <2>1. m.pc = 2 /\ script[2].op = "SIZE"
    BY <1>6, MachineIs, ScriptOps
  <2>2. PICK s : s = <<pre, key, sig>>
    OBVIOUS
  <2>3. Step(script[2], On(i, 2, s)) = On(i, 3, <<size>> \o s)
    BY <2>1, <1>1, DoSize
  <2>4. <<size>> \o s = <<size, pre, key, sig>>
    BY Push3, <2>2
  <2>5. Step(script[2], m) = On(i, 3, <<size, pre, key, sig>>)
    BY <1>6, <2>1, <2>2, <2>3, <2>4
  <2> QED
    BY <1>1, <1>6, <2>1, <2>5 DEF ClaimAt
<1>7. CASE m = On(i, 3, <<size, pre, key, sig>>)
  <2>1. /\ m.pc = 3 /\ script[3].op \in {"PUSHBYTES", "PUSHNUM"}
        /\ script[3].data = build_scriptint(32)
    BY <1>7, MachineIs, ScriptOps
  <2>2. PICK s : s = <<size, pre, key, sig>>
    OBVIOUS
  <2>3. Step(script[3], On(i, 3, s)) = On(i, 4, <<script[3].data>> \o s)
    BY <2>1, <1>1, DoPush
  <2>4. <<script[3].data>> \o s = <<size, size, pre, key, sig>>
    BY <1>1, <2>1, Push4, <2>2
  <2>5. Step(script[3], m) = On(i, 4, <<size, size, pre, key, sig>>)
    BY <1>7, <2>1, <2>2, <2>3, <2>4
  <2> QED
    BY <1>1, <1>7, <2>1, <2>5 DEF ClaimAt
<1>8. CASE m = On(i, 4, <<size, size, pre, key, sig>>)
  <2>1. m.pc = 4 /\ script[4].op = "EQUALVERIFY"
    BY <1>8, MachineIs, ScriptOps
  <2>2. Step(script[4], m) = On(i, 5, <<pre, key, sig>>)
    BY <1>8, <2>1, SizeVerifyOf
  <2> QED
    BY <1>1, <1>8, <2>1, <2>2 DEF ClaimAt
<1>9. CASE m = On(i, 5, <<pre, key, sig>>)
  <2>1. m.pc = 5 /\ script[5].op = "SHA256"
    BY <1>9, MachineIs, ScriptOps
  <2>2. PICK s : s = <<pre, key, sig>>
    OBVIOUS
  <2>3. Head(s) = pre /\ Tail(s) = <<key, sig>>
    BY <2>2
  <2>4. Step(script[5], On(i, 5, s)) = On(i, 6, <<sha256[Head(s)]>> \o Tail(s))
    BY <2>1, DoSha256
  <2>5. <<sha256[pre]>> \o <<key, sig>> = <<sha256[pre], key, sig>>
    BY Push2, <2>2
  <2>6. Step(script[5], m) = On(i, 6, <<sha256[pre], key, sig>>)
    BY <1>9, <2>1, <2>2, <2>3, <2>4, <2>5
  <2> QED
    BY <1>1, <1>9, <2>1, <2>6 DEF ClaimAt
<1>10. CASE m = On(i, 6, <<sha256[pre], key, sig>>)
  <2>1. m.pc = 6 /\ script[6].op = "PUSHBYTES" /\ script[6].data = sha256[spec.payment_hash]
    BY <1>10, MachineIs, ScriptOps
  <2>2. PICK s : s = <<sha256[pre], key, sig>>
    OBVIOUS
  <2>3. Step(script[6], On(i, 6, s)) = On(i, 7, <<script[6].data>> \o s)
    BY <2>1, DoPush
  <2>4. <<script[6].data>> \o s = <<sha256[spec.payment_hash], sha256[pre], key, sig>>
    BY <2>1, Push3, <2>2
  <2>5. Step(script[6], m) = On(i, 7, <<sha256[spec.payment_hash], sha256[pre], key, sig>>)
    BY <1>10, <2>1, <2>2, <2>3, <2>4
  <2> QED
    BY <1>1, <1>10, <2>1, <2>5 DEF ClaimAt
<1>11. CASE /\ pre = spec.payment_hash
            /\ m = On(i, 7, <<sha256[spec.payment_hash], sha256[pre], key, sig>>)
  <2>1. m.pc = 7 /\ script[7].op = "EQUALVERIFY"
    BY <1>11, MachineIs, ScriptOps
  <2>2. Step(script[7], m) = On(i, 8, <<key, sig>>)
    BY <1>11, <2>1, EqualVerifyOf
  <2> QED
    BY <1>1, <1>11, <2>1, <2>2 DEF ClaimAt
<1>12. CASE /\ pre # spec.payment_hash
            /\ m = On(i, 7, <<sha256[spec.payment_hash], sha256[pre], key, sig>>)
  <2>1. m.pc = 7 /\ script[7].op = "EQUALVERIFY"
        /\ sha256[spec.payment_hash] # sha256[pre]
    BY <1>12, MachineIs, ScriptOps, <1>3
  <2>2. Step(script[7], m) = Stopped(i, 8, <<key, sig>>)
    BY <1>12, <2>1, EqualVerifyOf
  <2> QED
    BY <1>1, <1>12, <2>1, <2>2 DEF ClaimAt
<1>13. CASE pre = spec.payment_hash /\ m = On(i, 8, <<key, sig>>)
  <2>1. m.pc = 8 /\ script[8].op = "DUP"
    BY <1>13, MachineIs, ScriptOps
  <2>2. Step(script[8], m) = On(i, 9, <<key, key, sig>>)
    BY <1>13, <2>1, DupOf
  <2> QED
    BY <1>1, <1>13, <2>1, <2>2 DEF ClaimAt
<1>14. CASE pre = spec.payment_hash /\ m = On(i, 9, <<key, key, sig>>)
  <2>1. m.pc = 9 /\ script[9].op = "HASH160"
    BY <1>14, MachineIs, ScriptOps
  <2>2. Step(script[9], m) = On(i, 10, <<hash160[key], key, sig>>)
    BY <1>14, <2>1, Hash160Of
  <2> QED
    BY <1>1, <1>14, <2>1, <2>2 DEF ClaimAt
<1>15. CASE pre = spec.payment_hash /\ m = On(i, 10, <<hash160[key], key, sig>>)
  <2>1. m.pc = 10 /\ script[10].op = "PUSHBYTES" /\ script[10].data = hash160[spec.claimer]
    BY <1>15, MachineIs, ScriptOps
  <2>2. PICK s : s = <<hash160[key], key, sig>>
    OBVIOUS
  <2>3. Step(script[10], On(i, 10, s)) = On(i, 11, <<script[10].data>> \o s)
    BY <2>1, DoPush
  <2>4. <<script[10].data>> \o s = <<hash160[spec.claimer], hash160[key], key, sig>>
    BY <2>1, Push3, <2>2
  <2>5. Step(script[10], m) = On(i, 11, <<hash160[spec.claimer], hash160[key], key, sig>>)
    BY <1>15, <2>1, <2>2, <2>3, <2>4
  <2> QED
    BY <1>1, <1>15, <2>1, <2>5 DEF ClaimAt
<1>16. CASE /\ pre = spec.payment_hash
            /\ key = spec.claimer
            /\ m = On(i, 11, <<hash160[spec.claimer], hash160[key], key, sig>>)
  <2>1. m.pc = 11 /\ script[11].op = "EQUALVERIFY"
    BY <1>16, MachineIs, ScriptOps
  <2>2. Step(script[11], m) = On(i, 12, <<key, sig>>)
    BY <1>16, <2>1, EqualVerifyOf
  <2> QED
    BY <1>1, <1>16, <2>1, <2>2 DEF ClaimAt
<1>17. CASE /\ pre = spec.payment_hash
            /\ key # spec.claimer
            /\ m = On(i, 11, <<hash160[spec.claimer], hash160[key], key, sig>>)
  <2>1. m.pc = 11 /\ script[11].op = "EQUALVERIFY"
        /\ hash160[spec.claimer] # hash160[key]
    BY <1>17, MachineIs, ScriptOps, <1>4
  <2>2. Step(script[11], m) = Stopped(i, 12, <<key, sig>>)
    BY <1>17, <2>1, EqualVerifyOf
  <2> QED
    BY <1>1, <1>17, <2>1, <2>2 DEF ClaimAt
<1>18. CASE pre = spec.payment_hash /\ key = spec.claimer /\ m = On(i, 12, <<key, sig>>)
  <2>1. m.pc = 12 /\ script[12].op = "CHECKSIG"
    BY <1>18, MachineIs, ScriptOps
  <2>2. Step(script[12], m) = On(i, 13, << <<1>> >>)
    BY <1>18, <2>1, <1>2, ChecksigOf
  <2> QED
    BY <1>1, <1>18, <2>1, <2>2 DEF ClaimAt
<1>19. CASE pre = spec.payment_hash /\ key = spec.claimer /\ m = On(i, 13, << <<1>> >>)
  <2>1. m.pc = 13 /\ script[13].op = "ELSE"
    BY <1>19, MachineIs, ScriptOps
  <2>2. Step(script[13], m) = Off(i, 14, << <<1>> >>)
    BY <1>19, <2>1, DoElse
  <2> QED
    BY <1>1, <1>19, <2>1, <2>2 DEF ClaimAt
<1>20. CASE /\ pre = spec.payment_hash
            /\ key = spec.claimer
            /\ \E pc \in 14..22 : m = Off(i, pc, << <<1>> >>)
  <2>1. PICK pc \in 14..22 : m = Off(i, pc, << <<1>> >>)
    BY <1>20
  <2>2. m.pc = pc
    BY <2>1, MachineIs
  <2>3. CASE pc = 22
    <3>1. script[22].op = "ENDIF"
      BY ScriptOps
    <3>2. Step(script[22], m) = On(i, 23, << <<1>> >>)
      BY <2>1, <2>3, <3>1, DoOtherEndif
    <3> QED
      BY <1>1, <1>20, <2>2, <2>3, <3>2 DEF ClaimAt
  <2>4. CASE pc # 22
    <3>1. script[pc].op \notin {"IF", "ELSE", "ENDIF"}
      BY <2>1, <2>4, InBranch
    <3>2. Step(script[pc], m) = Off(i, pc + 1, << <<1>> >>) /\ pc + 1 \in 14..22
      BY <2>1, <2>4, <3>1, DoSkip
    <3> QED
      BY <1>1, <1>20, <2>2, <3>2 DEF ClaimAt
  <2> QED
    BY <2>1, <2>3, <2>4
<1>21. m # On(i, 23, << <<1>> >>) /\ ~(\E pc \in {8, 12} : m = Stopped(i, pc, <<key, sig>>))
  BY MachineIs
<1> QED
  BY <1>1, <1>5, <1>6, <1>7, <1>8, <1>9, <1>10, <1>11, <1>12, <1>13, <1>14, <1>15,
       <1>16, <1>17, <1>18, <1>19, <1>20, <1>21 DEF ClaimAt

\* Each instruction takes a refund transaction one place further.
LEMMA RefundStep ==
    ASSUME NEW t, NEW spec \in HtlcSpec, spec.refund_lock_height \in U32,
           t.key \in Key, NEW i, NEW m, RefundAt(t, spec, i, m),
           NEW script, script = ScriptOf(spec), SignatureValid(t.witness[i][1], t.key),
           LockTimeReached(build_scriptint(spec.refund_lock_height), i),
           m.ok, m.pc <= 22
    PROVE  RefundAt(t, spec, i, Step(script[m.pc], m))
<1>1. PICK sig, key, lock, n :
        /\ sig = t.witness[i][1] /\ key = t.key
        /\ lock = build_scriptint(spec.refund_lock_height) /\ n = Step(script[m.pc], m)
  OBVIOUS
<1>2. SignatureValid(sig, key)
  BY <1>1
<1>3. LockTimeReached(lock, i)
  BY <1>1
<1>4. (hash160[spec.refunder] = hash160[key]) <=> key = spec.refunder
  BY <1>1, KeyIsHash DEF HtlcSpec
<1>5. CASE m = On(i, 1, << <<>>, key, sig >>)
  <2>1. m.pc = 1 /\ script[1].op = "IF"
    BY <1>5, MachineIs, ScriptOps
  <2>2. PICK s : s = << <<>>, key, sig >>
    OBVIOUS
  <2>3. Head(s) = <<>> /\ Tail(s) = <<key, sig>>
    BY <2>2
  <2>4. Step(script[1], On(i, 1, s)) = Off(i, 2, Tail(s))
    BY <2>1, <2>3, DoIf
  <2>5. Step(script[1], m) = Off(i, 2, <<key, sig>>)
    BY <1>5, <2>1, <2>2, <2>3, <2>4
  <2> QED
    BY <1>1, <1>5, <2>1, <2>5 DEF RefundAt
<1>6. CASE \E pc \in 2..13 : m = Off(i, pc, <<key, sig>>)
  <2>1. PICK pc \in 2..13 : m = Off(i, pc, <<key, sig>>)
    BY <1>6
  <2>2. m.pc = pc
    BY <2>1, MachineIs
  <2>3. CASE pc = 13
    <3>1. script[13].op = "ELSE"
      BY ScriptOps
    <3>2. Step(script[13], m) = On(i, 14, <<key, sig>>)
      BY <2>1, <2>3, <3>1, DoOtherElse
    <3> QED
      BY <1>1, <1>6, <2>2, <2>3, <3>2 DEF RefundAt
  <2>4. CASE pc # 13
    <3>1. script[pc].op \notin {"IF", "ELSE", "ENDIF"}
      BY <2>1, <2>4, InBranch
    <3>2. Step(script[pc], m) = Off(i, pc + 1, <<key, sig>>) /\ pc + 1 \in 2..13
      BY <2>1, <2>4, <3>1, DoSkip
    <3> QED
      BY <1>1, <1>6, <2>2, <3>2 DEF RefundAt
  <2> QED
    BY <2>1, <2>3, <2>4
<1>7. CASE m = On(i, 14, <<key, sig>>)
  <2>1. m.pc = 14 /\ script[14].op \in {"PUSHBYTES", "PUSHNUM"}
        /\ script[14].data = lock
    BY <1>7, MachineIs, ScriptOps, <1>1
  <2>2. PICK s : s = <<key, sig>>
    OBVIOUS
  <2>3. Step(script[14], On(i, 14, s)) = On(i, 15, <<script[14].data>> \o s)
    BY <2>1, DoPush
  <2>4. <<script[14].data>> \o s = <<lock, key, sig>>
    BY <2>1, Push2, <2>2
  <2>5. Step(script[14], m) = On(i, 15, <<lock, key, sig>>)
    BY <1>7, <2>1, <2>2, <2>3, <2>4
  <2> QED
    BY <1>1, <1>7, <2>1, <2>5 DEF RefundAt
<1>8. CASE m = On(i, 15, <<lock, key, sig>>)
  <2>1. m.pc = 15 /\ script[15].op = "CLTV"
    BY <1>8, MachineIs, ScriptOps
  <2>2. PICK s : s = <<lock, key, sig>>
    OBVIOUS
  <2>3. LockTimeReached(Head(s), i)
    BY <1>3, <2>2
  <2>4. Step(script[15], On(i, 15, s)) = On(i, 16, s)
    BY <2>1, <2>3, DoCltv
  <2>5. Step(script[15], m) = On(i, 16, <<lock, key, sig>>)
    BY <1>8, <2>1, <2>2, <2>3, <2>4
  <2> QED
    BY <1>1, <1>8, <2>1, <2>5 DEF RefundAt
<1>9. CASE m = On(i, 16, <<lock, key, sig>>)
  <2>1. m.pc = 16 /\ script[16].op = "DROP"
    BY <1>9, MachineIs, ScriptOps
  <2>2. PICK s : s = <<lock, key, sig>>
    OBVIOUS
  <2>3. Tail(s) = <<key, sig>>
    BY <2>2
  <2>4. Step(script[16], On(i, 16, s)) = On(i, 17, Tail(s))
    BY <2>1, DoDrop
  <2>5. Step(script[16], m) = On(i, 17, <<key, sig>>)
    BY <1>9, <2>1, <2>2, <2>3, <2>4
  <2> QED
    BY <1>1, <1>9, <2>1, <2>5 DEF RefundAt
<1>10. CASE m = On(i, 17, <<key, sig>>)
  <2>1. m.pc = 17 /\ script[17].op = "DUP"
    BY <1>10, MachineIs, ScriptOps
  <2>2. Step(script[17], m) = On(i, 18, <<key, key, sig>>)
    BY <1>10, <2>1, DupOf
  <2> QED
    BY <1>1, <1>10, <2>1, <2>2 DEF RefundAt
<1>11. CASE m = On(i, 18, <<key, key, sig>>)
  <2>1. m.pc = 18 /\ script[18].op = "HASH160"
    BY <1>11, MachineIs, ScriptOps
  <2>2. Step(script[18], m) = On(i, 19, <<hash160[key], key, sig>>)
    BY <1>11, <2>1, Hash160Of
  <2> QED
    BY <1>1, <1>11, <2>1, <2>2 DEF RefundAt
<1>12. CASE m = On(i, 19, <<hash160[key], key, sig>>)
  <2>1. m.pc = 19 /\ script[19].op = "PUSHBYTES" /\ script[19].data = hash160[spec.refunder]
    BY <1>12, MachineIs, ScriptOps
  <2>2. PICK s : s = <<hash160[key], key, sig>>
    OBVIOUS
  <2>3. Step(script[19], On(i, 19, s)) = On(i, 20, <<script[19].data>> \o s)
    BY <2>1, DoPush
  <2>4. <<script[19].data>> \o s = <<hash160[spec.refunder], hash160[key], key, sig>>
    BY <2>1, Push3, <2>2
  <2>5. Step(script[19], m) = On(i, 20, <<hash160[spec.refunder], hash160[key], key, sig>>)
    BY <1>12, <2>1, <2>2, <2>3, <2>4
  <2> QED
    BY <1>1, <1>12, <2>1, <2>5 DEF RefundAt
<1>13. CASE /\ key = spec.refunder
            /\ m = On(i, 20, <<hash160[spec.refunder], hash160[key], key, sig>>)
  <2>1. m.pc = 20 /\ script[20].op = "EQUALVERIFY"
    BY <1>13, MachineIs, ScriptOps
  <2>2. Step(script[20], m) = On(i, 21, <<key, sig>>)
    BY <1>13, <2>1, EqualVerifyOf
  <2> QED
    BY <1>1, <1>13, <2>1, <2>2 DEF RefundAt
<1>14. CASE /\ key # spec.refunder
            /\ m = On(i, 20, <<hash160[spec.refunder], hash160[key], key, sig>>)
  <2>1. m.pc = 20 /\ script[20].op = "EQUALVERIFY"
        /\ hash160[spec.refunder] # hash160[key]
    BY <1>14, MachineIs, ScriptOps, <1>4
  <2>2. Step(script[20], m) = Stopped(i, 21, <<key, sig>>)
    BY <1>14, <2>1, EqualVerifyOf
  <2> QED
    BY <1>1, <1>14, <2>1, <2>2 DEF RefundAt
<1>15. CASE key = spec.refunder /\ m = On(i, 21, <<key, sig>>)
  <2>1. m.pc = 21 /\ script[21].op = "CHECKSIG"
    BY <1>15, MachineIs, ScriptOps
  <2>2. Step(script[21], m) = On(i, 22, << <<1>> >>)
    BY <1>15, <2>1, <1>2, ChecksigOf
  <2> QED
    BY <1>1, <1>15, <2>1, <2>2 DEF RefundAt
<1>16. CASE key = spec.refunder /\ m = On(i, 22, << <<1>> >>)
  <2>1. m.pc = 22 /\ script[22].op = "ENDIF"
    BY <1>16, MachineIs, ScriptOps
  <2>2. Step(script[22], m) = On(i, 23, << <<1>> >>)
    BY <1>16, <2>1, DoEndif
  <2> QED
    BY <1>1, <1>16, <2>1, <2>2 DEF RefundAt
<1>17. m # On(i, 23, << <<1>> >>) /\ ~(m = Stopped(i, 21, <<key, sig>>))
  BY MachineIs
<1> QED
  BY <1>1, <1>5, <1>6, <1>7, <1>8, <1>9, <1>10, <1>11, <1>12, <1>13, <1>14, <1>15,
       <1>16, <1>17 DEF RefundAt

-----------------------------------------------------------------------------
(* The invariant.                                                          *)

\* The row's height is the sum of the tip and the offer's delta, cut off at the
\* end of the range.
RowLocks ==
    row # NoRow =>
        /\ funding # NotFunded
        /\ funding.tip \in Nat /\ funding.offer.refund_delta_blocks \in Nat
        /\ row.refund_lock_height =
              SaturatingAdd(funding.tip, funding.offer.refund_delta_blocks)

\* What the HTLC on the network is.
FundingKept ==
    funding # NotFunded =>
        /\ funding.spec \in HtlcSpec /\ funding.spec.refund_lock_height \in U32
        /\ funding.asset \in SellAsset /\ funding.tip \in 1..tip
        /\ DOMAIN funding.outputs = 1..3

\* The row is about that HTLC.
RowKept ==
    row # NoRow =>
        /\ funding # NotFunded
        /\ row.witness_script = ScriptOf(funding.spec)
        /\ row.refund_lock_height = funding.spec.refund_lock_height
        /\ row.asset = funding.asset
        /\ row.asset_amount \in Nat /\ row.fee_subsidy_sats \in Nat
        /\ row.asset_vout \in 1..3 /\ row.lbtc_vout \in 1..3

\* A transaction is what claim_tx or refund_tx builds from the row.
TxBuilt ==
    tx # NoTx =>
        /\ row # NoRow /\ tx.script = row.witness_script
        /\ tx.key \in Key /\ tx.fee \in Nat /\ tx.fee < row.fee_subsidy_sats
        /\ \/ /\ tx.path = "claim" /\ tx.preimage \in Invoice
              /\ tx.body = Body(tx.key, tx.fee, SEQUENCE_MAX, 0)
              /\ \A i \in 1..2 : tx.witness[i] =
                    << segwit_v0_sign(tx.key, tx.body, i), tx.key, tx.preimage, <<1>> >>
           \/ /\ tx.path = "refund" /\ row.refund_lock_height < LockTimeThreshold
              /\ tx.body = Body(tx.key, tx.fee, ENABLE_LOCKTIME_NO_RBF,
                                row.refund_lock_height)
              /\ \A i \in 1..2 : tx.witness[i] =
                    << segwit_v0_sign(tx.key, tx.body, i), tx.key, <<>> >>

\* The interpreter is somewhere on the way of that transaction.
MachineRight ==
    vm # None =>
        /\ tx # NoTx /\ verdict = "none" /\ vm.input \in 1..2
        /\ tx.path = "claim" => ClaimAt(tx, funding.spec, vm.input, vm)
        /\ tx.path = "refund" => RefundAt(tx, funding.spec, vm.input, vm)

\* What the verdict must be.
Valid ==
    /\ tx.path = "claim" =>
          tx.key = funding.spec.claimer /\ tx.preimage = funding.spec.payment_hash
    /\ tx.path = "refund" =>
          tx.key = funding.spec.refunder /\ tip >= funding.spec.refund_lock_height

VerdictRight ==
    /\ verdict \in {"none", "accepted", "refused"}
    /\ verdict # "none" => tx # NoTx /\ (verdict = "accepted" <=> Valid)

IInv ==
    /\ tip \in 1..MaxTip
    /\ FundingKept /\ RowLocks /\ RowKept /\ RowFindsHtlc
    /\ TxBuilt /\ MachineRight /\ VerdictRight

-----------------------------------------------------------------------------
(* The network on a transaction of ours.                                   *)

\* Both inputs are of the HTLC, with the values that were signed.
LEMMA InputsAreOurs ==
    ASSUME RowFindsHtlc, TxBuilt, tx # NoTx, NEW i \in 1..2
    PROVE  Spent(i) = [script |-> tx.script,
                       asset |-> IF i = 1 THEN row.asset ELSE Lbtc,
                       value |-> IF i = 1 THEN row.asset_amount ELSE row.fee_subsidy_sats]
<1>1. row # NoRow /\ tx.script = row.witness_script
  BY DEF TxBuilt
<1>2. /\ tx.body.inputs[1].vout = row.asset_vout
      /\ tx.body.inputs[2].vout = row.lbtc_vout
  BY DEF TxBuilt, Body
<1>3. CASE i = 1
  BY <1>1, <1>2, <1>3 DEF Spent, RowFindsHtlc
<1>4. CASE i = 2
  BY <1>1, <1>2, <1>4 DEF Spent, RowFindsHtlc
<1> QED
  BY <1>3, <1>4

\* OP_CHECKSIG takes the signature an input carries, from the key it carries.
LEMMA SignatureIsValid ==
    ASSUME RowFindsHtlc, TxBuilt, tx # NoTx, vm.input \in 1..2
    PROVE  SignatureValid(tx.witness[vm.input][1], tx.key)
<1>1. PICK i \in 1..2 : i = vm.input
  OBVIOUS
<1>2. tx.witness[i][1] = segwit_v0_sign(tx.key, tx.body, i)
  BY DEF TxBuilt
<1>3. PICK spent : spent = Spent(i)
  OBVIOUS
<1>4. /\ spent.value = IF i = 1 THEN row.asset_amount ELSE row.fee_subsidy_sats
      /\ tx.script = row.witness_script
  BY <1>3, InputsAreOurs DEF TxBuilt
<1> QED
  BY <1>1, <1>2, <1>3, <1>4 DEF SignatureValid, segwit_v0_sign

\* OP_CHECKLOCKTIMEVERIFY takes the lock time of a refund transaction.
LEMMA LockTimeIsReached ==
    ASSUME FundingKept, RowKept, TxBuilt, tx # NoTx, tx.path = "refund", NEW i \in 1..2
    PROVE  LockTimeReached(build_scriptint(funding.spec.refund_lock_height), i)
<1>1. PICK lock \in U32 : lock = funding.spec.refund_lock_height
  BY DEF FundingKept, RowKept, TxBuilt
<1>2. row.refund_lock_height = lock /\ lock < LockTimeThreshold
  BY <1>1 DEF RowKept, TxBuilt
<1>3. tx.body = Body(tx.key, tx.fee, ENABLE_LOCKTIME_NO_RBF, lock)
  BY <1>2 DEF TxBuilt
<1>4. tx.body.lock_time = lock /\ tx.body.inputs[i].sequence = ENABLE_LOCKTIME_NO_RBF
  BY <1>3 DEF Body
<1>5. ENABLE_LOCKTIME_NO_RBF # SEQUENCE_MAX
  BY DEF ENABLE_LOCKTIME_NO_RBF, SEQUENCE_MAX
<1>6. decode_script_num(build_scriptint(lock)) = lock /\ Len(build_scriptint(lock)) <= 5
  BY DecodeInvertsBuild
<1>7. lock \in Nat
  BY DEF U32
<1> QED
  BY <1>1, <1>2, <1>4, <1>5, <1>6, <1>7 DEF LockTimeReached

\* What goes out is what came in.
LEMMA TxIsBalanced ==
    ASSUME RowKept, RowFindsHtlc, TxBuilt, tx # NoTx
    PROVE  Balanced
<1>1. PICK amount \in Nat, subsidy \in Nat, fee \in Nat :
        /\ amount = row.asset_amount /\ subsidy = row.fee_subsidy_sats /\ fee = tx.fee
  BY DEF RowKept, TxBuilt
<1>2. PICK a1, a2 : a1 = Spent(1) /\ a2 = Spent(2)
  OBVIOUS
<1>3. a1.asset = row.asset /\ a1.value = amount /\ a2.asset = Lbtc /\ a2.value = subsidy
  BY <1>1, <1>2, InputsAreOurs
<1>4. PICK o1, o2, o3 :
        o1 = tx.body.outputs[1] /\ o2 = tx.body.outputs[2] /\ o3 = tx.body.outputs[3]
  OBVIOUS
<1>5. /\ o1.asset = row.asset /\ o1.value = amount
      /\ o2.asset = Lbtc /\ o2.value = subsidy - fee
      /\ o3.asset = Lbtc /\ o3.value = fee
  BY <1>1, <1>4 DEF TxBuilt, Body
<1> SUFFICES ASSUME NEW a
             PROVE  (IF a1.asset = a THEN a1.value ELSE 0)
                      + (IF a2.asset = a THEN a2.value ELSE 0)
                    = (IF o1.asset = a THEN o1.value ELSE 0)
                      + (IF o2.asset = a THEN o2.value ELSE 0)
                      + (IF o3.asset = a THEN o3.value ELSE 0)
  BY <1>2, <1>4 DEF Balanced
<1> QED
  BY <1>3, <1>5

\* A claim is final at once, a refund when the tip has the lock height.
LEMMA TxIsFinal ==
    ASSUME FundingKept, RowKept, TxBuilt, tx # NoTx
    PROVE  /\ tx.path = "claim" => Final
           /\ tx.path = "refund" => (Final <=> funding.spec.refund_lock_height <= tip)
<1>1. ASSUME tx.path = "claim" PROVE Final
  <2>1. \A i \in 1..2 : tx.body.inputs[i].sequence = SEQUENCE_MAX
    BY <1>1 DEF TxBuilt, Body
  <2> QED
    BY <2>1 DEF Final
<1>2. ASSUME tx.path = "refund"
      PROVE  Final <=> funding.spec.refund_lock_height <= tip
  <2>1. tx.body.lock_time = funding.spec.refund_lock_height
    BY <1>2 DEF TxBuilt, RowKept, Body
  <2>2. tx.body.inputs[1].sequence = ENABLE_LOCKTIME_NO_RBF
    BY <1>2 DEF TxBuilt, Body
  <2>3. ENABLE_LOCKTIME_NO_RBF # SEQUENCE_MAX
    BY DEF ENABLE_LOCKTIME_NO_RBF, SEQUENCE_MAX
  <2> QED
    BY <2>1, <2>2, <2>3 DEF Final
<1> QED
  BY <1>1, <1>2

\* Where the script ends, and with what.
LEMMA ClaimEnds ==
    ASSUME NEW t, NEW spec, NEW i, NEW m, ClaimAt(t, spec, i, m), ~(m.ok /\ m.pc <= 22)
    PROVE  (m.ok /\ m.stack = << <<1>> >>)
               <=> (t.key = spec.claimer /\ t.preimage = spec.payment_hash)
BY MachineIs, SMTT(30) DEF ClaimAt

\* A refund that ends with true is signed by the refunder.
LEMMA RefundEnds ==
    ASSUME NEW t, NEW spec, NEW i, NEW m, RefundAt(t, spec, i, m), ~(m.ok /\ m.pc <= 22)
    PROVE  (m.ok /\ m.stack = << <<1>> >>) <=> t.key = spec.refunder
BY MachineIs, SMTT(30) DEF RefundAt

-----------------------------------------------------------------------------
(* The outputs.                                                            *)

\* The largest element of a set that has one element.
LEMMA MaxOfOne == ASSUME NEW n \in Nat PROVE Max({n}) = n
BY DEF Max

\* u32::MAX is a number.
LEMMA MaxIsNat == MaxU32 \in Nat
<1>1. Byte \in Nat /\ Byte >= 1
  BY ByteAssumption
<1>2. Byte * Byte \in Nat /\ Byte * Byte >= 1
  BY <1>1
<1>3. Byte * Byte * Byte \in Nat /\ Byte * Byte * Byte >= 1
  BY <1>1, <1>2
<1>4. Byte * Byte * Byte * Byte \in Nat /\ Byte * Byte * Byte * Byte >= 1
  BY <1>1, <1>3
<1> QED
  BY <1>4 DEF MaxU32

\* The sum of service.rs is a u32.
LEMMA SumIsU32 ==
    ASSUME NEW a \in Nat, NEW b \in Nat
    PROVE  SaturatingAdd(a, b) \in U32
<1>1. PICK m \in Nat : m = MaxU32
  BY MaxIsNat
<1>2. \E x \in {a + b, m} : \A y \in {a + b, m} : x <= y
  <2>1. CASE a + b <= m
    BY <2>1
  <2>2. CASE m <= a + b
    BY <2>2
  <2> QED
    BY <2>1, <2>2
<1>3. SaturatingAdd(a, b) \in {a + b, m} /\ \A y \in {a + b, m} : SaturatingAdd(a, b) <= y
  BY <1>1, <1>2 DEF SaturatingAdd, Min
<1> QED
  BY <1>1, <1>3 DEF U32

\* The sum of service.rs, where it was not cut off.
LEMMA SumBelowThreshold ==
    ASSUME NEW a \in Nat, NEW b \in Nat, SaturatingAdd(a, b) < LockTimeThreshold
    PROVE  SaturatingAdd(a, b) = a + b
<1>1. PICK m : m = MaxU32
  OBVIOUS
<1>2. LockTimeThreshold <= m /\ m \in Int
  BY <1>1, HeightAssumption, MaxIsNat
<1>3. SaturatingAdd(a, b) \in {a + b, m}
      /\ \A y \in {a + b, m} : SaturatingAdd(a, b) <= y
  <2>1. SaturatingAdd(a, b) = Min({a + b, m})
    BY <1>1 DEF SaturatingAdd
  <2>2. \E x \in {a + b, m} : \A y \in {a + b, m} : x <= y
    <3>1. CASE a + b <= m
      BY <1>2, <3>1
    <3>2. CASE m <= a + b
      BY <1>2, <3>2
    <3> QED
      BY <1>2, <3>1, <3>2
  <2> QED
    BY <2>1, <2>2 DEF Min
<1> QED
  BY <1>2, <1>3, HeightAssumption

\* A witness script is no empty script, which locks the change.
LEMMA ScriptIsNotEmpty == ASSUME NEW spec PROVE ScriptOf(spec) # <<>>
<1>1. ASSUME NEW s PROVE witness_script(s) # <<>>
  BY DEF witness_script
<1> QED
  BY <1>1 DEF ScriptOf

\* The lookup fails for the policy asset, and finds the one place of each else.
FindsEach(outputs, script, sold, amount, subsidy) ==
    /\ sold = Lbtc => HtlcVout(outputs, script, {Lbtc} \ {sold}) = {}
    /\ sold # Lbtc =>
         \E a, b \in 1..3 :
            /\ HtlcVout(outputs, script, {sold}) = {a}
            /\ HtlcVout(outputs, script, {Lbtc} \ {sold}) = {b}
            /\ outputs[a] = [script |-> script, asset |-> sold, value |-> amount]
            /\ outputs[b] = [script |-> script, asset |-> Lbtc, value |-> subsidy]

\* Three outputs, two of which the script locks, in any order: the lookup by
\* script and asset finds the one place of each, unless they have one asset.
LEMMA LookupFinds ==
    ASSUME NEW script, script # <<>>, NEW sold, NEW amount, NEW subsidy, NEW change,
           NEW order \in Order, NEW outputs,
           outputs = Outputs(script, sold, amount, subsidy, change, order)
    PROVE  FindsEach(outputs, script, sold, amount, subsidy)
<1> DEFINE A == [script |-> script, asset |-> sold, value |-> amount]
           B == [script |-> script, asset |-> Lbtc, value |-> subsidy]
           C == [script |-> <<>>, asset |-> change, value |-> 1]
<1>1. PICK parts : parts = <<A, B, C>>
  OBVIOUS
<1>2. parts[1] = A /\ parts[2] = B /\ parts[3] = C
  BY <1>1
<1>3. /\ order \in [1..3 -> 1..3]
      /\ \A i, j \in 1..3 : order[i] = order[j] => i = j
      /\ \E i \in 1..3 : order[i] = 1
      /\ \E i \in 1..3 : order[i] = 2
  BY OrderAssumption DEF Bijection, Injection, Surjection, IsInjective
<1>4. DOMAIN outputs = 1..3 /\ \A i \in 1..3 : outputs[i] = parts[order[i]]
  BY <1>1 DEF Outputs
<1>5. PICK a \in 1..3, b \in 1..3 : order[a] = 1 /\ order[b] = 2
  BY <1>3
<1>6. ASSUME NEW i \in 1..3
      PROVE  \/ i = a /\ outputs[i] = A
             \/ i = b /\ outputs[i] = B
             \/ i # a /\ i # b /\ outputs[i] = C
  <2>1. order[i] \in 1..3
    BY <1>3
  <2>2. order[i] = 1 <=> i = a
    BY <1>3, <1>5
  <2>3. order[i] = 2 <=> i = b
    BY <1>3, <1>5
  <2> QED
    BY <1>2, <1>4, <2>1, <2>2, <2>3
<1>7. outputs[a] = A /\ outputs[b] = B
  BY <1>2, <1>4, <1>5
<1>8. A.script = script /\ B.script = script /\ C.script # script
      /\ A.asset = sold /\ B.asset = Lbtc
  OBVIOUS
<1> HIDE DEF A, B, C
<1>9. sold = Lbtc => HtlcVout(outputs, script, {Lbtc} \ {sold}) = {}
  BY DEF HtlcVout
<1>10. ASSUME sold # Lbtc
       PROVE  /\ HtlcVout(outputs, script, {sold}) = {a}
              /\ HtlcVout(outputs, script, {Lbtc} \ {sold}) = {b}
  <2>1. ASSUME NEW i \in 1..3
        PROVE  /\ (outputs[i].script = script /\ outputs[i].asset = sold) <=> i = a
               /\ (outputs[i].script = script /\ outputs[i].asset = Lbtc) <=> i = b
    BY <1>6, <1>7, <1>8, <1>10
  <2>2. {Lbtc} \ {sold} = {Lbtc}
    BY <1>10
  <2>3. /\ HtlcVout(outputs, script, {sold}) = {a}
        /\ HtlcVout(outputs, script, {Lbtc}) = {b}
    BY <1>4, <2>1 DEF HtlcVout
  <2> QED
    BY <2>2, <2>3
<1> QED
  BY <1>7, <1>9, <1>10 DEF A, B, FindsEach

\* build_and_broadcast_funding makes the row of the HTLC it funds.
LEMMA FundIsRight ==
    ASSUME tip \in 1..MaxTip, NEW sold \in SellAsset, NEW offer \in Offer,
           NEW direction \in Direction, NEW invoice \in Invoice,
           NEW address \in BuyerAddress,
           Fund(sold, offer, direction, invoice, address)
    PROVE  RowFindsHtlc' /\ RowLocks' /\ FundingKept' /\ RowKept'
<1> DEFINE Locked == RefundLockHeight(offer.refund_delta_blocks)
           Spec0 == HtlcSpecFor(direction, invoice, address, Locked)
           Made(script, change, order) ==
             Outputs(script, sold, AssetAmount, offer.fee_subsidy_sats, change, order)
           Funded(outputs, spec) == [outputs |-> outputs, spec |-> spec, asset |-> sold,
                                     offer |-> offer, tip |-> tip]
           Row(script, lock, asset_vout, lbtc_vout) ==
             IF asset_vout = {} \/ lbtc_vout = {} THEN NoRow
             ELSE [asset_vout |-> Max(asset_vout), lbtc_vout |-> Max(lbtc_vout),
                   asset |-> sold, asset_amount |-> AssetAmount,
                   fee_subsidy_sats |-> offer.fee_subsidy_sats,
                   refund_lock_height |-> lock, witness_script |-> script]
<1>1. PICK change, order :
        /\ order \in Order
        /\ funding' = Funded(Made(ScriptOf(Spec0), change, order), Spec0)
        /\ row' = Row(ScriptOf(Spec0), Locked,
                      HtlcVout(Made(ScriptOf(Spec0), change, order), ScriptOf(Spec0), {sold}),
                      HtlcVout(Made(ScriptOf(Spec0), change, order), ScriptOf(Spec0),
                               {Lbtc} \ {sold}))
  BY Zenon DEF Fund
<1> HIDE DEF Made, Funded, Row
<1>2. PICK lock, spec, script :
        /\ lock = RefundLockHeight(offer.refund_delta_blocks)
        /\ spec = HtlcSpecFor(direction, invoice, address, lock)
        /\ script = ScriptOf(spec)
        /\ funding' = Funded(Made(script, change, order), spec)
        /\ row' = Row(script, lock, HtlcVout(Made(script, change, order), script, {sold}),
                      HtlcVout(Made(script, change, order), script, {Lbtc} \ {sold}))
  BY <1>1, Zenon
<1>3. script # <<>>
  BY <1>2, ScriptIsNotEmpty
<1>4. PICK outputs, asset_vout, lbtc_vout :
        /\ order \in Order
        /\ outputs = Outputs(script, sold, AssetAmount, offer.fee_subsidy_sats, change, order)
        /\ asset_vout = HtlcVout(outputs, script, {sold})
        /\ lbtc_vout = HtlcVout(outputs, script, {Lbtc} \ {sold})
        /\ funding' = [outputs |-> outputs, spec |-> spec, asset |-> sold, offer |-> offer,
                       tip |-> tip]
        /\ row' = IF asset_vout = {} \/ lbtc_vout = {} THEN NoRow
                  ELSE [asset_vout |-> Max(asset_vout), lbtc_vout |-> Max(lbtc_vout),
                        asset |-> sold, asset_amount |-> AssetAmount,
                        fee_subsidy_sats |-> offer.fee_subsidy_sats,
                        refund_lock_height |-> lock, witness_script |-> script]
  <2>1. \E outputs, asset_vout, lbtc_vout :
          /\ order \in Order
          /\ outputs = Made(script, change, order)
          /\ asset_vout = HtlcVout(outputs, script, {sold})
          /\ lbtc_vout = HtlcVout(outputs, script, {Lbtc} \ {sold})
          /\ funding' = Funded(outputs, spec)
          /\ row' = Row(script, lock, asset_vout, lbtc_vout)
    BY <1>1, <1>2, ZenonT(30)
  <2> QED
    BY <2>1, ZenonT(30) DEF Made, Funded, Row
<1>5. /\ sold = Lbtc => lbtc_vout = {}
      /\ sold # Lbtc =>
           \E a, b \in 1..3 :
              /\ asset_vout = {a} /\ lbtc_vout = {b}
              /\ outputs[a] = [script |-> script, asset |-> sold, value |-> AssetAmount]
              /\ outputs[b] = [script |-> script, asset |-> Lbtc,
                               value |-> offer.fee_subsidy_sats]
  <2>1. /\ order \in Order
        /\ outputs = Outputs(script, sold, AssetAmount, offer.fee_subsidy_sats,
                             change, order)
    BY <1>4
  <2>2. FindsEach(outputs, script, sold, AssetAmount, offer.fee_subsidy_sats)
    BY <1>3, <2>1, LookupFinds
  <2> QED
    BY <1>4, <2>2 DEF FindsEach
<1>6. funding' # NotFunded
  <2>1. DOMAIN outputs = 1..3 /\ DOMAIN <<>> = {}
    BY <1>4 DEF Outputs
  <2>2. outputs # <<>>
    BY <2>1
  <2>3. funding'.outputs = outputs
    BY <1>4
  <2> QED
    BY <2>2, <2>3 DEF NotFunded
<1>7. offer.refund_delta_blocks \in Nat /\ offer.fee_subsidy_sats \in Nat /\ tip \in Nat
  BY OfferAssumption
<1>8. RowLocks'
  BY <1>2, <1>4, <1>6, <1>7 DEF RowLocks, RefundLockHeight
<1>9. RowFindsHtlc'
  <2>1. CASE sold = Lbtc
    BY <1>4, <1>5, <2>1 DEF RowFindsHtlc
  <2>2. CASE sold # Lbtc
    <3>1. PICK a \in 1..3, b \in 1..3 :
              /\ asset_vout = {a} /\ lbtc_vout = {b}
              /\ outputs[a] = [script |-> script, asset |-> sold, value |-> AssetAmount]
              /\ outputs[b] = [script |-> script, asset |-> Lbtc,
                               value |-> offer.fee_subsidy_sats]
      BY <1>5, <2>2
    <3>2. Max(asset_vout) = a /\ Max(lbtc_vout) = b
      BY <3>1, MaxOfOne
    <3>3. row' = [asset_vout |-> a, lbtc_vout |-> b,
                  asset |-> sold, asset_amount |-> AssetAmount,
                  fee_subsidy_sats |-> offer.fee_subsidy_sats,
                  refund_lock_height |-> lock, witness_script |-> script]
      BY <1>4, <3>1, <3>2
    <3>4. row' # NoRow
      BY <1>3, <3>3 DEF NoRow
    <3>5. funding'.outputs = outputs
      BY <1>4
    <3>6. /\ funding'.outputs[row'.asset_vout] = [script |-> script, asset |-> sold,
                                                  value |-> AssetAmount]
          /\ funding'.outputs[row'.lbtc_vout] = [script |-> script, asset |-> Lbtc,
                                                 value |-> offer.fee_subsidy_sats]
          /\ row'.witness_script = script /\ row'.asset = sold
          /\ row'.asset_amount = AssetAmount
          /\ row'.fee_subsidy_sats = offer.fee_subsidy_sats
      BY <3>1, <3>3, <3>5
    <3> QED
      BY <3>4, <3>6 DEF RowFindsHtlc
  <2> QED
    BY <2>1, <2>2
<1>10. lock \in U32 /\ lock \in Nat
  <2>1. PICK a \in Nat, b \in Nat : a = tip /\ b = offer.refund_delta_blocks
    BY <1>7
  <2>2. SaturatingAdd(a, b) \in U32
    BY SumIsU32
  <2>3. lock = SaturatingAdd(a, b)
    BY <1>2, <2>1 DEF RefundLockHeight
  <2>4. lock \in U32
    BY <2>2, <2>3
  <2>5. lock \in Nat
    BY <2>4, MaxIsNat DEF U32
  <2> QED
    BY <2>4, <2>5
<1>11. spec \in HtlcSpec /\ spec.refund_lock_height = lock
  BY <1>2, <1>10, AddressAssumption DEF HtlcSpecFor, HtlcSpec, Key
<1>12. FundingKept'
  <2>1. /\ funding'.spec = spec /\ funding'.asset = sold /\ funding'.tip = tip
        /\ funding'.outputs = outputs
    BY <1>4
  <2>2. DOMAIN outputs = 1..3
    BY <1>4 DEF Outputs
  <2>3. tip' = tip /\ tip \in 1..tip
    BY DEF Fund
  <2> QED
    BY <1>10, <1>11, <2>1, <2>2, <2>3 DEF FundingKept
<1>13. RowKept'
  <2>1. CASE sold = Lbtc
    BY <1>4, <1>5, <2>1 DEF RowKept
  <2>2. CASE sold # Lbtc
    <3>1. PICK a \in 1..3, b \in 1..3 : asset_vout = {a} /\ lbtc_vout = {b}
      BY <1>5, <2>2
    <3>2. Max(asset_vout) = a /\ Max(lbtc_vout) = b
      BY <3>1, MaxOfOne
    <3>3. row' = [asset_vout |-> a, lbtc_vout |-> b,
                  asset |-> sold, asset_amount |-> AssetAmount,
                  fee_subsidy_sats |-> offer.fee_subsidy_sats,
                  refund_lock_height |-> lock, witness_script |-> script]
      BY <1>4, <3>1, <3>2
    <3>4. /\ row'.witness_script = script /\ row'.refund_lock_height = lock
          /\ row'.asset = sold /\ row'.asset_amount = AssetAmount
          /\ row'.fee_subsidy_sats = offer.fee_subsidy_sats
          /\ row'.asset_vout = a /\ row'.lbtc_vout = b
      BY <3>3
    <3>5. funding'.spec = spec /\ funding'.asset = sold
      BY <1>4
    <3> QED
      BY <1>2, <1>6, <1>7, <1>11, <3>4, <3>5, HtlcAssumption DEF RowKept
  <2> QED
    BY <2>1, <2>2
<1> QED
  BY <1>8, <1>9, <1>12, <1>13

-----------------------------------------------------------------------------
(* Every step keeps the invariant.                                         *)

\* Nothing is funded at the start.
LEMMA InitIInv == Init => IInv
<1> SUFFICES ASSUME Init PROVE IInv
  OBVIOUS
<1>1. tip \in 1..MaxTip
  BY HeightAssumption DEF Init
<1>2. funding = NotFunded /\ row = NoRow /\ tx = NoTx /\ vm = None /\ verdict = "none"
  BY DEF Init
<1> QED
  BY <1>1, <1>2 DEF IInv, FundingKept, RowLocks, RowKept, RowFindsHtlc, TxBuilt,
       MachineRight,
       VerdictRight

\* What is said of the HTLC and its row stays true while both do.
LEMMA SameHtlc ==
    ASSUME FundingKept, RowLocks, RowKept, RowFindsHtlc,
           UNCHANGED <<funding, row>>, tip \in Nat, tip' \in Nat, tip' >= tip
    PROVE  FundingKept' /\ RowLocks' /\ RowKept' /\ RowFindsHtlc'
<1>1. FundingKept'
  BY DEF FundingKept
<1>2. RowLocks' /\ RowFindsHtlc'
  BY DEF RowLocks, RowFindsHtlc
<1>3. RowKept'
  BY DEF RowKept
<1> QED
  BY <1>1, <1>2, <1>3

\* So does what is said of a transaction.
LEMMA SameTx ==
    ASSUME TxBuilt, UNCHANGED <<row, tx>>
    PROVE  TxBuilt'
BY DEF TxBuilt, Body, segwit_v0_sign

\* A witness stack, the last item first.
LEMMA Reversed ==
    ASSUME NEW a, NEW b, NEW c, NEW d
    PROVE  Reverse(<<a, b, c, d>>) = <<d, c, b, a>>
BY DEF Reverse

\* The same of three items.
LEMMA Reversed3 ==
    ASSUME NEW a, NEW b, NEW c
    PROVE  Reverse(<<a, b, c>>) = <<c, b, a>>
BY DEF Reverse

\* The witnesses that open the two paths.
ClaimWitness(t, i) == \E sig : t.witness[i] = <<sig, t.key, t.preimage, <<1>> >>
RefundWitness(t, i) == \E sig : t.witness[i] = <<sig, t.key, <<>> >>

\* Where a claim and a refund start.
LEMMA StartInput == ASSUME NEW i, NEW w PROVE StartScript(i, w).input = i
BY DEF StartScript

\* A claim starts with its selector on top.
LEMMA ClaimStarts ==
    ASSUME NEW t, NEW spec, NEW i, ClaimWitness(t, i)
    PROVE  ClaimAt(t, spec, i, StartScript(i, t.witness[i]))
<1>1. PICK sig, key, pre, w, m :
        /\ t.witness[i] = <<sig, t.key, t.preimage, <<1>> >>
        /\ key = t.key /\ pre = t.preimage /\ w = t.witness[i]
        /\ m = StartScript(i, w)
  BY DEF ClaimWitness
<1>2. Reverse(<<sig, key, pre, <<1>> >>) = << <<1>>, pre, key, sig >>
  BY Reversed
<1>3. m = On(i, 1, << <<1>>, pre, key, sig >>)
  BY <1>1, <1>2 DEF StartScript, On, Machine
<1>4. w[1] = sig
  BY <1>1
<1> QED
  BY <1>1, <1>3, <1>4 DEF ClaimAt

\* A refund starts with the empty selector on top.
LEMMA RefundStarts ==
    ASSUME NEW t, NEW spec, NEW i, RefundWitness(t, i)
    PROVE  RefundAt(t, spec, i, StartScript(i, t.witness[i]))
<1>1. PICK sig, key, w, m :
        /\ t.witness[i] = <<sig, t.key, <<>> >>
        /\ key = t.key /\ w = t.witness[i] /\ m = StartScript(i, w)
  BY DEF RefundWitness
<1>2. Reverse(<<sig, key, <<>> >>) = << <<>>, key, sig >>
  BY Reversed3
<1>3. m = On(i, 1, << <<>>, key, sig >>)
  BY <1>1, <1>2 DEF StartScript, On, Machine
<1>4. w[1] = sig
  BY <1>1
<1> QED
  BY <1>1, <1>3, <1>4 DEF RefundAt

\* The two parts of a witness.
LEMMA Append1 ==
    ASSUME NEW a, NEW b, NEW c
    PROVE  <<a, b>> \o <<c>> = <<a, b, c>>
<1>1. PICK S : S = {a, b, c}
  OBVIOUS
<1>2. <<a, b>> \in Seq(S) /\ <<c>> \in Seq(S) /\ <<a, b, c>> \in Seq(S)
  BY <1>1
<1>3. PICK s : s = <<a, b>> \o <<c>>
  OBVIOUS
<1>4. s \in Seq(S) /\ Len(s) = 3 /\ s[1] = a /\ s[2] = b /\ s[3] = c
  BY <1>2, <1>3
<1>5. s = <<a, b, c>>
  BY <1>2, <1>4, SeqEqual
<1> QED
  BY <1>3, <1>5

\* The same with two more items.
LEMMA Append2 ==
    ASSUME NEW a, NEW b, NEW c, NEW d
    PROVE  <<a, b>> \o <<c, d>> = <<a, b, c, d>>
<1>1. PICK S : S = {a, b, c, d}
  OBVIOUS
<1>2. <<a, b>> \in Seq(S) /\ <<c, d>> \in Seq(S) /\ <<a, b, c, d>> \in Seq(S)
  BY <1>1
<1>3. PICK s : s = <<a, b>> \o <<c, d>>
  OBVIOUS
<1>4. s \in Seq(S) /\ Len(s) = 4 /\ s[1] = a /\ s[2] = b /\ s[3] = c /\ s[4] = d
  BY <1>2, <1>3
<1>5. s = <<a, b, c, d>>
  BY <1>2, <1>4, SeqEqual
<1> QED
  BY <1>3, <1>5

\* claim_tx builds a claim from the row.
LEMMA ClaimIsRight ==
    ASSUME IInv, NEW key \in Key, NEW preimage \in Invoice, NEW fee \in ClaimFee,
           claim_tx(key, preimage, fee)
    PROVE  IInv'
<1>1. PICK body : body = Body(key, fee, SEQUENCE_MAX, 0)
  OBVIOUS
<1>2. PICK witness : witness = [i \in 1..2 |-> <<segwit_v0_sign(key, body, i), key>>
                                              \o << preimage, <<1>> >>]
  OBVIOUS
<1>3. /\ tx' = [path |-> "claim", key |-> key, fee |-> fee, body |-> body,
                preimage |-> preimage, script |-> row.witness_script, witness |-> witness]
      /\ vm' = StartScript(1, witness[1])
      /\ UNCHANGED <<tip, funding, row, verdict>>
      /\ row # NoRow /\ tx = NoTx /\ fee < row.fee_subsidy_sats
  BY <1>1, <1>2 DEF claim_tx, Submit
<1>4. /\ tx'.path = "claim" /\ tx'.key = key /\ tx'.fee = fee /\ tx'.body = body
      /\ tx'.preimage = preimage /\ tx'.script = row.witness_script /\ tx'.witness = witness
  BY <1>3
<1>5. tx' # NoTx
  BY <1>4 DEF NoTx
<1>6. verdict = "none"
  BY <1>3 DEF IInv, VerdictRight
<1>7. FundingKept' /\ RowLocks' /\ RowKept' /\ RowFindsHtlc' /\ tip' \in 1..MaxTip
  BY <1>3, SameHtlc DEF IInv
<1>8. TxBuilt'
  <2>1. \A i \in 1..2 : witness[i] =
           << segwit_v0_sign(key, body, i), key, preimage, <<1>> >>
    <3> SUFFICES ASSUME NEW i \in 1..2
                 PROVE  witness[i] =
                           << segwit_v0_sign(key, body, i), key, preimage, <<1>> >>
      OBVIOUS
    <3>1. PICK sig, one : sig = segwit_v0_sign(key, body, i) /\ one = <<1>>
      OBVIOUS
    <3>2. witness[i] = <<sig, key>> \o <<preimage, one>>
      BY <1>2, <3>1
    <3>3. <<sig, key>> \o <<preimage, one>> = <<sig, key, preimage, one>>
      BY Append2
    <3> QED
      BY <3>1, <3>2, <3>3
  <2>2. body = Body(key, fee, SEQUENCE_MAX, 0)' /\ fee \in Nat
    BY <1>1, <1>3, FeeAssumption DEF Body
  <2>3. \A i \in 1..2 : segwit_v0_sign(key, body, i)' = segwit_v0_sign(key, body, i)
    BY <1>3 DEF segwit_v0_sign
  <2> QED
    BY <1>3, <1>4, <2>1, <2>2, <2>3 DEF TxBuilt
<1>9. MachineRight'
  <2>1. PICK t, spec : t = tx' /\ spec = funding'.spec
    OBVIOUS
  <2>2. ClaimWitness(t, 1)
    BY <1>4, <1>5, <1>8, <2>1 DEF TxBuilt, ClaimWitness
  <2>3. ClaimAt(t, spec, 1, StartScript(1, t.witness[1]))
    BY <2>2, ClaimStarts
  <2>4. vm' = StartScript(1, t.witness[1]) /\ vm'.input = 1
    BY <1>3, <1>4, <2>1, StartInput
  <2> QED
    BY <1>3, <1>4, <1>5, <1>6, <2>1, <2>3, <2>4 DEF MachineRight
<1> QED
  BY <1>3, <1>6, <1>7, <1>8, <1>9 DEF IInv, VerdictRight

\* refund_tx builds a refund from the row.
LEMMA RefundIsRight ==
    ASSUME IInv, NEW key \in Key, refund_tx(key, RefundFee)
    PROVE  IInv'
<1>1. PICK fee \in Nat : fee = RefundFee
  BY FeeAssumption
<1>2. PICK body : body = Body(key, fee, ENABLE_LOCKTIME_NO_RBF, row.refund_lock_height)
  OBVIOUS
<1>3. PICK witness : witness = [i \in 1..2 |-> <<segwit_v0_sign(key, body, i), key>>
                                              \o << <<>> >>]
  OBVIOUS
<1>4. /\ tx' = [path |-> "refund", key |-> key, fee |-> fee, body |-> body,
                preimage |-> None, script |-> row.witness_script, witness |-> witness]
      /\ vm' = StartScript(1, witness[1])
      /\ UNCHANGED <<tip, funding, row, verdict>>
      /\ row # NoRow /\ tx = NoTx /\ fee < row.fee_subsidy_sats
      /\ row.refund_lock_height < LockTimeThreshold
  BY <1>1, <1>2, <1>3 DEF refund_tx, Submit
<1>5. /\ tx'.path = "refund" /\ tx'.key = key /\ tx'.fee = fee /\ tx'.body = body
      /\ tx'.script = row.witness_script /\ tx'.witness = witness
  BY <1>4
<1>6. tx' # NoTx
  BY <1>5 DEF NoTx
<1>7. verdict = "none"
  BY <1>4 DEF IInv, VerdictRight
<1>8. FundingKept' /\ RowLocks' /\ RowKept' /\ RowFindsHtlc' /\ tip' \in 1..MaxTip
  BY <1>4, SameHtlc DEF IInv
<1>9. TxBuilt'
  <2>1. \A i \in 1..2 : witness[i] = << segwit_v0_sign(key, body, i), key, <<>> >>
    <3> SUFFICES ASSUME NEW i \in 1..2
                 PROVE  witness[i] = << segwit_v0_sign(key, body, i), key, <<>> >>
      OBVIOUS
    <3>1. PICK sig, zero : sig = segwit_v0_sign(key, body, i) /\ zero = <<>>
      OBVIOUS
    <3>2. witness[i] = <<sig, key>> \o <<zero>>
      BY <1>3, <3>1
    <3>3. <<sig, key>> \o <<zero>> = <<sig, key, zero>>
      BY Append1
    <3> QED
      BY <3>1, <3>2, <3>3
  <2>2. body = Body(key, fee, ENABLE_LOCKTIME_NO_RBF, row.refund_lock_height)'
    BY <1>2, <1>4 DEF Body
  <2>3. \A i \in 1..2 : segwit_v0_sign(key, body, i)' = segwit_v0_sign(key, body, i)
    BY <1>4 DEF segwit_v0_sign
  <2> QED
    BY <1>4, <1>5, <2>1, <2>2, <2>3 DEF TxBuilt
<1>10. MachineRight'
  <2>1. PICK t, spec : t = tx' /\ spec = funding'.spec
    OBVIOUS
  <2>2. RefundWitness(t, 1)
    BY <1>5, <1>6, <1>9, <2>1 DEF TxBuilt, RefundWitness
  <2>3. RefundAt(t, spec, 1, StartScript(1, t.witness[1]))
    BY <2>2, RefundStarts
  <2>4. vm' = StartScript(1, t.witness[1]) /\ vm'.input = 1
    BY <1>4, <1>5, <2>1, StartInput
  <2> QED
    BY <1>4, <1>5, <1>6, <1>7, <2>1, <2>3, <2>4 DEF MachineRight
<1> QED
  BY <1>4, <1>7, <1>8, <1>9, <1>10 DEF IInv, VerdictRight

\* The script of a transaction of ours.
LEMMA TxScript ==
    ASSUME FundingKept, RowKept, TxBuilt, tx # NoTx
    PROVE  /\ funding.spec \in HtlcSpec /\ funding.spec.refund_lock_height \in U32
           /\ tx.script = ScriptOf(funding.spec) /\ Len(tx.script) = 22
<1>1. funding.spec \in HtlcSpec /\ funding.spec.refund_lock_height \in U32
  BY DEF FundingKept, RowKept, TxBuilt
<1>2. tx.script = ScriptOf(funding.spec)
  BY DEF RowKept, TxBuilt
<1> QED
  BY <1>1, <1>2, ScriptItems

\* The input the machine is at.
LEMMA InputKept ==
    ASSUME NEW t, NEW spec, NEW i, NEW m, ClaimAt(t, spec, i, m) \/ RefundAt(t, spec, i, m)
    PROVE  m.input = i /\ m.pc \in 1..23
<1>1. \A pc, s : /\ On(i, pc, s).input = i /\ On(i, pc, s).pc = pc
                 /\ Off(i, pc, s).input = i /\ Off(i, pc, s).pc = pc
                 /\ Stopped(i, pc, s).input = i /\ Stopped(i, pc, s).pc = pc
  BY MachineIs
<1>2. CASE ClaimAt(t, spec, i, m)
  BY <1>1, <1>2, SMTT(30) DEF ClaimAt
<1>3. CASE RefundAt(t, spec, i, m)
  <2>1. PICK a, b, c, d, e, f, g, h, j, k, l :
          \/ m = On(i, 1, a) \/ m = On(i, 14, b) \/ m = On(i, 15, c) \/ m = On(i, 16, d)
          \/ m = On(i, 17, e) \/ m = On(i, 18, f) \/ m = On(i, 19, g) \/ m = On(i, 20, h)
          \/ m = On(i, 21, j) \/ m = Stopped(i, 21, j) \/ m = On(i, 22, k) \/ m = On(i, 23, k)
          \/ \E pc \in 2..13 : m = Off(i, pc, l)
    BY <1>3, Zenon DEF RefundAt
  <2> QED
    BY <1>1, <2>1
<1> QED
  BY <1>2, <1>3

\* An instruction.
LEMMA ExecuteIsRight == ASSUME IInv, Execute PROVE IInv'
<1>1. /\ vm # None /\ vm.ok /\ vm.pc <= Len(tx.script)
      /\ vm' = Step(tx.script[vm.pc], vm)
      /\ UNCHANGED <<tip, funding, row, tx, verdict>>
  BY DEF Execute, Running, Step
<1>2. tx # NoTx /\ verdict = "none" /\ vm.input \in 1..2
  BY <1>1 DEF IInv, MachineRight
<1>3. FundingKept' /\ RowLocks' /\ RowKept' /\ RowFindsHtlc' /\ tip' \in 1..MaxTip
  BY <1>1, SameHtlc DEF IInv
<1>4. TxBuilt'
  BY <1>1, SameTx DEF IInv
<1>5. /\ funding.spec \in HtlcSpec /\ funding.spec.refund_lock_height \in U32
      /\ tx.script = ScriptOf(funding.spec) /\ Len(tx.script) = 22
  BY <1>2, TxScript DEF IInv
<1>6. PICK spec, t, i, m, script :
        /\ spec = funding.spec /\ t = tx /\ i = vm.input /\ m = vm /\ script = tx.script
  OBVIOUS
<1>7. SignatureValid(t.witness[i][1], t.key)
  BY <1>2, <1>6, SignatureIsValid DEF IInv
<1>8. /\ tx.path = "claim" \/ tx.path = "refund"
      /\ t.key \in Key /\ (tx.path = "claim" => t.preimage \in Invoice)
  BY <1>2, <1>6 DEF IInv, TxBuilt
<1>9. ASSUME tx.path = "claim" PROVE ClaimAt(t, spec, i, Step(script[m.pc], m))
  <2>1. ClaimAt(t, spec, i, m)
    BY <1>1, <1>6, <1>9 DEF IInv, MachineRight
  <2>2. /\ spec \in HtlcSpec /\ spec.refund_lock_height \in U32
        /\ script = ScriptOf(spec) /\ m.ok /\ m.pc <= 22
    BY <1>1, <1>5, <1>6
  <2> QED
    BY <1>7, <1>8, <1>9, <2>1, <2>2, ClaimStep
<1>10. ASSUME tx.path = "refund" PROVE RefundAt(t, spec, i, Step(script[m.pc], m))
  <2>1. RefundAt(t, spec, i, m)
    BY <1>1, <1>6, <1>10 DEF IInv, MachineRight
  <2>2. /\ spec \in HtlcSpec /\ spec.refund_lock_height \in U32
        /\ script = ScriptOf(spec) /\ m.ok /\ m.pc <= 22
    BY <1>1, <1>5, <1>6
  <2>3. LockTimeReached(build_scriptint(spec.refund_lock_height), i)
    BY <1>2, <1>6, <1>10, LockTimeIsReached DEF IInv
  <2> QED
    BY <1>7, <1>8, <2>1, <2>2, <2>3, RefundStep
<1>11. MachineRight'
  <2>1. /\ vm' = Step(script[m.pc], m) /\ vm.input = i /\ tx' # NoTx /\ verdict' = "none"
        /\ tx' = t /\ funding'.spec = spec /\ i \in 1..2
    BY <1>1, <1>2, <1>6
  <2>2. vm'.input = i
    BY <1>6, <1>8, <1>9, <1>10, <2>1, InputKept
  <2> QED
    BY <1>6, <1>8, <1>9, <1>10, <2>1, <2>2 DEF MachineRight
<1> QED
  BY <1>1, <1>2, <1>3, <1>4, <1>11 DEF IInv, VerdictRight

\* The second input.
LEMMA NextInputIsRight == ASSUME IInv, NextInput PROVE IInv'
<1>1. /\ vm # None /\ vm' = StartScript(2, tx.witness[2])
      /\ UNCHANGED <<tip, funding, row, tx, verdict>>
  BY DEF NextInput
<1>2. tx # NoTx /\ verdict = "none"
  BY <1>1 DEF IInv, MachineRight
<1>3. FundingKept' /\ RowLocks' /\ RowKept' /\ RowFindsHtlc' /\ tip' \in 1..MaxTip
  BY <1>1, SameHtlc DEF IInv
<1>4. TxBuilt'
  BY <1>1, SameTx DEF IInv
<1>5. PICK t, spec : t = tx /\ spec = funding.spec
  OBVIOUS
<1>6. vm'.input = 2 /\ vm' = StartScript(2, t.witness[2])
  BY <1>1, <1>5, StartInput
<1>7. ASSUME tx.path = "claim" PROVE ClaimAt(t, spec, 2, StartScript(2, t.witness[2]))
  <2>1. ClaimWitness(t, 2)
    BY <1>2, <1>5, <1>7 DEF IInv, TxBuilt, ClaimWitness
  <2> QED
    BY <2>1, ClaimStarts
<1>8. ASSUME tx.path = "refund" PROVE RefundAt(t, spec, 2, StartScript(2, t.witness[2]))
  <2>1. RefundWitness(t, 2)
    BY <1>2, <1>5, <1>8 DEF IInv, TxBuilt, RefundWitness
  <2> QED
    BY <2>1, RefundStarts
<1>9. MachineRight'
  BY <1>1, <1>2, <1>5, <1>6, <1>7, <1>8 DEF MachineRight
<1> QED
  BY <1>1, <1>2, <1>3, <1>4, <1>9 DEF IInv, VerdictRight

\* The network's verdict on a transaction whose script has ended.
LEMMA VerdictOf ==
    ASSUME IInv, vm # None, ~Running
    PROVE  (ScriptTrue /\ Balanced /\ Final) <=> Valid
<1>1. tx # NoTx /\ vm.input \in 1..2
  BY DEF IInv, MachineRight
<1>2. Len(tx.script) = 22
  BY <1>1, TxScript DEF IInv
<1>3. PICK spec, t, i, m :
        /\ spec = funding.spec /\ t = tx /\ i = vm.input /\ m = vm
        /\ i \in 1..2 /\ ~(m.ok /\ m.pc <= 22)
  BY <1>1, <1>2 DEF Running
<1>4. Balanced
  BY <1>1, TxIsBalanced DEF IInv
<1>5. tx.script = Spent(i).script
  <2>1. PICK spent : spent = Spent(i)
    OBVIOUS
  <2>2. spent.script = tx.script
    BY <1>1, <1>3, <2>1, InputsAreOurs DEF IInv
  <2> QED
    BY <2>1, <2>2
<1>6. ScriptTrue <=> (m.ok /\ m.stack = << <<1>> >>)
  BY <1>3, <1>5 DEF ScriptTrue
<1>7. CASE tx.path = "claim"
  <2>1. ClaimAt(t, spec, i, m)
    BY <1>3, <1>7 DEF IInv, MachineRight
  <2>2. ScriptTrue <=> (t.key = spec.claimer /\ t.preimage = spec.payment_hash)
    BY <1>3, <1>6, <2>1, ClaimEnds
  <2>3. Final
    BY <1>1, <1>7, TxIsFinal DEF IInv
  <2> QED
    BY <1>3, <1>4, <1>7, <2>2, <2>3 DEF Valid
<1>8. CASE tx.path = "refund"
  <2>1. RefundAt(t, spec, i, m)
    BY <1>3, <1>8 DEF IInv, MachineRight
  <2>2. ScriptTrue <=> t.key = spec.refunder
    BY <1>3, <1>6, <2>1, RefundEnds
  <2>3. Final <=> spec.refund_lock_height <= tip
    BY <1>1, <1>3, <1>8, TxIsFinal DEF IInv
  <2> QED
    BY <1>3, <1>4, <1>8, <2>2, <2>3 DEF Valid
<1>9. tx.path = "claim" \/ tx.path = "refund"
  BY <1>1 DEF IInv, TxBuilt
<1> QED
  BY <1>7, <1>8, <1>9

\* The verdict.
LEMMA JudgeIsRight == ASSUME IInv, Judge PROVE IInv'
<1>1. /\ vm # None /\ ~Running /\ vm' = None
      /\ verdict' = IF ScriptTrue /\ Balanced /\ Final THEN "accepted" ELSE "refused"
      /\ UNCHANGED <<tip, funding, row, tx>>
  BY DEF Judge
<1>2. tx # NoTx
  BY <1>1 DEF IInv, MachineRight
<1>3. FundingKept' /\ RowLocks' /\ RowKept' /\ RowFindsHtlc' /\ tip' \in 1..MaxTip
  BY <1>1, SameHtlc DEF IInv
<1>4. TxBuilt'
  BY <1>1, SameTx DEF IInv
<1>5. MachineRight'
  BY <1>1 DEF MachineRight
<1>6. Valid' <=> Valid
  BY <1>1 DEF Valid
<1>7. verdict' = IF Valid THEN "accepted" ELSE "refused"
  BY <1>1, VerdictOf
<1>8. VerdictRight'
  BY <1>1, <1>2, <1>6, <1>7 DEF VerdictRight
<1> QED
  BY <1>3, <1>4, <1>5, <1>8 DEF IInv

\* The sender is told of a refusal.
LEMMA RefusedIsRight == ASSUME IInv, Refused PROVE IInv'
<1>1. /\ verdict = "refused" /\ tx' = NoTx /\ verdict' = "none"
      /\ UNCHANGED <<tip, funding, row, vm>>
  BY DEF Refused
<1>2. FundingKept' /\ RowLocks' /\ RowKept' /\ RowFindsHtlc' /\ tip' \in 1..MaxTip
  BY <1>1, SameHtlc DEF IInv
<1>3. vm' = None
  BY <1>1 DEF IInv, MachineRight
<1> QED
  BY <1>1, <1>2, <1>3 DEF IInv, TxBuilt, MachineRight, VerdictRight

\* A block.
LEMMA MineIsRight == ASSUME IInv, Mine PROVE IInv'
<1>1. /\ tx = NoTx /\ tip < MaxTip /\ tip' = tip + 1
      /\ UNCHANGED <<funding, row, tx, vm, verdict>>
  BY DEF Mine
<1>2. tip \in 1..MaxTip /\ tip' \in 1..MaxTip /\ tip \in Nat /\ tip' \in Nat
  BY <1>1, HeightAssumption DEF IInv
<1>3. FundingKept' /\ RowLocks' /\ RowKept' /\ RowFindsHtlc'
  BY <1>1, <1>2, SameHtlc DEF IInv
<1>4. verdict = "none" /\ vm = None
  BY <1>1 DEF IInv, MachineRight, VerdictRight
<1> QED
  BY <1>1, <1>2, <1>3, <1>4 DEF IInv, TxBuilt, MachineRight, VerdictRight

\* No step breaks the invariant.
LEMMA NextIInv == IInv /\ [Next]_vars => IInv'
<1> SUFFICES ASSUME IInv, [Next]_vars PROVE IInv'
  OBVIOUS
<1>1. ASSUME NEW sold \in SellAsset, NEW offer \in Offer, NEW direction \in Direction,
             NEW invoice \in Invoice, NEW address \in BuyerAddress,
             Fund(sold, offer, direction, invoice, address)
      PROVE  IInv'
  <2>1. RowFindsHtlc' /\ RowLocks' /\ FundingKept' /\ RowKept'
    BY <1>1, FundIsRight DEF IInv
  <2>2. UNCHANGED <<tip, tx, vm, verdict>> /\ funding = NotFunded
    BY <1>1 DEF Fund
  <2>3. row = NoRow
    BY <2>2 DEF IInv, RowKept
  <2>4. tx = NoTx
    BY <2>3 DEF IInv, TxBuilt
  <2>5. verdict = "none" /\ vm = None
    BY <2>4 DEF IInv, MachineRight, VerdictRight
  <2> QED
    BY <2>1, <2>2, <2>4, <2>5 DEF IInv, TxBuilt, MachineRight, VerdictRight
<1>2. ASSUME NEW key \in Key, NEW preimage \in Invoice, NEW fee \in ClaimFee,
             claim_tx(key, preimage, fee)
      PROVE  IInv'
  BY <1>2, ClaimIsRight
<1>3. ASSUME NEW key \in Key, refund_tx(key, RefundFee) PROVE IInv'
  BY <1>3, RefundIsRight
<1>4. ASSUME Execute PROVE IInv'
  BY <1>4, ExecuteIsRight
<1>5. ASSUME NextInput PROVE IInv'
  BY <1>5, NextInputIsRight
<1>6. ASSUME Judge PROVE IInv'
  BY <1>6, JudgeIsRight
<1>7. ASSUME Refused PROVE IInv'
  BY <1>7, RefusedIsRight
<1>8. ASSUME Mine PROVE IInv'
  BY <1>8, MineIsRight
<1>9. ASSUME UNCHANGED vars PROVE IInv'
  <2>1. UNCHANGED <<tip, funding, row, tx, vm, verdict>>
    BY <1>9 DEF vars
  <2>2. FundingKept' /\ RowLocks' /\ RowKept' /\ RowFindsHtlc' /\ tip' \in 1..MaxTip
    BY <2>1, SameHtlc DEF IInv
  <2>3. TxBuilt'
    BY <2>1, SameTx DEF IInv
  <2>4. MachineRight' /\ VerdictRight'
    BY <2>1 DEF IInv, MachineRight, VerdictRight, Valid
  <2> QED
    BY <2>2, <2>3, <2>4 DEF IInv
<1> QED
  BY <1>1, <1>2, <1>3, <1>4, <1>5, <1>6, <1>7, <1>8, <1>9 DEF Next

-----------------------------------------------------------------------------
(* The theorems.                                                           *)

\* From the funding to the verdict, the row is about the HTLC on the network, a
\* transaction is what htlc.rs builds from the row, the interpreter is where the
\* witness script takes that transaction, and the verdict is the spending rule.
THEOREM HtlcInvariant == Spec => []IInv
<1> QED
  BY InitIInv, NextIInv, PTL DEF Spec

\* Every variable keeps its type: the lock height fits a u32, the two outputs the
\* row names exist, and the interpreter never runs past the script's end.
THEOREM HtlcTypeOK == Spec => []TypeOK
<1>1. IInv => TypeOK
  <2> SUFFICES ASSUME IInv PROVE TypeOK
    OBVIOUS
  <2>1. row # NoRow => {row.asset_vout, row.lbtc_vout} \subseteq DOMAIN funding.outputs
    BY DEF IInv, RowKept, FundingKept
  <2>2. tx # NoTx => [path |-> tx.path, key |-> tx.key, fee |-> tx.fee] \in SpendTx
    BY DEF IInv, TxBuilt, SpendTx
  <2>3. ASSUME vm # None PROVE vm.pc \in 1..(Len(tx.script) + 1) /\ vm.input \in 1..2
    <3>1. tx # NoTx /\ vm.input \in 1..2
      BY <2>3 DEF IInv, MachineRight
    <3>2. Len(tx.script) = 22
      BY <3>1, TxScript DEF IInv
    <3>3. PICK t, spec, i, m : t = tx /\ spec = funding.spec /\ i = vm.input /\ m = vm
      OBVIOUS
    <3>4. ClaimAt(t, spec, i, m) \/ RefundAt(t, spec, i, m)
      BY <2>3, <3>1, <3>3 DEF IInv, MachineRight, TxBuilt
    <3>5. m.pc \in 1..23
      BY <3>4, InputKept
    <3> QED
      BY <3>1, <3>2, <3>3, <3>5
  <2> QED
    BY <2>1, <2>2, <2>3 DEF TypeOK, IInv, FundingKept, VerdictRight
<1> QED
  BY <1>1, HtlcInvariant, PTL

\* build_and_broadcast_funding looks up the two outputs of the HTLC, whatever
\* their order, and only the policy asset for sale makes the lookup fail.
THEOREM LookupIsRight == Spec => []RowFindsHtlc
<1>1. IInv => RowFindsHtlc
  BY DEF IInv
<1> QED
  BY <1>1, HtlcInvariant, PTL

\* The network takes a transaction of claim_tx or refund_tx exactly when the rule
\* of LiquidChain does, for every key, preimage, fee, height and order of outputs:
\* that rule, which the other modules build on, is the script's.
THEOREM VerdictIsTheRule == Spec => []VerdictIsChainRule
<1>1. IInv => VerdictIsChainRule
  <2> SUFFICES ASSUME IInv, verdict # "none"
               PROVE  verdict = "accepted" <=>
                        \A s \in SwapId :
                           \/ Chain!ClaimPathValid(s, [path |-> tx.path, key |-> tx.key,
                                                       fee |-> tx.fee], tx.preimage)
                           \/ Chain!RefundPathValid(s, [path |-> tx.path, key |-> tx.key,
                                                        fee |-> tx.fee])
    BY DEF VerdictIsChainRule
  <2>1. tx # NoTx /\ (verdict = "accepted" <=> Valid)
    BY DEF IInv, VerdictRight
  <2>2. funding # NotFunded /\ (tx.path = "claim" \/ tx.path = "refund")
    BY <2>1 DEF IInv, TxBuilt, RowKept
  <2>3. PICK spend : spend = [path |-> tx.path, key |-> tx.key, fee |-> tx.fee]
    OBVIOUS
  <2>4. spend.path = tx.path /\ spend.key = tx.key
    BY <2>3
  <2>5. \A s \in SwapId :
           (Chain!ClaimPathValid(s, spend, tx.preimage) \/ Chain!RefundPathValid(s, spend))
              <=> Valid
    BY <2>2, <2>4 DEF Chain!ClaimPathValid, Chain!RefundPathValid, Valid
  <2> QED
    BY <2>1, <2>3, <2>5, HtlcAssumption
<1> QED
  BY <1>1, HtlcInvariant, PTL

\* The saturating sum of service.rs and the lock time of htlc.rs: no refund is
\* accepted before refund_delta_blocks are over, for every tip and delta.
THEOREM RefundsWait == Spec => []NoRefundBeforeDelta
<1>1. IInv => NoRefundBeforeDelta
  <2> SUFFICES ASSUME IInv, verdict = "accepted", tx.path = "refund"
               PROVE  tip >= funding.tip + funding.offer.refund_delta_blocks
    BY DEF NoRefundBeforeDelta
  <2>1. tx # NoTx /\ tip >= funding.spec.refund_lock_height /\ tip \in Nat
    BY DEF IInv, VerdictRight, Valid
  <2>2. /\ row # NoRow /\ row.refund_lock_height < LockTimeThreshold
        /\ row.refund_lock_height = funding.spec.refund_lock_height
    BY <2>1 DEF IInv, TxBuilt, RowKept
  <2>3. PICK a \in Nat, b \in Nat :
          /\ a = funding.tip /\ b = funding.offer.refund_delta_blocks
          /\ row.refund_lock_height = SaturatingAdd(a, b)
    BY <2>2 DEF IInv, RowLocks
  <2>4. SaturatingAdd(a, b) = a + b
    BY <2>2, <2>3, SumBelowThreshold
  <2> QED
    BY <2>1, <2>2, <2>3, <2>4
<1> QED
  BY <1>1, HtlcInvariant, PTL

\* HtlcSpec::parse_witness_script gives back the terms that witness_script wrote,
\* for every preimage hash, key and lock height a u32 has.
THEOREM ReaderInvertsWriter == Spec => []ParseInvertsBuild
<1>1. IInv => ParseInvertsBuild
  <2> SUFFICES ASSUME IInv, row # NoRow
               PROVE  parse_witness_script(row.witness_script) =
                        [payment_hash |-> sha256[funding.spec.payment_hash],
                         claimer_pubkey_hash160 |-> hash160[funding.spec.claimer],
                         refunder_pubkey_hash160 |-> hash160[funding.spec.refunder],
                         refund_lock_height |-> row.refund_lock_height]
    BY DEF ParseInvertsBuild
  <2>1. PICK spec, script : spec = funding.spec /\ script = row.witness_script
    OBVIOUS
  <2>2. /\ spec \in HtlcSpec /\ spec.refund_lock_height \in U32
        /\ script = ScriptOf(spec) /\ row.refund_lock_height = spec.refund_lock_height
    BY <2>1 DEF IInv, FundingKept, RowKept
  <2> QED
    BY <2>1, <2>2, OursIsRead
<1> QED
  BY <1>1, HtlcInvariant, PTL

\* Of the scripts that differ from ours in one instruction, the reader takes those
\* it can write again, and those with a number that zero bytes pad.
THEOREM ReaderIsExact == Spec => []ParseIsExact
<1>1. IInv => ParseIsExact
  <2> SUFFICES ASSUME IInv, row # NoRow, NEW i \in DOMAIN Shape,
                      NEW other \in OtherInstruction,
                      NEW script, script = [row.witness_script EXCEPT ![i] = other],
                      parse_witness_script(script) # NoSpec
               PROVE  \/ witness_script(parse_witness_script(script)) = script
                      \/ Shape[i] = "number" /\ Padded(other)
    BY DEF ParseIsExact
  <2>1. PICK spec, ours : spec = funding.spec /\ ours = row.witness_script
    OBVIOUS
  <2>2. spec \in HtlcSpec /\ spec.refund_lock_height \in U32 /\ ours = ScriptOf(spec)
    BY <2>1 DEF IInv, FundingKept, RowKept
  <2>3. i \in 1..22 /\ script = [ours EXCEPT ![i] = other]
    BY <2>1, ShapeIs
  <2> QED
    BY <2>2, <2>3, OtherIsRead
<1> QED
  BY <1>1, HtlcInvariant, PTL
=============================================================================
