---------------------------- MODULE DataPathProofs ----------------------------
(***************************************************************************)
(* What holds of DataPath for words of every width and any programs: the   *)
(* registers stay words and the pins bits, and what EXEC runs is what was  *)
(* encoded.                                                                *)
(***************************************************************************)
EXTENDS DataPath, FiniteSetTheorems, FunctionTheorems, WellFoundedInduction, TLAPS

-----------------------------------------------------------------------------
(* Powers of two, of which the provers know only 2 ^ 0, as cardinalities    *)

\* The subsets of two sets apart are the pairs of their subsets.
LEMMA SubsetsOfBoth ==
    ASSUME NEW A, NEW B, A \cap B = {}, IsFiniteSet(A), IsFiniteSet(B)
    PROVE  Cardinality(SUBSET (A \cup B)) = Cardinality(SUBSET A) * Cardinality(SUBSET B)
<1> DEFINE S == (SUBSET A) \X (SUBSET B)
           T == SUBSET (A \cup B)
           f == [p \in S |-> p[1] \cup p[2]]
<1>1. f \in [S -> T]
  OBVIOUS
<1>2. \A p, q \in S : f[p] = f[q] => p = q
  <2>1. SUFFICES ASSUME NEW p \in S, NEW q \in S, f[p] = f[q] PROVE p = q
    OBVIOUS
  <2>2. p[1] = q[1] /\ p[2] = q[2]
    BY <2>1
  <2> QED BY <2>2
<1>3. \A t \in T : \E p \in S : f[p] = t
  <2>1. SUFFICES ASSUME NEW t \in T PROVE \E p \in S : f[p] = t
    OBVIOUS
  <2>2. <<t \cap A, t \cap B>> \in S /\ f[<<t \cap A, t \cap B>>] = t
    OBVIOUS
  <2> QED BY <2>2
<1>4. ExistsBijection(S, T)
  <2> HIDE DEF f, S, T
  <2>1. f \in Bijection(S, T)
    BY <1>1, <1>2, <1>3, Fun_IsBij
  <2> QED BY <2>1 DEF ExistsBijection
<1>5. IsFiniteSet(SUBSET A) /\ IsFiniteSet(SUBSET B)
  BY FS_SUBSET
<1>6. IsFiniteSet(S) /\ Cardinality(S) = Cardinality(SUBSET A) * Cardinality(SUBSET B)
  BY <1>5, FS_Product
<1> HIDE DEF S, T
<1>7. Cardinality(S) = Cardinality(T)
  BY <1>4, <1>6, FS_Bijection
<1> QED BY <1>6, <1>7 DEF T

LEMMA PowerSum ==
    ASSUME NEW a \in Nat, NEW b \in Nat
    PROVE  2 ^ (a + b) = 2 ^ a * 2 ^ b
<1> DEFINE A == 1..a
           B == (a + 1)..(a + b)
<1>1. A \cap B = {} /\ A \cup B = 1..(a + b)
  OBVIOUS
<1>2. IsFiniteSet(A) /\ Cardinality(A) = a
  BY FS_Interval
<1>3. IsFiniteSet(B) /\ Cardinality(B) = b
  BY FS_Interval
<1>4. IsFiniteSet(1..(a + b)) /\ Cardinality(1..(a + b)) = a + b
  <2>1. PICK c \in Nat : c = a + b
    OBVIOUS
  <2>2. IsFiniteSet(1..c) /\ Cardinality(1..c) = c
    BY FS_Interval
  <2> QED BY <2>1, <2>2
<1> HIDE DEF A, B
<1>5. /\ Cardinality(SUBSET A) = 2 ^ a /\ Cardinality(SUBSET B) = 2 ^ b
      /\ Cardinality(SUBSET (A \cup B)) = 2 ^ (a + b)
  BY <1>1, <1>2, <1>3, <1>4, FS_SUBSET
<1> QED BY <1>1, <1>2, <1>3, <1>5, SubsetsOfBoth

LEMMA PowerPositive ==
    ASSUME NEW n \in Nat
    PROVE  2 ^ n \in Nat \ {0}
<1>1. IsFiniteSet(1..n) /\ Cardinality(1..n) = n
  BY FS_Interval
<1>2. IsFiniteSet(SUBSET (1..n)) /\ Cardinality(SUBSET (1..n)) = 2 ^ n
  BY <1>1, FS_SUBSET
<1>3. {} \in SUBSET (1..n)
  OBVIOUS
<1>4. Cardinality(SUBSET (1..n)) \in Nat /\ Cardinality(SUBSET (1..n)) # 0
  BY <1>2, <1>3, FS_CardinalityType, FS_EmptySet
<1> QED BY <1>2, <1>4

-----------------------------------------------------------------------------
(* Machine instructions *)

\* A machine instruction of four fields.
Composed(mi, kind, delay, o, a) == mi = 2 ^ 13 * kind + 2 ^ 8 * delay + 2 ^ 5 * o + a

\* What the decode finds in it.
HasFields(mi, kind, delay, o, a) ==
    /\ Field(mi, 13, 15) = kind /\ Field(mi, 8, 12) = delay /\ Field(mi, 13, 12) = 0
    /\ Field(mi, 5, 7) = o /\ Field(mi, 0, 4) = a
    /\ Field(mi, 5, 5) = o % 2 /\ Field(mi, 6, 6) = (o \div 2) % 2
    /\ Field(mi, 7, 7) = o \div 4 /\ Field(mi, 5, 6) = o % 4
    /\ Field(mi, 0, 2) = a % 8 /\ Field(mi, 3, 4) = a \div 8

\* The fields of an encoded instruction are what was put into them.
LEMMA FieldsOf ==
    ASSUME NEW kind \in 0..7, NEW delay \in 0..31, NEW o \in 0..7, NEW a \in 0..31, NEW mi,
           Composed(mi, kind, delay, o, a)
    PROVE  HasFields(mi, kind, delay, o, a)
<1>1. /\ 2 ^ 13 = 8192 /\ 2 ^ 8 = 256 /\ 2 ^ 5 = 32 /\ 2 ^ 7 = 128 /\ 2 ^ 6 = 64 /\ 2 ^ 3 = 8
      /\ 2 ^ 2 = 4 /\ 2 ^ 1 = 2 /\ 2 ^ 0 = 1
  OBVIOUS
<1>2. mi = 8192 * kind + 256 * delay + 32 * o + a /\ mi \in Nat
  BY <1>1 DEF Composed
<1>3. PICK q8 \in Nat, q32 \in Nat, q64 \in Nat, q128 \in Nat, q256 \in Nat, q8192 \in Nat :
          /\ q8 = mi \div 8 /\ q32 = mi \div 32 /\ q64 = mi \div 64 /\ q128 = mi \div 128
          /\ q256 = mi \div 256 /\ q8192 = mi \div 8192
  BY <1>2
<1>4. /\ Field(mi, 13, 15) = q8192 % 8 /\ Field(mi, 8, 12) = q256 % 32
      /\ Field(mi, 13, 12) = q8192 % 1 /\ Field(mi, 5, 7) = q32 % 8 /\ Field(mi, 0, 4) = mi % 32
      /\ Field(mi, 5, 5) = q32 % 2 /\ Field(mi, 6, 6) = q64 % 2
      /\ Field(mi, 7, 7) = q128 % 2 /\ Field(mi, 5, 6) = q32 % 4
      /\ Field(mi, 0, 2) = mi % 8 /\ Field(mi, 3, 4) = q8 % 4
  <2>1. /\ 15 - 13 + 1 = 3 /\ 12 - 8 + 1 = 5 /\ 12 - 13 + 1 = 0 /\ 7 - 5 + 1 = 3 /\ 4 - 0 + 1 = 5
        /\ 5 - 5 + 1 = 1 /\ 6 - 6 + 1 = 1 /\ 7 - 7 + 1 = 1 /\ 6 - 5 + 1 = 2 /\ 2 - 0 + 1 = 3
        /\ 4 - 3 + 1 = 2
    OBVIOUS
  <2>2. mi \div 1 = mi
    BY <1>2
  <2> QED BY <1>1, <1>2, <1>3, <2>1, <2>2 DEF Field
<1>5. q8192 = kind /\ q256 = 32 * kind + delay
  BY <1>2, <1>3
<1>6. q32 = 256 * kind + 8 * delay + o
  BY <1>2, <1>3
<1>7. PICK o2 \in 0..3, o4 \in 0..1, a8 \in 0..3 : o2 = o \div 2 /\ o4 = o \div 4 /\ a8 = a \div 8
  OBVIOUS
<1>8. q64 = 128 * kind + 4 * delay + o2 /\ q128 = 64 * kind + 2 * delay + o4
  BY <1>2, <1>3, <1>7
<1>9. q8 = 1024 * kind + 32 * delay + 4 * o + a8
  BY <1>2, <1>3, <1>7
<1>10. q8192 % 8 = kind /\ q8192 % 1 = 0 /\ q256 % 32 = delay
  BY <1>5
<1>11. q32 % 8 = o /\ q32 % 2 = o % 2 /\ q32 % 4 = o % 4
  BY <1>6
<1>12. q64 % 2 = o2 % 2 /\ q128 % 2 = o4
  BY <1>8
<1>13. q8 % 4 = a8 /\ mi % 32 = a /\ mi % 8 = a % 8
  BY <1>2, <1>9
<1> QED BY <1>2, <1>4, <1>7, <1>10, <1>11, <1>12, <1>13 DEF HasFields

\* A table of names, and one with the same names at their numbers.
Listed(n, enc, dec, name) ==
    /\ n \in Nat /\ DOMAIN enc = 1..n
    /\ \E k \in 1..n : enc[k] = name
    /\ \A k \in 1..n : enc[k] = name => dec[k] = name

\* A name is found at its number, also in a table with names for the other numbers.
LEMMA PickNumber ==
    ASSUME NEW n, NEW enc, NEW dec, NEW name, Listed(n, enc, dec, name)
    PROVE  /\ Number(enc, name) \in Int /\ Number(enc, name) + 1 \in 1..n
           /\ Pick(dec, Number(enc, name)) = name
<1>1. PICK k : k = CHOOSE j \in DOMAIN enc : enc[j] = name
  OBVIOUS
<1>2. k \in 1..n /\ enc[k] = name
  BY <1>1, Zenon DEF Listed
<1>3. Number(enc, name) = k - 1
  BY <1>1 DEF Number
<1>4. (k - 1) + 1 = k /\ k - 1 \in Int
  BY <1>2 DEF Listed
<1> QED BY <1>2, <1>3, <1>4 DEF Pick, Listed

\* The record of a decode has all its fields; nothing ever sets is_relative.
ExecFields == {"type", "delay", "side", "condition", "polarity", "wait_source", "index_or_value",
               "bit_count", "source", "destination", "operation", "block", "if_full", "if_empty",
               "wait", "clear", "is_relative", "jmp_pc"}
IsExec(e) == e = [f \in ExecFields |-> e[f]] /\ e.is_relative = 0

\* What a decode leaves: the instruction, but for the fields Departs lists, and a count
\* in five bits.
Decodes(e, i) ==
    LET d == Decoded(e, Encode(i))
    IN /\ IsExec(d) /\ d.side \in {-1, 0}
       /\ d.type = i.type /\ \A f \in Means(i) \ Departs(i) : d[f] = i[f]
       /\ i.type \in {"in", "out"} => d.bit_count = i.bit_count % 32

\* The encoding puts an instruction's number, delay, operand and argument together.
LEMMA EncodeComposes ==
    ASSUME NEW i, NEW kind \in 0..7, Kind[i.type] = kind, i.delay \in 0..31,
           NEW o \in 0..7, Operand(i) = o, NEW a \in 0..31, Argument(i) = a
    PROVE  HasFields(Encode(i), kind, i.delay, o, a)
<1>1. PICK delay \in 0..31 : delay = i.delay
  OBVIOUS
<1>2. PICK mi : mi = Encode(i)
  OBVIOUS
<1>3. Composed(mi, kind, delay, o, a)
  BY <1>1, <1>2 DEF Composed, Encode
<1>4. HasFields(mi, kind, delay, o, a)
  BY <1>3, FieldsOf, Zenon
<1> QED BY <1>1, <1>2, <1>4, Zenon

Turns(e, mi, kind, delay, d) ==
    /\ kind = 0 => Decoded(e, mi) = DecodeJmp(d, mi)
    /\ kind = 1 => Decoded(e, mi) = DecodeWait(d, mi)
    /\ kind = 2 => Decoded(e, mi) = DecodeIn(d, mi)
    /\ kind = 3 => Decoded(e, mi) = DecodeOut(d, mi)
    /\ kind = 4 => Decoded(e, mi) = DecodePushPull(d, mi)
    /\ kind = 5 => Decoded(e, mi) = DecodeMov(d, mi)
    /\ kind = 6 => Decoded(e, mi) = DecodeIrq(d, mi)
    /\ kind = 7 => Decoded(e, mi) = DecodeSet(d, mi)
    /\ IsExec(d)
    /\ \A f \in ExecFields : d[f] = IF f = "delay" THEN delay ELSE IF f = "side" THEN 0 ELSE e[f]

\* The decode turns on the kind, after it has set the delay and the side set value.
LEMMA DecodeTurns ==
    ASSUME NEW e, IsExec(e), NEW mi, NEW kind \in 0..7, NEW delay, NEW o, NEW a,
           HasFields(mi, kind, delay, o, a), NEW d, d = [e EXCEPT !.delay = delay, !.side = 0]
    PROVE  Turns(e, mi, kind, delay, d)
<1>1. PICK c : c = [e EXCEPT !.delay = Field(mi, 8, 12), !.side = Field(mi, 13, 12)]
  OBVIOUS
<1>2. c = d
  BY <1>1, Zenon DEF HasFields
<1>3. Field(mi, 13, 15) = kind
  BY DEF HasFields
<1>4. /\ kind = 0 => Decoded(e, mi) = DecodeJmp(c, mi)
      /\ kind = 1 => Decoded(e, mi) = DecodeWait(c, mi)
      /\ kind = 2 => Decoded(e, mi) = DecodeIn(c, mi)
      /\ kind = 3 => Decoded(e, mi) = DecodeOut(c, mi)
      /\ kind = 4 => Decoded(e, mi) = DecodePushPull(c, mi)
      /\ kind = 5 => Decoded(e, mi) = DecodeMov(c, mi)
      /\ kind = 6 => Decoded(e, mi) = DecodeIrq(c, mi)
      /\ kind = 7 => Decoded(e, mi) = DecodeSet(c, mi)
  BY <1>1, <1>3 DEF Decoded
<1>5. /\ IsExec(d)
      /\ \A f \in ExecFields : d[f] = IF f = "delay" THEN delay ELSE IF f = "side" THEN 0 ELSE e[f]
  BY DEF IsExec, ExecFields
<1> QED BY <1>2, <1>4, <1>5 DEF Turns

LEMMA JmpDecodes ==
    ASSUME NEW e, IsExec(e), NEW i, i.type = "jmp", Encodable(i)
    PROVE  Decodes(e, i)
<1> DEFINE table == <<"always", "x_zero", "x_decrement", "y_zero", "y_decrement", "x_not_equal_y",
                      "pin", "not_osre">>
<1>1. PICK o, mi, a, delay : /\ o = Number(table, i.condition) /\ mi = Encode(i)
                             /\ a = i.jmp_pc /\ delay = i.delay
  OBVIOUS
<1>2. o \in 0..7 /\ Pick(table, o) = i.condition
  <2>1. /\ DOMAIN table = 1..8
        /\ i.condition \in {table[1], table[2], table[3], table[4], table[5], table[6], table[7], table[8]}
    BY DEF Encodable
  <2>2. \E k \in 1..8 : table[k] = i.condition
    BY <2>1
  <2>3. Listed(8, table, table, i.condition)
    BY <2>1, <2>2 DEF Listed
  <2> HIDE DEF table
  <2> QED BY <1>1, <2>3, PickNumber
<1>3. PICK kind \in 0..7 : kind = 0
  OBVIOUS
<1>4. Kind[i.type] = kind /\ Operand(i) = o /\ Argument(i) = a /\ a \in 0..31 /\ delay \in 0..31
  BY <1>1, <1>3 DEF Kind, Operand, Argument, Encodable
<1>5. HasFields(mi, kind, delay, o, a)
  BY <1>1, <1>2, <1>4, EncodeComposes, Zenon
<1>6. PICK d : d = [e EXCEPT !.delay = delay, !.side = 0]
  OBVIOUS
<1>7. Turns(e, mi, kind, delay, d)
  BY <1>5, <1>6, DecodeTurns, Zenon
<1>8. Decoded(e, mi) = DecodeJmp(d, mi) /\ IsExec(d)
  BY <1>3, <1>7 DEF Turns
<1>9. PICK c : c = Decoded(e, mi)
  OBVIOUS
<1>10. c = [d EXCEPT !.type = "jmp", !.side = -1, !.condition = i.condition, !.jmp_pc = a - 1]
  BY <1>2, <1>5, <1>8, <1>9 DEF DecodeJmp, HasFields, table
<1>11. /\ IsExec(c) /\ c.side = -1 /\ c.type = "jmp" /\ c.condition = i.condition /\ c.delay = delay
  BY <1>7, <1>8, <1>10 DEF Turns, IsExec, ExecFields
<1>12. Means(i) \ Departs(i) \subseteq {"type", "delay", "side", "condition"} /\ i.side = -1
  BY DEF Means, Departs, Encodable
<1> QED BY <1>1, <1>9, <1>11, <1>12 DEF Decodes

LEMMA InDecodes ==
    ASSUME NEW e, IsExec(e), NEW i, i.type = "in", Encodable(i)
    PROVE  Decodes(e, i)
<1> DEFINE enc == <<"pins", "x", "y", "null", "reserved", "reserved", "isr", "osr">>
           dec == <<"pins", "x", "y", "null", "reserved", "reserved", "isr", "osr">>
<1>1. PICK o, mi, a, delay : /\ o = Number(enc, i.source) /\ mi = Encode(i)
                             /\ a = i.bit_count % 32 /\ delay = i.delay
  OBVIOUS
<1>2. o \in 0..7 /\ Pick(dec, o) = i.source
  <2>1. DOMAIN enc = 1..8
    OBVIOUS
  <2>2. \E k \in 1..8 : enc[k] = i.source
    <3>1. i.source \in {"pins", "x", "y", "null", "isr", "osr"}
      BY DEF Encodable
    <3> QED BY <3>1
  <2>3. \A k \in 1..8 : enc[k] = i.source => dec[k] = i.source
    <3>1. i.source \in {"pins", "x", "y", "null", "isr", "osr"}
      BY DEF Encodable
    <3>2. \A k \in 1..8 : enc[k] = dec[k]
      OBVIOUS
    <3> QED BY <3>1, <3>2
  <2>4. PICK n \in Nat : n = 8
    OBVIOUS
  <2>5. Listed(n, enc, dec, i.source)
    BY <2>1, <2>2, <2>3, <2>4 DEF Listed
  <2> HIDE DEF enc, dec
  <2> QED BY <1>1, <2>4, <2>5, PickNumber
<1>3. PICK kind \in 0..7 : kind = 2
  OBVIOUS
<1>4. Kind[i.type] = kind /\ Operand(i) = o /\ Argument(i) = a /\ a \in 0..31 /\ delay \in 0..31
  <2>1. a \in 0..31 /\ delay \in 0..31
    <3>1. i.bit_count \in 1..32 /\ i.delay \in 0..31
      BY DEF Encodable
    <3> QED BY <1>1, <3>1
  <2>2. Kind[i.type] = kind
    BY <1>3 DEF Kind
  <2>3. Operand(i) = o
    BY <1>1 DEF Operand
  <2>4. Argument(i) = a
    BY <1>1, <2>1 DEF Argument
  <2> QED BY <2>1, <2>2, <2>3, <2>4
<1>5. HasFields(mi, kind, delay, o, a)
  BY <1>1, <1>2, <1>4, EncodeComposes, Zenon
<1>6. PICK d : d = [e EXCEPT !.delay = delay, !.side = 0]
  OBVIOUS
<1>7. Turns(e, mi, kind, delay, d)
  BY <1>5, <1>6, DecodeTurns, Zenon
<1>8. Decoded(e, mi) = DecodeIn(d, mi) /\ IsExec(d)
  BY <1>3, <1>7 DEF Turns
<1>9. PICK c : c = Decoded(e, mi)
  OBVIOUS
<1>10. c = [d EXCEPT !.type = "in", !.bit_count = a, !.source = i.source]
  BY <1>2, <1>5, <1>8, <1>9 DEF DecodeIn, HasFields, enc, dec
<1>11. /\ IsExec(c) /\ c.side = 0 /\ c.type = "in" /\ c.delay = delay
       /\ c.source = i.source /\ c.bit_count = a
  BY <1>7, <1>8, <1>10 DEF Turns, IsExec, ExecFields
<1>12. \A f \in Means(i) \ Departs(i) : c[f] = i[f]
  <2>1. \A f \in {"type", "delay", "source"} : c[f] = i[f]
    BY <1>1, <1>11
  <2>2. "bit_count" \in Means(i) \ Departs(i) => c.bit_count = i.bit_count
    <3>1. "bit_count" \in Means(i) \ Departs(i) => i.bit_count \in 1..31
      BY DEF Departs, Encodable
    <3> QED BY <1>1, <1>11, <3>1
  <2>3. Means(i) \ Departs(i) \subseteq {"type", "delay", "source", "bit_count"}
    BY DEF Means, Departs
  <2> QED BY <2>1, <2>2, <2>3
<1> QED BY <1>1, <1>9, <1>11, <1>12 DEF Decodes

LEMMA OutDecodes ==
    ASSUME NEW e, IsExec(e), NEW i, i.type = "out", Encodable(i)
    PROVE  Decodes(e, i)
<1> DEFINE enc == <<"pins", "x", "y", "null", "pindirs", "pc", "isr", "exec">>
           dec == <<"pins", "x", "y", "null", "pindirs", "pc", "isr", "exec">>
<1>1. PICK o, mi, a, delay : /\ o = Number(enc, i.destination) /\ mi = Encode(i)
                             /\ a = i.bit_count % 32 /\ delay = i.delay
  OBVIOUS
<1>2. o \in 0..7 /\ Pick(dec, o) = i.destination
  <2>1. DOMAIN enc = 1..8
    OBVIOUS
  <2>2. \E k \in 1..8 : enc[k] = i.destination
    <3>1. i.destination \in {"pins", "x", "y", "null", "pindirs", "pc", "isr", "exec"}
      BY DEF Encodable
    <3> QED BY <3>1
  <2>3. \A k \in 1..8 : enc[k] = i.destination => dec[k] = i.destination
    <3>1. i.destination \in {"pins", "x", "y", "null", "pindirs", "pc", "isr", "exec"}
      BY DEF Encodable
    <3>2. \A k \in 1..8 : enc[k] = dec[k]
      OBVIOUS
    <3> QED BY <3>1, <3>2
  <2>4. PICK n \in Nat : n = 8
    OBVIOUS
  <2>5. Listed(n, enc, dec, i.destination)
    BY <2>1, <2>2, <2>3, <2>4 DEF Listed
  <2> HIDE DEF enc, dec
  <2> QED BY <1>1, <2>4, <2>5, PickNumber
<1>3. PICK kind \in 0..7 : kind = 3
  OBVIOUS
<1>4. Kind[i.type] = kind /\ Operand(i) = o /\ Argument(i) = a /\ a \in 0..31 /\ delay \in 0..31
  <2>1. a \in 0..31 /\ delay \in 0..31
    <3>1. i.bit_count \in 1..32 /\ i.delay \in 0..31
      BY DEF Encodable
    <3> QED BY <1>1, <3>1
  <2>2. Kind[i.type] = kind
    BY <1>3 DEF Kind
  <2>3. Operand(i) = o
    BY <1>1 DEF Operand
  <2>4. Argument(i) = a
    BY <1>1, <2>1 DEF Argument
  <2> QED BY <2>1, <2>2, <2>3, <2>4
<1>5. HasFields(mi, kind, delay, o, a)
  BY <1>1, <1>2, <1>4, EncodeComposes, Zenon
<1>6. PICK d : d = [e EXCEPT !.delay = delay, !.side = 0]
  OBVIOUS
<1>7. Turns(e, mi, kind, delay, d)
  BY <1>5, <1>6, DecodeTurns, Zenon
<1>8. Decoded(e, mi) = DecodeOut(d, mi) /\ IsExec(d)
  BY <1>3, <1>7 DEF Turns
<1>9. PICK c : c = Decoded(e, mi)
  OBVIOUS
<1>10. c = [d EXCEPT !.type = "out", !.bit_count = a, !.destination = i.destination]
  BY <1>2, <1>5, <1>8, <1>9 DEF DecodeOut, HasFields, enc, dec
<1>11. /\ IsExec(c) /\ c.side = 0 /\ c.type = "out" /\ c.delay = delay
       /\ c.destination = i.destination /\ c.bit_count = a
  BY <1>7, <1>8, <1>10 DEF Turns, IsExec, ExecFields
<1>12. \A f \in Means(i) \ Departs(i) : c[f] = i[f]
  <2>1. \A f \in {"type", "delay", "destination"} : c[f] = i[f]
    BY <1>1, <1>11
  <2>2. "bit_count" \in Means(i) \ Departs(i) => c.bit_count = i.bit_count
    <3>1. "bit_count" \in Means(i) \ Departs(i) => i.bit_count \in 1..31
      BY DEF Departs, Encodable
    <3> QED BY <1>1, <1>11, <3>1
  <2>3. Means(i) \ Departs(i) \subseteq {"type", "delay", "destination", "bit_count"}
    BY DEF Means, Departs
  <2> QED BY <2>1, <2>2, <2>3
<1> QED BY <1>1, <1>9, <1>11, <1>12 DEF Decodes

LEMMA SetDecodes ==
    ASSUME NEW e, IsExec(e), NEW i, i.type = "set", Encodable(i)
    PROVE  Decodes(e, i)
<1> DEFINE enc == <<"pins", "x", "y", "reserved", "pindirs">>
           dec == <<"pins", "x", "y", "reserved", "pindirs", "reserved", "reserved", "reserved">>
<1>1. PICK o, mi, a, delay : /\ o = Number(enc, i.destination) /\ mi = Encode(i)
                             /\ a = i.index_or_value /\ delay = i.delay
  OBVIOUS
<1>2. o \in 0..7 /\ Pick(dec, o) = i.destination
  <2>1. DOMAIN enc = 1..5
    OBVIOUS
  <2>2. \E k \in 1..5 : enc[k] = i.destination
    <3>1. i.destination \in {"pins", "x", "y", "pindirs"}
      BY DEF Encodable
    <3> QED BY <3>1
  <2>3. \A k \in 1..5 : enc[k] = i.destination => dec[k] = i.destination
    <3>1. i.destination \in {"pins", "x", "y", "pindirs"}
      BY DEF Encodable
    <3>2. \A k \in 1..5 : enc[k] = dec[k]
      OBVIOUS
    <3> QED BY <3>1, <3>2
  <2>4. PICK n \in Nat : n = 5
    OBVIOUS
  <2>5. Listed(n, enc, dec, i.destination)
    BY <2>1, <2>2, <2>3, <2>4 DEF Listed
  <2> HIDE DEF enc, dec
  <2> QED BY <1>1, <2>4, <2>5, PickNumber
<1>3. PICK kind \in 0..7 : kind = 7
  OBVIOUS
<1>4. Kind[i.type] = kind /\ Operand(i) = o /\ Argument(i) = a /\ a \in 0..31 /\ delay \in 0..31
  <2>1. a \in 0..31 /\ delay \in 0..31
    BY <1>1 DEF Encodable
  <2>2. Kind[i.type] = kind
    BY <1>3 DEF Kind
  <2>3. Operand(i) = o
    BY <1>1 DEF Operand
  <2>4. Argument(i) = a
    BY <1>1, <2>1 DEF Argument
  <2> QED BY <2>1, <2>2, <2>3, <2>4
<1>5. HasFields(mi, kind, delay, o, a)
  BY <1>1, <1>2, <1>4, EncodeComposes, Zenon
<1>6. PICK d : d = [e EXCEPT !.delay = delay, !.side = 0]
  OBVIOUS
<1>7. Turns(e, mi, kind, delay, d)
  BY <1>5, <1>6, DecodeTurns, Zenon
<1>8. Decoded(e, mi) = DecodeSet(d, mi) /\ IsExec(d)
  BY <1>3, <1>7 DEF Turns
<1>9. PICK c : c = Decoded(e, mi)
  OBVIOUS
<1>10. c = [d EXCEPT !.type = "set", !.index_or_value = a, !.destination = i.destination]
  BY <1>2, <1>5, <1>8, <1>9 DEF DecodeSet, HasFields, enc, dec
<1>11. /\ IsExec(c) /\ c.side = 0 /\ c.type = "set" /\ c.delay = delay
       /\ c.destination = i.destination /\ c.index_or_value = a
  BY <1>7, <1>8, <1>10 DEF Turns, IsExec, ExecFields
<1>12. Means(i) \ Departs(i) \subseteq {"type", "delay", "destination", "index_or_value"}
  BY DEF Means, Departs
<1> QED BY <1>1, <1>9, <1>11, <1>12 DEF Decodes

LEMMA IrqDecodes ==
    ASSUME NEW e, IsExec(e), NEW i, i.type = "irq", Encodable(i)
    PROVE  Decodes(e, i)
<1> DEFINE table == <<"nowait", "wait", "clear">>
<1>1. PICK o, mi, a, delay : /\ o = Number(table, i.operation) /\ mi = Encode(i)
                             /\ a = 16 * i.is_relative + i.index_or_value /\ delay = i.delay
  OBVIOUS
<1>2. o \in 0..7
  <2>1. DOMAIN table = 1..3 /\ i.operation \in {"nowait", "wait", "clear"}
    BY DEF Encodable
  <2>2. \E k \in 1..3 : table[k] = i.operation
    BY <2>1
  <2>3. PICK n \in Nat : n = 3
    OBVIOUS
  <2>4. Listed(n, table, table, i.operation)
    BY <2>1, <2>2, <2>3 DEF Listed
  <2> HIDE DEF table
  <2>5. o + 1 \in 1..n /\ o \in Int
    BY <1>1, <2>4, PickNumber
  <2> QED BY <2>3, <2>5
<1>3. PICK kind \in 0..7 : kind = 6
  OBVIOUS
<1>4. Kind[i.type] = kind /\ Operand(i) = o /\ Argument(i) = a /\ a \in 0..31 /\ delay \in 0..31
  <2>1. a \in 0..31 /\ delay \in 0..31
    <3>1. i.is_relative \in {0, 1} /\ i.index_or_value \in 0..7 /\ i.delay \in 0..31
      BY DEF Encodable
    <3> QED BY <1>1, <3>1
  <2>2. Kind[i.type] = kind
    BY <1>3 DEF Kind
  <2>3. Operand(i) = o
    BY <1>1 DEF Operand
  <2>4. Argument(i) = a
    BY <1>1 DEF Argument
  <2> QED BY <2>1, <2>2, <2>3, <2>4
<1>5. HasFields(mi, kind, delay, o, a)
  BY <1>1, <1>2, <1>4, EncodeComposes, Zenon
<1>6. PICK d : d = [e EXCEPT !.delay = delay, !.side = 0]
  OBVIOUS
<1>7. Turns(e, mi, kind, delay, d)
  BY <1>5, <1>6, DecodeTurns, Zenon
<1>8. Decoded(e, mi) = DecodeIrq(d, mi) /\ IsExec(d)
  BY <1>3, <1>7 DEF Turns
<1>9. PICK c, wait, clear : c = Decoded(e, mi) /\ wait = Field(mi, 5, 5) /\ clear = Field(mi, 6, 6)
  OBVIOUS
<1>10. c = [d EXCEPT !.type = "irq", !.index_or_value = a, !.wait = wait, !.clear = clear]
  BY <1>5, <1>8, <1>9 DEF DecodeIrq, HasFields
<1>11. /\ IsExec(c) /\ c.side = 0 /\ c.type = "irq" /\ c.delay = delay
       /\ c.index_or_value = a /\ c.is_relative = 0
  BY <1>7, <1>8, <1>10 DEF Turns, IsExec, ExecFields
<1>12. \A f \in Means(i) \ Departs(i) : c[f] = i[f]
  <2>1. CASE i.is_relative = 1
    <3>1. Means(i) \ Departs(i) \subseteq {"type", "delay"}
      BY <2>1 DEF Means, Departs
    <3> QED BY <1>1, <1>11, <3>1
  <2>2. CASE i.is_relative = 0
    <3>1. Means(i) \ Departs(i) \subseteq {"type", "delay", "index_or_value", "is_relative"}
      BY <2>2 DEF Means, Departs
    <3>2. a = i.index_or_value
      <4>1. i.index_or_value \in 0..7
        BY DEF Encodable
      <4> QED BY <1>1, <2>2, <4>1
    <3> QED BY <1>1, <1>11, <2>2, <3>1, <3>2
  <2> QED BY <2>1, <2>2 DEF Encodable
<1> QED BY <1>1, <1>9, <1>11, <1>12 DEF Decodes

LEMMA PushDecodes ==
    ASSUME NEW e, IsExec(e), NEW i, i.type = "push", Encodable(i)
    PROVE  Decodes(e, i)
<1>1. PICK o, mi, a, delay : /\ o = 2 * i.if_full + i.block /\ mi = Encode(i)
                             /\ a = 0 /\ delay = i.delay
  OBVIOUS
<1>2. o \in 0..7 /\ o % 2 = i.block /\ (o \div 2) % 2 = i.if_full /\ o \div 4 = 0
  <2>1. {i.block, i.if_full} \subseteq {0, 1}
    BY DEF Encodable
  <2>2. PICK x \in {0, 1}, y \in {0, 1} : x = i.block /\ y = i.if_full
    BY <2>1
  <2>3. o = 2 * y + x
    BY <1>1, <2>2
  <2>4. o \in 0..7 /\ o % 2 = x /\ (o \div 2) % 2 = y /\ o \div 4 = 0
    BY <2>3
  <2> QED BY <2>2, <2>4
<1>3. PICK kind \in 0..7 : kind = 4
  OBVIOUS
<1>4. Kind[i.type] = kind /\ Operand(i) = o /\ Argument(i) = a /\ a \in 0..31 /\ delay \in 0..31
  <2>1. a \in 0..31 /\ delay \in 0..31
    BY <1>1 DEF Encodable
  <2>2. Kind[i.type] = kind
    BY <1>3 DEF Kind
  <2>3. Operand(i) = o
    BY <1>1 DEF Operand
  <2>4. Argument(i) = a
    BY <1>1, <2>1 DEF Argument
  <2> QED BY <2>1, <2>2, <2>3, <2>4
<1>5. HasFields(mi, kind, delay, o, a)
  BY <1>1, <1>2, <1>4, EncodeComposes, Zenon
<1>6. PICK d : d = [e EXCEPT !.delay = delay, !.side = 0]
  OBVIOUS
<1>7. Turns(e, mi, kind, delay, d)
  BY <1>5, <1>6, DecodeTurns, Zenon
<1>8. Decoded(e, mi) = DecodePushPull(d, mi) /\ IsExec(d)
  BY <1>3, <1>7 DEF Turns
<1>9. PICK c : c = Decoded(e, mi)
  OBVIOUS
<1>10. c = [d EXCEPT !.type = "push", !.block = i.block, !.if_full = i.if_full]
  <2>1. Field(mi, 7, 7) = 0 /\ Field(mi, 5, 5) = i.block /\ Field(mi, 6, 6) = i.if_full
    BY <1>2, <1>5 DEF HasFields
  <2>2. DecodePushPull(d, mi) = [d EXCEPT !.type = "push", !.block = i.block, !.if_full = i.if_full]
    <3>1. PICK x, y : x = i.block /\ y = i.if_full
      OBVIOUS
    <3>2. Field(mi, 7, 7) # 1 /\ Field(mi, 5, 5) = x /\ Field(mi, 6, 6) = y
      BY <2>1, <3>1
    <3>3. DecodePushPull(d, mi) = [d EXCEPT !.type = "push", !.block = x, !.if_full = y]
      BY <3>2 DEF DecodePushPull
    <3> QED BY <3>1, <3>3
  <2> QED BY <1>8, <1>9, <2>2
<1>11. /\ IsExec(c) /\ c.side = 0 /\ c.type = "push" /\ c.delay = delay
       /\ c.block = i.block /\ c.if_full = i.if_full
  BY <1>7, <1>8, <1>10 DEF Turns, IsExec, ExecFields
<1>12. Means(i) \ Departs(i) \subseteq {"type", "delay", "block", "if_full"}
  BY DEF Means, Departs
<1> QED BY <1>1, <1>9, <1>11, <1>12 DEF Decodes

LEMMA PullDecodes ==
    ASSUME NEW e, IsExec(e), NEW i, i.type = "pull", Encodable(i)
    PROVE  Decodes(e, i)
<1>1. PICK o, mi, a, delay : /\ o = 4 + 2 * i.if_empty + i.block /\ mi = Encode(i)
                             /\ a = 0 /\ delay = i.delay
  OBVIOUS
<1>2. o \in 0..7 /\ o % 2 = i.block /\ (o \div 2) % 2 = i.if_empty /\ o \div 4 = 1
  <2>1. {i.block, i.if_empty} \subseteq {0, 1}
    BY DEF Encodable
  <2>2. PICK x \in {0, 1}, y \in {0, 1} : x = i.block /\ y = i.if_empty
    BY <2>1
  <2>3. o = 4 + 2 * y + x
    BY <1>1, <2>2
  <2>4. o \in 0..7 /\ o % 2 = x /\ (o \div 2) % 2 = y /\ o \div 4 = 1
    BY <2>3
  <2> QED BY <2>2, <2>4
<1>3. PICK kind \in 0..7 : kind = 4
  OBVIOUS
<1>4. Kind[i.type] = kind /\ Operand(i) = o /\ Argument(i) = a /\ a \in 0..31 /\ delay \in 0..31
  <2>1. a \in 0..31 /\ delay \in 0..31
    BY <1>1 DEF Encodable
  <2>2. Kind[i.type] = kind
    BY <1>3 DEF Kind
  <2>3. Operand(i) = o
    BY <1>1 DEF Operand
  <2>4. Argument(i) = a
    BY <1>1, <2>1 DEF Argument
  <2> QED BY <2>1, <2>2, <2>3, <2>4
<1>5. HasFields(mi, kind, delay, o, a)
  BY <1>1, <1>2, <1>4, EncodeComposes, Zenon
<1>6. PICK d : d = [e EXCEPT !.delay = delay, !.side = 0]
  OBVIOUS
<1>7. Turns(e, mi, kind, delay, d)
  BY <1>5, <1>6, DecodeTurns, Zenon
<1>8. Decoded(e, mi) = DecodePushPull(d, mi) /\ IsExec(d)
  BY <1>3, <1>7 DEF Turns
<1>9. PICK c : c = Decoded(e, mi)
  OBVIOUS
<1>10. c = [d EXCEPT !.type = "pull", !.block = i.block, !.if_empty = i.if_empty]
  <2>1. Field(mi, 7, 7) = 1 /\ Field(mi, 5, 5) = i.block /\ Field(mi, 6, 6) = i.if_empty
    BY <1>2, <1>5 DEF HasFields
  <2>2. DecodePushPull(d, mi) = [d EXCEPT !.type = "pull", !.block = i.block, !.if_empty = i.if_empty]
    <3>1. PICK x, y : x = i.block /\ y = i.if_empty
      OBVIOUS
    <3>2. Field(mi, 7, 7) = 1 /\ Field(mi, 5, 5) = x /\ Field(mi, 6, 6) = y
      BY <2>1, <3>1
    <3>3. DecodePushPull(d, mi) = [d EXCEPT !.type = "pull", !.block = x, !.if_empty = y]
      BY <3>2 DEF DecodePushPull
    <3> QED BY <3>1, <3>3
  <2> QED BY <1>8, <1>9, <2>2
<1>11. /\ IsExec(c) /\ c.side = 0 /\ c.type = "pull" /\ c.delay = delay
       /\ c.block = i.block /\ c.if_empty = i.if_empty
  BY <1>7, <1>8, <1>10 DEF Turns, IsExec, ExecFields
<1>12. Means(i) \ Departs(i) \subseteq {"type", "delay", "block", "if_empty"}
  BY DEF Means, Departs
<1> QED BY <1>1, <1>9, <1>11, <1>12 DEF Decodes

LEMMA WaitDecodes ==
    ASSUME NEW e, IsExec(e), NEW i, i.type = "wait", Encodable(i)
    PROVE  Decodes(e, i)
<1> DEFINE enc == <<"gpio", "pin", "irq">>
           dec == <<"gpio", "pin", "irq", "reserved">>
<1>1. PICK o, mi, a, delay, source, polarity, n :
          /\ n = Number(enc, i.wait_source) /\ polarity = i.polarity /\ source = i.wait_source
          /\ o = 4 * polarity + n /\ mi = Encode(i) /\ a = i.index_or_value /\ delay = i.delay
  OBVIOUS
<1>2. n \in 0..2 /\ Pick(dec, n) = source
  <2>1. DOMAIN enc = 1..3
    OBVIOUS
  <2>2. source \in {"gpio", "pin", "irq"}
    BY <1>1 DEF Encodable
  <2>3. \E k \in 1..3 : enc[k] = source
    BY <2>2
  <2>4. \A k \in 1..3 : enc[k] = source => dec[k] = source
    OBVIOUS
  <2>5. PICK three \in Nat : three = 3
    OBVIOUS
  <2>6. Listed(three, enc, dec, source)
    BY <2>1, <2>3, <2>4, <2>5 DEF Listed
  <2> HIDE DEF enc, dec
  <2> QED BY <1>1, <2>5, <2>6, PickNumber
<1>3. polarity \in {0, 1} /\ a \in 0..31 /\ delay \in 0..31
  BY <1>1 DEF Encodable
<1>4. o \in 0..7 /\ o \div 4 = polarity /\ o % 4 = n
  BY <1>1, <1>2, <1>3
<1>5. PICK kind \in 0..7 : kind = 1
  OBVIOUS
<1>6. Kind[i.type] = kind /\ Operand(i) = o /\ Argument(i) = a
  BY <1>1, <1>5 DEF Kind, Operand, Argument
<1>7. HasFields(mi, kind, delay, o, a)
  BY <1>1, <1>3, <1>4, <1>6, EncodeComposes, Zenon
<1>8. PICK d : d = [e EXCEPT !.delay = delay, !.side = 0]
  OBVIOUS
<1>9. Turns(e, mi, kind, delay, d)
  BY <1>7, <1>8, DecodeTurns, Zenon
<1>10. Decoded(e, mi) = DecodeWait(d, mi) /\ IsExec(d)
  BY <1>5, <1>9 DEF Turns
<1>11. PICK c : c = Decoded(e, mi)
  OBVIOUS
<1>12. c = [d EXCEPT !.type = "wait", !.polarity = polarity, !.index_or_value = a,
                     !.wait_source = source]
  <2>1. Field(mi, 7, 7) = polarity /\ Field(mi, 0, 4) = a /\ Field(mi, 5, 6) = n
    BY <1>4, <1>7 DEF HasFields
  <2> QED BY <1>2, <1>10, <1>11, <2>1 DEF DecodeWait
<1>13. /\ IsExec(c) /\ c.side = 0 /\ c.type = "wait" /\ c.delay = delay
       /\ c.polarity = polarity /\ c.index_or_value = a /\ c.wait_source = source
  BY <1>9, <1>10, <1>12 DEF Turns, IsExec, ExecFields
<1>14. Means(i) \ Departs(i) \subseteq {"type", "delay", "polarity", "wait_source", "index_or_value"}
  BY DEF Means, Departs
<1> QED BY <1>1, <1>11, <1>13, <1>14 DEF Decodes

LEMMA MovDecodes ==
    ASSUME NEW e, IsExec(e), NEW i, i.type = "mov", Encodable(i)
    PROVE  Decodes(e, i)
<1> DEFINE to == <<"pins", "x", "y", "reserved", "exec", "pc", "isr", "osr">>
           from == <<"pins", "x", "y", "null", "reserved", "status", "isr", "osr">>
           operations == <<"no_operation", "invert", "bit_reverse">>
<1>1. PICK o, mi, a, delay, source, destination, n, zero :
          /\ o = Number(to, i.destination) /\ n = Number(from, i.source)
          /\ zero = Number(operations, i.operation)
          /\ source = i.source /\ destination = i.destination
          /\ mi = Encode(i) /\ a = 8 * zero + n /\ delay = i.delay
  OBVIOUS
<1>2. PICK eight \in Nat, three \in Nat : eight = 8 /\ three = 3
  OBVIOUS
<1>3. o \in 0..7 /\ Pick(to, o) = destination
  <2>1. DOMAIN to = 1..eight
    BY <1>2
  <2>2. destination \in {"pins", "x", "y", "exec", "pc", "isr", "osr"}
    BY <1>1 DEF Encodable
  <2>3. \E k \in 1..eight : to[k] = destination
    BY <1>2, <2>2
  <2>4. Listed(eight, to, to, i.destination)
    BY <1>1, <1>2, <2>1, <2>3 DEF Listed
  <2> HIDE DEF to
  <2> QED BY <1>1, <1>2, <2>4, PickNumber
<1>4. n \in 0..7 /\ Pick(from, n) = source
  <2>1. DOMAIN from = 1..eight
    BY <1>2
  <2>2. source \in {"pins", "x", "y", "null", "status", "isr", "osr"}
    BY <1>1 DEF Encodable
  <2>3. \E k \in 1..eight : from[k] = source
    BY <1>2, <2>2
  <2>4. Listed(eight, from, from, i.source)
    BY <1>1, <1>2, <2>1, <2>3 DEF Listed
  <2> HIDE DEF from
  <2> QED BY <1>1, <1>2, <2>4, PickNumber
<1>5. zero \in 0..2 /\ operations[zero + 1] = i.operation
  <2>1. i.operation \in {"no_operation", "invert", "bit_reverse"}
    BY DEF Encodable
  <2>2. DOMAIN operations = 1..three /\ \E k \in 1..three : operations[k] = i.operation
    BY <1>2, <2>1
  <2>3. Listed(three, operations, operations, i.operation)
    BY <1>2, <2>2 DEF Listed
  <2> HIDE DEF operations
  <2>4. zero + 1 \in 1..three /\ zero \in Int /\ operations[zero + 1] = i.operation
    BY <1>1, <2>3, PickNumber DEF Pick
  <2> QED BY <1>2, <2>4
<1>6. a \in 0..31 /\ a % 8 = n /\ a \div 8 = zero /\ delay \in 0..31
  <2>1. delay \in 0..31
    BY <1>1 DEF Encodable
  <2>2. a = 8 * zero + n /\ n \in 0..7 /\ zero \in 0..2
    BY <1>1, <1>4, <1>5
  <2>3. a \in 0..31 /\ a % 8 = n /\ a \div 8 = zero
    BY <2>2
  <2> QED BY <2>1, <2>3
<1>7. PICK kind \in 0..7 : kind = 5
  OBVIOUS
<1>8. Kind[i.type] = kind /\ Operand(i) = o /\ Argument(i) = a
  BY <1>1, <1>7 DEF Kind, Operand, Argument
<1>9. HasFields(mi, kind, delay, o, a)
  BY <1>1, <1>3, <1>6, <1>8, EncodeComposes, Zenon
<1>10. PICK d : d = [e EXCEPT !.delay = delay, !.side = 0]
  OBVIOUS
<1>11. Turns(e, mi, kind, delay, d)
  BY <1>9, <1>10, DecodeTurns, Zenon
<1>12. Decoded(e, mi) = DecodeMov(d, mi) /\ IsExec(d)
  BY <1>7, <1>11 DEF Turns
<1>13. PICK c : c = Decoded(e, mi)
  OBVIOUS
<1>14. PICK operated, operation :
           /\ c = [d EXCEPT !.type = "mov", !.destination = destination, !.source = operated,
                            !.operation = operation]
           /\ zero = 0 => operated = source /\ operation = "no_operation"
  <2>1. Field(mi, 5, 7) = o /\ Field(mi, 0, 2) = n /\ Field(mi, 3, 4) = zero
    BY <1>6, <1>9 DEF HasFields
  <2>2. PICK operated : operated = Pick(<<source, "x", "y", "reserved">>, zero)
    OBVIOUS
  <2>3. zero = 0 => operated = source
    BY <2>2 DEF Pick
  <2>4. c = [d EXCEPT !.type = "mov", !.destination = destination, !.source = operated,
                      !.operation = IF zero = 0 THEN "no_operation" ELSE @]
    BY <1>3, <1>4, <1>12, <1>13, <2>1, <2>2 DEF DecodeMov
  <2> QED BY <2>3, <2>4
<1>15. /\ IsExec(c) /\ c.side = 0 /\ c.type = "mov" /\ c.delay = delay /\ c.destination = destination
       /\ zero = 0 => c.source = source /\ c.operation = "no_operation"
  BY <1>11, <1>12, <1>14 DEF Turns, IsExec, ExecFields
<1>16. \A f \in Means(i) \ Departs(i) : c[f] = i[f]
  <2>1. CASE i.operation = "no_operation"
    <3>1. zero = 0
      <4>1. \A k \in 1..3 : operations[k] = "no_operation" => k = 1
        OBVIOUS
      <4> HIDE DEF operations
      <4> QED BY <1>5, <2>1, <4>1
    <3>2. Means(i) \ Departs(i) \subseteq {"type", "delay", "source", "operation", "destination"}
      BY DEF Means, Departs
    <3> QED BY <1>1, <1>15, <2>1, <3>1, <3>2
  <2>2. CASE i.operation # "no_operation"
    <3>1. Means(i) \ Departs(i) \subseteq {"type", "delay", "destination"}
      BY <2>2 DEF Means, Departs
    <3> QED BY <1>1, <1>15, <3>1
  <2> QED BY <2>1, <2>2
<1> QED BY <1>1, <1>13, <1>15, <1>16 DEF Decodes

\* Whatever was decoded before, the decode of an instruction's encoding is the instruction,
\* but for the fields Departs lists.
LEMMA EncodableDecodes ==
    ASSUME NEW e, IsExec(e), NEW i, Encodable(i)
    PROVE  Decodes(e, i)
<1>1. i.type \in {"jmp", "wait", "in", "out", "push", "pull", "mov", "irq", "set"}
  BY DEF Encodable
<1> QED BY <1>1, JmpDecodes, WaitDecodes, InDecodes, OutDecodes, PushDecodes, PullDecodes, MovDecodes,
           IrqDecodes, SetDecodes

-----------------------------------------------------------------------------
(* Loops *)

\* Induction up to a bound.
LEMMA UpTo ==
    ASSUME NEW T, NEW n \in Nat, 0 \in T, \A k \in 0..(n - 1) : k \in T => k + 1 \in T
    PROVE  \A k \in 0..n : k \in T
<1> DEFINE missing == {k \in 0..n : k \notin T}
<1>1. SUFFICES ASSUME missing # {} PROVE FALSE
  OBVIOUS
<1>2. missing \subseteq Nat
  OBVIOUS
<1>3. PICK x \in missing : \A y \in missing : ~(<<y, x>> \in OpToRel(<, Nat))
  <2>1. IsWellFoundedOn(OpToRel(<, Nat), Nat)
    BY NatLessThanWellFounded
  <2> HIDE DEF missing
  <2> QED BY <1>1, <1>2, <2>1, WFMin
<1>4. \A y \in missing : ~(y < x)
  BY <1>2, <1>3 DEF OpToRel
<1>5. x # 0 /\ x \in 0..n /\ x \notin T
  OBVIOUS
<1>6. x - 1 \in 0..(n - 1) /\ x - 1 \in 0..n /\ (x - 1) + 1 = x /\ x - 1 < x
  BY <1>5
<1>7. x - 1 \in T
  BY <1>4, <1>6
<1> QED BY <1>5, <1>6, <1>7

\* What n rounds of a loop make of a value.
Rounds(n, start, step, g) ==
    g = [k \in 0..n |-> IF k = 0 THEN start ELSE step[<<g[k - 1], k>>]]

\* The values of the rounds stay in a set that every round stays in.
LEMMA RoundsStay ==
    ASSUME NEW S, NEW n \in Nat, NEW g, g[0] \in S,
           \A k \in 1..n : g[k - 1] \in S => g[k] \in S
    PROVE  \A k \in 0..n : g[k] \in S
<1> DEFINE T == {k \in 0..n : g[k] \in S}
<1>1. 0 \in T
  OBVIOUS
<1>2. ASSUME NEW k \in 0..(n - 1), k \in T PROVE k + 1 \in T
  <2>1. k + 1 \in 1..n /\ k + 1 \in 0..n /\ (k + 1) - 1 = k
    OBVIOUS
  <2> QED BY <1>2, <2>1
<1> HIDE DEF T
<1>3. \A k \in 0..n : k \in T
  BY <1>1, <1>2, UpTo
<1> QED BY <1>3 DEF T

LEMMA RoundsExist ==
    ASSUME NEW S, NEW n \in Nat, NEW start \in S, NEW step \in [S \X (1..n) -> S]
    PROVE  \E g \in [0..n -> S] : Rounds(n, start, step, g)
<1> DEFINE T == {k \in 0..n : \E g : Rounds(k, start, step, g)}
<1>1. 0 \in T
  <2> DEFINE g == [i \in 0..0 |-> start]
  <2>1. \A i \in 0..0 : i = 0
    OBVIOUS
  <2>2. g = [i \in 0..0 |-> IF i = 0 THEN start ELSE step[<<g[i - 1], i>>]]
    BY <2>1
  <2>3. Rounds(0, start, step, g)
    BY <2>2 DEF Rounds
  <2>4. \E h : Rounds(0, start, step, h)
    BY <2>3
  <2> QED BY <2>4
<1>2. ASSUME NEW k \in 0..(n - 1), k \in T PROVE k + 1 \in T
  <2>1. PICK g : Rounds(k, start, step, g)
    BY <1>2
  <2>2. DOMAIN g = 0..k /\ \A i \in 0..k : g[i] = IF i = 0 THEN start ELSE step[<<g[i - 1], i>>]
    BY <2>1 DEF Rounds
  <2> DEFINE h == [i \in 0..(k + 1) |-> IF i = k + 1 THEN step[<<g[k], k + 1>>] ELSE g[i]]
             F(i) == IF i = 0 THEN start ELSE step[<<h[i - 1], i>>]
  <2>3. ASSUME NEW i \in 0..(k + 1) PROVE h[i] = F(i)
    <3>1. CASE i = k + 1
      <4>1. i # 0 /\ i - 1 = k /\ k \in 0..(k + 1) /\ k # k + 1
        BY <3>1
      <4>2. h[k] = g[k] /\ h[i] = step[<<g[k], i>>]
        BY <3>1, <4>1
      <4> HIDE DEF h
      <4> QED BY <4>1, <4>2
    <3>2. CASE i # k + 1
      <4>1. i \in 0..k /\ h[i] = g[i]
        BY <3>2
      <4>2. i # 0 => i - 1 \in 0..(k + 1) /\ i - 1 # k + 1
        BY <3>2
      <4>3. i # 0 => h[i - 1] = g[i - 1]
        BY <4>2
      <4> HIDE DEF h
      <4> QED BY <2>2, <4>1, <4>3
    <3> QED BY <3>1, <3>2
  <2>4. h = [i \in 0..(k + 1) |-> F(i)]
    <3>1. DOMAIN h = 0..(k + 1) /\ h = [i \in 0..(k + 1) |-> h[i]]
      OBVIOUS
    <3> HIDE DEF h
    <3> QED BY <2>3, <3>1
  <2> HIDE DEF h
  <2>5. Rounds(k + 1, start, step, h)
    BY <2>4 DEF Rounds
  <2>6. k + 1 \in 0..n
    OBVIOUS
  <2> QED BY <2>5, <2>6
<1>3. n \in T
  <2> HIDE DEF T
  <2>1. \A k \in 0..n : k \in T
    BY <1>1, <1>2, UpTo
  <2> QED BY <2>1
<1>4. PICK g : Rounds(n, start, step, g)
  BY <1>3
<1>5. g = [k \in 0..n |-> g[k]] /\ \A k \in 0..n : g[k] = IF k = 0 THEN start ELSE step[<<g[k - 1], k>>]
  BY <1>4 DEF Rounds
<1>6. g[0] \in S
  <2>1. 0 \in 0..n
    OBVIOUS
  <2> QED BY <1>5, <2>1
<1>7. \A k \in 1..n : g[k - 1] \in S => g[k] \in S
  <2>1. SUFFICES ASSUME NEW k \in 1..n, g[k - 1] \in S PROVE g[k] \in S
    OBVIOUS
  <2>2. k \in 0..n /\ k # 0
    OBVIOUS
  <2>3. g[k] = step[<<g[k - 1], k>>]
    BY <1>5, <2>2
  <2> QED BY <2>1, <2>3
<1>8. \A k \in 0..n : g[k] \in S
  BY <1>6, <1>7, RoundsStay
<1> QED BY <1>4, <1>5, <1>8

-----------------------------------------------------------------------------
(* Words *)

LEMMA Powers ==
    ASSUME NEW n \in 0..W
    PROVE  /\ 2 ^ n \in Nat \ {0} /\ 2 ^ (W - n) \in Nat \ {0} /\ 2 ^ W \in Nat \ {0}
           /\ 2 ^ W = 2 ^ n * 2 ^ (W - n) /\ 2 ^ n <= 2 ^ W
<1>1. W \in Nat /\ W - n \in Nat /\ n + (W - n) = W
  BY DataAssumption
<1>2. 2 ^ n \in Nat \ {0} /\ 2 ^ (W - n) \in Nat \ {0} /\ 2 ^ W \in Nat \ {0}
  BY <1>1, PowerPositive
<1>3. PICK b \in Nat : b = W - n
  BY <1>1
<1>4. 2 ^ (n + b) = 2 ^ n * 2 ^ b
  BY PowerSum
<1>5. 2 ^ W = 2 ^ n * 2 ^ (W - n)
  BY <1>1, <1>3, <1>4
<1>6. PICK x \in Nat \ {0}, y \in Nat \ {0} : x = 2 ^ n /\ y = 2 ^ (W - n)
  BY <1>2
<1>7. x <= x * y
  OBVIOUS
<1> QED BY <1>2, <1>5, <1>6, <1>7

\* One bit more doubles what a word can be.
LEMMA Doubles ==
    ASSUME NEW k \in Nat \ {0}
    PROVE  2 ^ k = 2 * 2 ^ (k - 1) /\ 2 ^ (k - 1) \in Nat \ {0}
<1>1. PICK j \in Nat, one \in Nat : j = k - 1 /\ one = 1
  OBVIOUS
<1>2. 2 ^ (one + j) = 2 ^ one * 2 ^ j /\ 2 ^ j \in Nat \ {0}
  BY PowerSum, PowerPositive
<1>3. one + j = k /\ 2 ^ one = 2
  BY <1>1
<1> QED BY <1>1, <1>2, <1>3

LEMMA Quotients ==
    ASSUME NEW s \in Int, NEW d \in Nat, NEW a \in Nat \ {0}, NEW b \in Nat \ {0}, d < a * b
    PROVE  /\ d \div a \in 0..(b - 1) /\ s % a \in 0..(a - 1)
           /\ (d \div a) + (s % a) * b \in 0..(a * b - 1)
OBVIOUS

LEMMA Remainders ==
    ASSUME NEW d \in Nat, NEW a \in Nat \ {0}, NEW b \in Nat \ {0}
    PROVE  (d * a) % (a * b) = (d % b) * a
<1>1. PICK q \in Nat, r \in 0..(b - 1) : q = d \div b /\ r = d % b /\ d = b * q + r
  OBVIOUS
<1>2. d * a = (a * b) * q + r * a
  <2>1. PICK p \in Nat : p = b * q
    BY <1>1
  <2>2. d * a = p * a + r * a
    BY <1>1, <2>1
  <2>3. p * a = (a * b) * q
    BY <2>1
  <2> QED BY <2>2, <2>3
<1>3. PICK c \in Nat \ {0}, s \in Nat : c = a * b /\ s = r * a
  BY <1>1
<1>4. s < c
  <2>1. (b - r) * a > 0
    BY <1>1
  <2> QED BY <1>1, <1>3, <2>1
<1>5. (c * q + s) % c = s
  BY <1>4
<1> QED BY <1>1, <1>2, <1>3, <1>5

LEMMA NthBits ==
    ASSUME NEW n \in Nat, NEW v \in Int
    PROVE  NthBit(n, v) \in Bit
<1>1. PICK p \in Nat \ {0} : p = 2 ^ n
  BY PowerPositive
<1>2. (v \div p) \in Int
  BY <1>1
<1>3. PICK q \in Int : q = v \div p
  BY <1>2
<1>4. q % 2 \in {0, 1}
  OBVIOUS
<1> QED BY <1>1, <1>3, <1>4 DEF NthBit, Bit

\* What a modulus leaves of a word's width is a word.
LEMMA Modulo ==
    ASSUME NEW v \in Int
    PROVE  v % 2 ^ W \in Words
<1>1. PICK p \in Nat \ {0} : p = 2 ^ W
  BY PowerPositive, DataAssumption
<1>2. v % p \in 0..(p - 1)
  OBVIOUS
<1> QED BY <1>1, <1>2 DEF Words

LEMMA LeftShifts ==
    ASSUME NEW v \in Nat, NEW n \in 0..W
    PROVE  ShiftedLeft(v, n) \in Words
<1>1. v * 2 ^ n \in Int
  BY Powers
<1> QED BY <1>1, Modulo DEF ShiftedLeft

LEMMA Copies ==
    ASSUME NEW right, NEW v \in Words, NEW n \in 0..W
    PROVE  Copied(right, v, n) \subseteq Words /\ ShiftedOut(right, v, n) \in Words
<1>1. PICK a \in Nat \ {0}, b \in Nat \ {0}, c \in Nat \ {0} :
          a = 2 ^ n /\ b = 2 ^ (W - n) /\ c = 2 ^ W /\ c = a * b
  BY Powers
<1>2. v \in 0..(c - 1) /\ Words = 0..(c - 1) /\ v \in Nat
  BY <1>1 DEF Words
<1>3. a <= c /\ b <= c
  BY <1>1
<1>4. v \div a \in 0..(b - 1) /\ v % a \in 0..(a - 1)
  <2>1. v < a * b /\ v \in Nat /\ v \in Int
    BY <1>1, <1>2
  <2> QED BY <2>1, Quotients, Zenon
<1>5. v \div b \in 0..(a - 1)
  <2>1. v < b * a /\ v \in Nat /\ v \in Int
    BY <1>1, <1>2
  <2> QED BY <2>1, Quotients, Zenon
<1>6. v % a \in Words /\ v \div a \in Words /\ v \div b \in Words /\ 0 \in Words
  BY <1>2, <1>3, <1>4, <1>5
<1>7. ShiftedLeft(v, n) \in Words
  BY <1>2, LeftShifts
<1>8. Copied(right, v, n) \subseteq {v, 0, v % a, v \div b}
  BY <1>1 DEF Copied
<1>9. ShiftedOut(right, v, n) \in {0, v \div a, ShiftedLeft(v, n)}
  BY <1>1 DEF ShiftedOut
<1> QED BY <1>6, <1>7, <1>8, <1>9

\* The parts that shift_n_then_copy puts together do not overlap.
LEMMA Shifts ==
    ASSUME NEW right, NEW s \in Words, NEW d \in Words, NEW n \in 0..W
    PROVE  ShiftNThenCopy(right, s, d, n) \subseteq Words
<1>1. PICK a \in Nat \ {0}, b \in Nat \ {0}, c \in Nat \ {0} :
          a = 2 ^ n /\ b = 2 ^ (W - n) /\ c = 2 ^ W /\ c = a * b
  BY Powers
<1>2. s \in 0..(c - 1) /\ d \in 0..(c - 1) /\ Words = 0..(c - 1) /\ s \in Nat /\ d \in Nat
  BY <1>1 DEF Words
<1>3. (d + s) % 2 ^ W \in Words
  <2>1. d + s \in Int
    BY <1>2
  <2> QED BY <2>1, Modulo
<1>4. (d \div a) + (s % a) * b \in Words
  <2>1. d < a * b /\ d \in Nat /\ s \in Int
    BY <1>1, <1>2
  <2>2. (d \div a) + (s % a) * b \in 0..(a * b - 1)
    BY <2>1, Quotients, Zenon
  <2> QED BY <1>1, <1>2, <2>2
<1>5. ShiftedLeft(d, n) + (s % a) \in Words
  <2>1. ShiftedLeft(d, n) = (d % b) * a
    <3>1. (d * a) % (a * b) = (d % b) * a
      BY <1>2, Remainders, Zenon
    <3>2. ShiftedLeft(d, n) = (d * a) % (a * b)
      BY <1>1, Zenon DEF ShiftedLeft
    <3> QED BY <3>1, <3>2
  <2>2. PICK x \in 0..(b - 1), y \in 0..(a - 1) : x = d % b /\ y = s % a
    BY <1>2
  <2>3. x * a <= (b - 1) * a
    OBVIOUS
  <2>4. x * a + y \in 0..(a * b - 1)
    BY <2>3
  <2> QED BY <1>1, <1>2, <2>1, <2>2, <2>4
<1> QED BY <1>1, <1>2, <1>3, <1>4, <1>5 DEF ShiftNThenCopy

\* A word's bits below k and one more are its bits below k + 1.
LEMMA OneMore ==
    ASSUME NEW k \in 1..W, NEW v \in 0..(2 ^ (k - 1) - 1), NEW b \in Bit
    PROVE  /\ ShiftedLeft(v, 1) + b \in 0..(2 ^ k - 1)
           /\ SetNthBit(k - 1, v, b) \in 0..(2 ^ k - 1)
<1>1. k \in Nat \ {0} /\ k \in 0..W /\ k - 1 \in Nat
  BY DataAssumption
<1>2. PICK p \in Nat \ {0} : p = 2 ^ (k - 1) /\ 2 ^ k = 2 * p
  BY <1>1, Doubles
<1>3. PICK c \in Nat \ {0} : c = 2 ^ W /\ 2 * p <= c
  BY <1>1, <1>2, Powers
<1>4. b \in {0, 1} /\ v \in 0..(p - 1)
  BY <1>2 DEF Bit
<1>5. (v * 2) % c = v * 2
  BY <1>3, <1>4
<1>6. ShiftedLeft(v, 1) = v * 2
  <2>1. 2 ^ 1 = 2
    OBVIOUS
  <2> QED BY <1>3, <1>5, <2>1 DEF ShiftedLeft
<1>7. v \div p = 0
  BY <1>4
<1>8. NthBit(k - 1, v) = 0
  <2>1. 0 % 2 = 0
    OBVIOUS
  <2> QED BY <1>2, <1>7, <2>1 DEF NthBit
<1>9. SetNthBit(k - 1, v, b) = v + b * p
  <2>1. b - 0 = b
    BY <1>4
  <2> QED BY <1>2, <1>8, <2>1 DEF SetNthBit
<1>10. v + b * p \in 0..(2 * p - 1)
  BY <1>4
<1> QED BY <1>2, <1>4, <1>6, <1>9, <1>10

\* op_bit_reverse gives a word.
ReverseRounds(input, g) ==
    g = [k \in 0..W |->
            IF k = 0 THEN [in |-> input, out |-> 0]
            ELSE [in |-> g[k - 1].in \div 2,
                  out |-> ShiftedLeft(g[k - 1].out, 1) + (g[k - 1].in % 2)]]

LEMMA Reverses ==
    ASSUME NEW v \in Words
    PROVE  OpBitReverse(v) \in Words
<1> DEFINE S == [in : Nat, out : Nat]
           start == [in |-> v, out |-> 0]
           step == [p \in S \X (1..W) |->
                       [in |-> p[1].in \div 2, out |-> ShiftedLeft(p[1].out, 1) + (p[1].in % 2)]]
<1>1. W \in Nat \ {0} /\ start \in S
  BY DataAssumption DEF Words
<1>2. step \in [S \X (1..W) -> S]
  <2>1. ASSUME NEW p \in S \X (1..W)
        PROVE  [in |-> p[1].in \div 2, out |-> ShiftedLeft(p[1].out, 1) + (p[1].in % 2)] \in S
    <3>1. PICK x \in Nat, y \in Nat : x = p[1].in /\ y = p[1].out
      OBVIOUS
    <3>2. x \div 2 \in Nat /\ x % 2 \in Nat
      OBVIOUS
    <3>3. ShiftedLeft(y, 1) \in Nat
      <4>1. 1 \in 0..W
        BY <1>1
      <4>2. ShiftedLeft(y, 1) \in Words
        BY <4>1, LeftShifts
      <4> QED BY <4>2 DEF Words
    <3> QED BY <3>1, <3>2, <3>3
  <2> HIDE DEF S
  <2> QED BY <2>1
<1>3. \E g : ReverseRounds(v, g)
  <2>1. PICK g \in [0..W -> S] : Rounds(W, start, step, g)
    <3> HIDE DEF S, start, step
    <3> QED BY <1>1, <1>2, RoundsExist
  <2> DEFINE F(k) == IF k = 0 THEN [in |-> v, out |-> 0]
                     ELSE [in |-> g[k - 1].in \div 2,
                           out |-> ShiftedLeft(g[k - 1].out, 1) + (g[k - 1].in % 2)]
  <2>2. ASSUME NEW k \in 0..W PROVE g[k] = F(k)
    <3>1. g[k] = IF k = 0 THEN start ELSE step[<<g[k - 1], k>>]
      <4> HIDE DEF S, start, step
      <4> QED BY <2>1 DEF Rounds
    <3>2. CASE k = 0
      BY <3>1, <3>2
    <3>3. CASE k # 0
      <4>1. k - 1 \in 0..W /\ k \in 1..W
        BY <1>1, <3>3
      <4>2. <<g[k - 1], k>> \in S \X (1..W)
        BY <2>1, <4>1
      <4>3. step[<<g[k - 1], k>>] = F(k)
        <5>1. PICK s, q : s = g[k - 1] /\ q = <<s, k>> /\ q \in S \X (1..W) /\ q[1] = s
          BY <4>2
        <5> HIDE DEF S
        <5> QED BY <3>3, <5>1
      <4> QED BY <3>1, <3>3, <4>3
    <3> QED BY <3>2, <3>3
  <2>3. g = [k \in 0..W |-> F(k)]
    <3> HIDE DEF F, S
    <3> QED BY <2>1, <2>2
  <2>4. ReverseRounds(v, g)
    BY <2>3 DEF ReverseRounds
  <2> QED BY <2>4
<1> DEFINE round == CHOOSE g : ReverseRounds(v, g)
<1>4. OpBitReverse(v) = round[W].out
  BY DEF OpBitReverse, ReverseRounds
<1>5. ReverseRounds(v, round)
  BY <1>3
<1> HIDE DEF round
<1>6. \A k \in 0..W : round[k] = IF k = 0 THEN [in |-> v, out |-> 0]
                                 ELSE [in |-> round[k - 1].in \div 2,
                                       out |-> ShiftedLeft(round[k - 1].out, 1) + (round[k - 1].in % 2)]
  BY <1>5 DEF ReverseRounds
<1> DEFINE T == {k \in 0..W : round[k].in \in Nat /\ round[k].out \in 0..(2 ^ k - 1)}
<1>7. 0 \in T
  <2>1. 0 \in 0..W /\ 2 ^ 0 = 1
    BY <1>1
  <2>2. round[0].in = v /\ round[0].out = 0
    <3>1. round[0] = [in |-> v, out |-> 0]
      BY <1>6, <2>1
    <3> QED BY <3>1
  <2> QED BY <2>1, <2>2 DEF Words
<1>8. ASSUME NEW k \in 0..(W - 1), k \in T PROVE k + 1 \in T
  <2>1. PICK n \in 1..W : n = k + 1 /\ n - 1 = k /\ n # 0 /\ n \in 0..W
    BY <1>1
  <2>2. PICK x \in Nat, y \in 0..(2 ^ (n - 1) - 1) : x = round[n - 1].in /\ y = round[n - 1].out
    BY <1>8, <2>1
  <2>3. round[n].in = x \div 2 /\ round[n].out = ShiftedLeft(y, 1) + (x % 2)
    <3>1. round[n] = [in |-> round[n - 1].in \div 2,
                      out |-> ShiftedLeft(round[n - 1].out, 1) + (round[n - 1].in % 2)]
      BY <1>6, <2>1
    <3> QED BY <2>2, <3>1
  <2>4. x \div 2 \in Nat /\ x % 2 \in Bit
    BY DEF Bit
  <2>5. round[n].out \in 0..(2 ^ n - 1)
    BY <2>3, <2>4, OneMore
  <2>6. round[n].in \in Nat
    BY <2>3, <2>4
  <2> QED BY <2>1, <2>5, <2>6
<1> HIDE DEF T
<1>9. \A k \in 0..W : k \in T
  BY <1>1, <1>7, <1>8, UpTo
<1>10. W \in T
  BY <1>1, <1>9
<1> QED BY <1>4, <1>10 DEF T, Words

LEMMA SetupParts ==
    ASSUME setup \in Setups
    PROVE  /\ W \in Nat \ {0}
           /\ setup.in_base \in Int /\ setup.out_base \in Int /\ setup.set_base \in Int
           /\ setup.side_base \in Int /\ setup.out_num \in 0..W /\ setup.exec_bits \in 0..W
           /\ setup.words \subseteq Words
<1>1. W \in Nat \ {0} /\ Idx \subseteq Int
  BY DataAssumption DEF Idx
<1>2. {setup.in_base, setup.out_base, setup.set_base, setup.side_base} \subseteq Idx
  BY DataAssumption
<1>3. setup.out_num \in 0..W /\ setup.exec_bits \in 1..W /\ setup.words \subseteq Words
  BY DataAssumption
<1>4. 1..W \subseteq 0..W
  BY <1>1
<1> QED BY <1>1, <1>2, <1>3, <1>4

\* The pin a loop is at.
LEMMA WrappedPin ==
    ASSUME NEW k \in Int, setup \in Setups
    PROVE  (setup.in_base + k - 1) % W \in Idx
<1>1. PICK b \in Int : b = setup.in_base + k - 1
  BY SetupParts
<1>2. PICK w \in Nat \ {0} : w = W
  BY SetupParts
<1>3. b % w \in 0..(w - 1)
  OBVIOUS
<1> QED BY <1>1, <1>2, <1>3 DEF Idx

\* IN's loop over the pins gives a word with no more bits than pins.
InRounds(pins, num, g) ==
    g = [k \in 0..num |-> IF k = 0 THEN 0 ELSE SetNthBit(k - 1, g[k - 1], pins[(setup.in_base + k - 1) % W])]

LEMMA InReadsWord ==
    ASSUME NEW pins \in [Idx -> Bit], NEW num \in 0..W, setup \in Setups
    PROVE  InFromPins(pins, num) \in 0..(2 ^ num - 1)
<1> DEFINE step == [p \in Nat \X (1..num) |-> SetNthBit(p[2] - 1, p[1], pins[(setup.in_base + p[2] - 1) % W])]
<1>1. num \in Nat /\ num <= W /\ W \in Nat \ {0}
  BY DataAssumption
<1>2. \A k \in 1..num : pins[(setup.in_base + k - 1) % W] \in Bit
  <2>1. ASSUME NEW k \in 1..num PROVE (setup.in_base + k - 1) % W \in Idx
    BY WrappedPin
  <2> QED BY <2>1
<1>3. step \in [Nat \X (1..num) -> Nat]
  <2>1. ASSUME NEW p \in Nat \X (1..num) PROVE SetNthBit(p[2] - 1, p[1], pins[(setup.in_base + p[2] - 1) % W]) \in Nat
    <3>1. PICK x \in Nat, k \in 1..num, b \in Bit :
              x = p[1] /\ k = p[2] /\ b = pins[(setup.in_base + p[2] - 1) % W]
      BY <1>2
    <3>2. PICK a \in Nat \ {0}, j \in Nat : a = 2 ^ (k - 1) /\ j = k - 1
      BY PowerPositive
    <3>3. PICK c \in Bit : c = NthBit(j, x)
      BY NthBits
    <3>4. c = 1 => x >= a
      <4>1. x < a => x \div a = 0
        OBVIOUS
      <4>2. x < a => c = 0
        <5>1. 0 % 2 = 0
          OBVIOUS
        <5> QED BY <3>2, <3>3, <4>1, <5>1 DEF NthBit
      <4> QED BY <4>2
    <3>5. x + (b - c) * a \in Nat
      <4>1. b \in {0, 1} /\ c \in {0, 1}
        BY DEF Bit
      <4>2. CASE b - c = -1
        BY <3>4, <4>1, <4>2
      <4>3. CASE b - c # -1
        BY <4>1, <4>3
      <4> QED BY <4>2, <4>3
    <3> QED BY <3>1, <3>2, <3>3, <3>5 DEF SetNthBit
  <2> QED BY <2>1
<1>4. \E g : InRounds(pins, num, g)
  <2>1. PICK g \in [0..num -> Nat] : Rounds(num, 0, step, g)
    <3>1. 0 \in Nat
      OBVIOUS
    <3> HIDE DEF step
    <3> QED BY <1>1, <1>3, <3>1, RoundsExist
  <2> DEFINE F(k) == IF k = 0 THEN 0 ELSE SetNthBit(k - 1, g[k - 1], pins[(setup.in_base + k - 1) % W])
  <2>2. ASSUME NEW k \in 0..num PROVE g[k] = F(k)
    <3>1. g[k] = IF k = 0 THEN 0 ELSE step[<<g[k - 1], k>>]
      <4> HIDE DEF step
      <4> QED BY <2>1 DEF Rounds
    <3>2. CASE k = 0
      BY <3>1, <3>2
    <3>3. CASE k # 0
      <4>1. k - 1 \in 0..num /\ k \in 1..num
        BY <1>1, <3>3
      <4>2. PICK x \in Nat : x = g[k - 1]
        BY <2>1, <4>1
      <4>3. step[<<x, k>>] = SetNthBit(k - 1, x, pins[(setup.in_base + k - 1) % W])
        BY <4>1
      <4> HIDE DEF step
      <4> QED BY <3>1, <3>3, <4>2, <4>3
    <3> QED BY <3>2, <3>3
  <2>3. g = [k \in 0..num |-> F(k)]
    <3> HIDE DEF F
    <3> QED BY <2>1, <2>2
  <2>4. InRounds(pins, num, g)
    BY <2>3 DEF InRounds
  <2> QED BY <2>4
<1> DEFINE got == CHOOSE g : InRounds(pins, num, g)
<1>5. InFromPins(pins, num) = got[num]
  BY DEF InFromPins, InRounds
<1>6. InRounds(pins, num, got)
  BY <1>4
<1> HIDE DEF got
<1>7. \A k \in 0..num : got[k] = IF k = 0 THEN 0 ELSE SetNthBit(k - 1, got[k - 1], pins[(setup.in_base + k - 1) % W])
  BY <1>6 DEF InRounds
<1> DEFINE T == {k \in 0..num : got[k] \in 0..(2 ^ k - 1)}
<1>8. 0 \in T
  <2>1. 0 \in 0..num /\ 2 ^ 0 = 1
    BY <1>1
  <2>2. got[0] = 0
    BY <1>7, <2>1
  <2> QED BY <2>1, <2>2
<1>9. ASSUME NEW k \in 0..(num - 1), k \in T PROVE k + 1 \in T
  <2>1. PICK n \in 1..W : n = k + 1 /\ n - 1 = k /\ n # 0 /\ n \in 0..num /\ n \in 1..num
    BY <1>1
  <2>2. PICK x \in 0..(2 ^ (n - 1) - 1) : x = got[n - 1]
    BY <1>9, <2>1
  <2>3. PICK b \in Bit : b = pins[(setup.in_base + n - 1) % W]
    BY <1>2, <2>1
  <2>4. got[n] = SetNthBit(n - 1, x, b)
    BY <1>7, <2>1, <2>2, <2>3
  <2>5. got[n] \in 0..(2 ^ n - 1)
    BY <2>4, OneMore
  <2> QED BY <2>1, <2>5
<1> HIDE DEF T
<1>10. \A k \in 0..num : k \in T
  BY <1>1, <1>8, <1>9, UpTo
<1>11. num \in T
  BY <1>1, <1>10
<1> QED BY <1>5, <1>11 DEF T

\* MOV's loop over all pins gives a word.
MovRounds(pins, g) ==
    g = [k \in 0..W |-> IF k = 0 THEN 0 ELSE ShiftedLeft(g[k - 1], 1) + pins[(setup.in_base + k - 1) % W]]

LEMMA MovReadsWord ==
    ASSUME NEW pins \in [Idx -> Bit], setup \in Setups
    PROVE  MovFromPins(pins) \in 0..(2 ^ W - 1)
<1> DEFINE step == [p \in Nat \X (1..W) |-> ShiftedLeft(p[1], 1) + pins[(setup.in_base + p[2] - 1) % W]]
<1>1. W \in Nat /\ W <= W /\ W \in Nat \ {0}
  BY DataAssumption
<1>2. \A k \in 1..W : pins[(setup.in_base + k - 1) % W] \in Bit
  <2>1. ASSUME NEW k \in 1..W PROVE (setup.in_base + k - 1) % W \in Idx
    BY WrappedPin
  <2> QED BY <2>1
<1>3. step \in [Nat \X (1..W) -> Nat]
  <2>1. ASSUME NEW p \in Nat \X (1..W) PROVE ShiftedLeft(p[1], 1) + pins[(setup.in_base + p[2] - 1) % W] \in Nat
    <3>1. PICK x \in Nat, b \in Bit : x = p[1] /\ b = pins[(setup.in_base + p[2] - 1) % W]
      BY <1>2
    <3>2. ShiftedLeft(x, 1) \in Nat
      <4>1. 1 \in 0..W
        BY <1>1
      <4>2. ShiftedLeft(x, 1) \in Words
        BY <4>1, LeftShifts
      <4> QED BY <4>2 DEF Words
    <3> QED BY <3>1, <3>2 DEF Bit
  <2> QED BY <2>1
<1>4. \E g : MovRounds(pins, g)
  <2>1. PICK g \in [0..W -> Nat] : Rounds(W, 0, step, g)
    <3>1. 0 \in Nat
      OBVIOUS
    <3> HIDE DEF step
    <3> QED BY <1>1, <1>3, <3>1, RoundsExist
  <2> DEFINE F(k) == IF k = 0 THEN 0 ELSE ShiftedLeft(g[k - 1], 1) + pins[(setup.in_base + k - 1) % W]
  <2>2. ASSUME NEW k \in 0..W PROVE g[k] = F(k)
    <3>1. g[k] = IF k = 0 THEN 0 ELSE step[<<g[k - 1], k>>]
      <4> HIDE DEF step
      <4> QED BY <2>1 DEF Rounds
    <3>2. CASE k = 0
      BY <3>1, <3>2
    <3>3. CASE k # 0
      <4>1. k - 1 \in 0..W /\ k \in 1..W
        BY <1>1, <3>3
      <4>2. PICK x \in Nat : x = g[k - 1]
        BY <2>1, <4>1
      <4>3. step[<<x, k>>] = ShiftedLeft(x, 1) + pins[(setup.in_base + k - 1) % W]
        BY <4>1
      <4> HIDE DEF step
      <4> QED BY <3>1, <3>3, <4>2, <4>3
    <3> QED BY <3>2, <3>3
  <2>3. g = [k \in 0..W |-> F(k)]
    <3> HIDE DEF F
    <3> QED BY <2>1, <2>2
  <2>4. MovRounds(pins, g)
    BY <2>3 DEF MovRounds
  <2> QED BY <2>4
<1> DEFINE got == CHOOSE g : MovRounds(pins, g)
<1>5. MovFromPins(pins) = got[W]
  BY DEF MovFromPins, MovRounds
<1>6. MovRounds(pins, got)
  BY <1>4
<1> HIDE DEF got
<1>7. \A k \in 0..W : got[k] = IF k = 0 THEN 0 ELSE ShiftedLeft(got[k - 1], 1) + pins[(setup.in_base + k - 1) % W]
  BY <1>6 DEF MovRounds
<1> DEFINE T == {k \in 0..W : got[k] \in 0..(2 ^ k - 1)}
<1>8. 0 \in T
  <2>1. 0 \in 0..W /\ 2 ^ 0 = 1
    BY <1>1
  <2>2. got[0] = 0
    BY <1>7, <2>1
  <2> QED BY <2>1, <2>2
<1>9. ASSUME NEW k \in 0..(W - 1), k \in T PROVE k + 1 \in T
  <2>1. PICK n \in 1..W : n = k + 1 /\ n - 1 = k /\ n # 0 /\ n \in 0..W /\ n \in 1..W
    BY <1>1
  <2>2. PICK x \in 0..(2 ^ (n - 1) - 1) : x = got[n - 1]
    BY <1>9, <2>1
  <2>3. PICK b \in Bit : b = pins[(setup.in_base + n - 1) % W]
    BY <1>2, <2>1
  <2>4. got[n] = ShiftedLeft(x, 1) + b
    BY <1>7, <2>1, <2>2, <2>3
  <2>5. got[n] \in 0..(2 ^ n - 1)
    BY <2>4, OneMore
  <2> QED BY <2>1, <2>5
<1> HIDE DEF T
<1>10. \A k \in 0..W : k \in T
  BY <1>1, <1>8, <1>9, UpTo
<1>11. W \in T
  BY <1>1, <1>10
<1> QED BY <1>5, <1>11 DEF T

\* The loops that write pins leave every pin a bit.
LEMMA SetPinsBits ==
    ASSUME NEW pins \in [Idx -> Bit], NEW base \in Int, NEW num, NEW v \in Int
    PROVE  SetPins(pins, base, num, v) \in [Idx -> Bit]
<1>1. ASSUME NEW p \in Idx, p \in base..(base + num - 1) PROVE NthBit(p - base, v) \in Bit
  <2>1. p - base \in Nat
    BY <1>1 DEF Idx
  <2> QED BY <2>1, NthBits
<1> QED BY <1>1 DEF SetPins

OutRounds(pins, num, value, g) ==
    g = [k \in 0..num |->
            IF k = 0 THEN pins
            ELSE [g[k - 1] EXCEPT ![(setup.out_base + k - 1) % W] = NthBit(k - 1, value)]]

LEMMA OutPinsBits ==
    ASSUME NEW pins \in [Idx -> Bit], NEW num \in Nat, NEW v \in Int
    PROVE  OutPins(pins, num, v) \in [Idx -> Bit]
<1> DEFINE S == [Idx -> Bit]
           step == [p \in S \X (1..num) |->
                       [p[1] EXCEPT ![(setup.out_base + p[2] - 1) % W] = NthBit(p[2] - 1, v)]]
<1>1. \A k \in 1..num : NthBit(k - 1, v) \in Bit
  <2>1. \A k \in 1..num : k - 1 \in Nat
    OBVIOUS
  <2> QED BY <2>1, NthBits
<1>2. step \in [S \X (1..num) -> S]
  BY <1>1
<1>3. PICK g \in [0..num -> S] : Rounds(num, pins, step, g)
  <2>1. pins \in S
    OBVIOUS
  <2> HIDE DEF S, step
  <2> QED BY <1>2, <2>1, RoundsExist
<1> DEFINE F(h, k) == IF k = 0 THEN pins
                      ELSE [h[k - 1] EXCEPT ![(setup.out_base + k - 1) % W] = NthBit(k - 1, v)]
<1>4. ASSUME NEW k \in 0..num PROVE g[k] = F(g, k)
  <2>1. g[k] = IF k = 0 THEN pins ELSE step[<<g[k - 1], k>>]
    <3> HIDE DEF S, step
    <3> QED BY <1>3 DEF Rounds
  <2>2. CASE k = 0
    BY <2>1, <2>2
  <2>3. CASE k # 0
    <3>1. k - 1 \in 0..num /\ k \in 1..num
      BY <2>3
    <3>2. PICK x \in S : x = g[k - 1]
      BY <1>3, <3>1
    <3>3. step[<<x, k>>] = [x EXCEPT ![(setup.out_base + k - 1) % W] = NthBit(k - 1, v)]
      BY <3>1
    <3> HIDE DEF step
    <3> QED BY <2>1, <2>3, <3>2, <3>3
  <2> QED BY <2>2, <2>3
<1>5. OutRounds(pins, num, v, g)
  <2>1. g = [k \in 0..num |-> F(g, k)]
    <3> HIDE DEF F, S
    <3> QED BY <1>3, <1>4
  <2> QED BY <2>1 DEF OutRounds
<1> DEFINE place == CHOOSE h : OutRounds(pins, num, v, h)
<1>6. OutPins(pins, num, v) = place[num]
  BY DEF OutPins, OutRounds
<1>7. OutRounds(pins, num, v, place)
  BY <1>5
<1> HIDE DEF place
<1>8. \A k \in 0..num : place[k] = F(place, k)
  BY <1>7 DEF OutRounds
<1>9. place[0] \in S
  <2>1. 0 \in 0..num
    OBVIOUS
  <2> QED BY <1>8, <2>1
<1>10. ASSUME NEW k \in 1..num, place[k - 1] \in S PROVE place[k] \in S
  <2>1. k \in 0..num /\ k # 0
    OBVIOUS
  <2>2. place[k] = [place[k - 1] EXCEPT ![(setup.out_base + k - 1) % W] = NthBit(k - 1, v)]
    BY <1>8, <2>1
  <2> QED BY <1>1, <1>10, <2>2
<1>11. \A k \in 0..num : place[k] \in S
  <2> HIDE DEF F, S
  <2> QED BY <1>9, <1>10, RoundsStay
<1> QED BY <1>6, <1>11

KeypadRounds(pins, g) ==
    g = [k \in 0..Len(setup.rows) |->
            IF k = 0 THEN ColumnsCleared(pins)
            ELSE IF g[k - 1][setup.rows[k]] = 1 /\ key[1] = k
                 THEN [g[k - 1] EXCEPT ![setup.cols[key[2]]] = 1]
                 ELSE g[k - 1]]

\* What the machine's registers and pins can be.
Machine == [isr : Words, osr : Words, x : Words, y : Words, pins : [Idx -> Bit], dirs : [Idx -> Bit]]

LEMMA KeypadKeeps ==
    ASSUME NEW r \in Machine, setup \in Setups
    PROVE  RunKeypad(r) \in Machine
<1> DEFINE S == [Idx -> Bit]
           n == Len(setup.rows)
           step == [p \in S \X (1..n) |->
                       IF p[1][setup.rows[p[2]]] = 1 /\ key[1] = p[2]
                       THEN [p[1] EXCEPT ![setup.cols[key[2]]] = 1]
                       ELSE p[1]]
<1>1. n \in Nat
  BY DataAssumption
<1>2. PICK pins \in S : pins = r.pins
  BY DEF Machine
<1>3. PICK start \in S : start = ColumnsCleared(pins)
  BY DEF ColumnsCleared, Bit
<1> HIDE DEF n
<1>4. step \in [S \X (1..n) -> S]
  BY DEF Bit
<1>5. PICK g \in [0..n -> S] : Rounds(n, start, step, g)
  <2> HIDE DEF S, step
  <2> QED BY <1>1, <1>4, RoundsExist
<1> DEFINE F(h, k) == IF k = 0 THEN start
                      ELSE IF h[k - 1][setup.rows[k]] = 1 /\ key[1] = k
                           THEN [h[k - 1] EXCEPT ![setup.cols[key[2]]] = 1]
                           ELSE h[k - 1]
<1>6. ASSUME NEW k \in 0..n PROVE g[k] = F(g, k)
  <2>1. g[k] = IF k = 0 THEN start ELSE step[<<g[k - 1], k>>]
    <3> HIDE DEF S, step
    <3> QED BY <1>5 DEF Rounds
  <2>2. CASE k = 0
    BY <2>1, <2>2
  <2>3. CASE k # 0
    <3>1. k - 1 \in 0..n /\ k \in 1..n
      BY <1>1, <2>3
    <3>2. PICK x \in S : x = g[k - 1]
      BY <1>5, <3>1
    <3>3. step[<<x, k>>] = IF x[setup.rows[k]] = 1 /\ key[1] = k
                           THEN [x EXCEPT ![setup.cols[key[2]]] = 1] ELSE x
      BY <3>1
    <3> HIDE DEF step
    <3> QED BY <2>1, <2>3, <3>2, <3>3
  <2> QED BY <2>2, <2>3
<1>7. KeypadRounds(pins, g)
  <2>1. g = [k \in 0..n |-> F(g, k)]
    <3> HIDE DEF F, S
    <3> QED BY <1>5, <1>6
  <2> QED BY <1>3, <2>1 DEF KeypadRounds, n
<1> DEFINE row == CHOOSE h : KeypadRounds(pins, h)
<1>8. RunKeypad(r) = [r EXCEPT !.pins = row[n]]
  BY <1>2 DEF RunKeypad, KeypadRounds, n
<1>9. KeypadRounds(pins, row)
  BY <1>7
<1> HIDE DEF row
<1>10. \A k \in 0..n : row[k] = F(row, k)
  BY <1>3, <1>9 DEF KeypadRounds, n
<1>11. row[0] \in S
  <2>1. 0 \in 0..n
    BY <1>1
  <2> QED BY <1>10, <2>1
<1>12. ASSUME NEW k \in 1..n, row[k - 1] \in S PROVE row[k] \in S
  <2>1. k \in 0..n /\ k # 0
    BY <1>1
  <2>2. row[k] = IF row[k - 1][setup.rows[k]] = 1 /\ key[1] = k
                 THEN [row[k - 1] EXCEPT ![setup.cols[key[2]]] = 1] ELSE row[k - 1]
    BY <1>10, <2>1
  <2> QED BY <1>12, <2>2 DEF Bit
<1>13. \A k \in 0..n : row[k] \in S
  <2> HIDE DEF F, S
  <2> QED BY <1>1, <1>11, <1>12, RoundsStay
<1>14. row[n] \in S
  BY <1>1, <1>13
<1> QED BY <1>8, <1>14 DEF Machine

-----------------------------------------------------------------------------
(* The instruction routines                                                *)

Outcomes == {"done", "jump", "stall"}

LEMMA MachineParts ==
    ASSUME NEW r \in Machine
    PROVE  /\ r.isr \in Words /\ r.osr \in Words /\ r.x \in Words /\ r.y \in Words
           /\ r.pins \in [Idx -> Bit] /\ r.dirs \in [Idx -> Bit] /\ 0 \in Words
           /\ \A v \in Words : /\ [r EXCEPT !.isr = v] \in Machine /\ [r EXCEPT !.osr = v] \in Machine
                               /\ [r EXCEPT !.x = v] \in Machine /\ [r EXCEPT !.y = v] \in Machine
           /\ \A p \in [Idx -> Bit] : [r EXCEPT !.pins = p] \in Machine /\ [r EXCEPT !.dirs = p] \in Machine
<1>1. 0 \in Words
  BY PowerPositive, DataAssumption DEF Words
<1> QED BY <1>1 DEF Machine

LEMMA RegisterIsWord ==
    ASSUME NEW i, i.source \in RegisterSources, NEW r \in Machine
    PROVE  Register(i, r) \in Words
BY MachineParts DEF Register, RegisterSources

LEMMA InKeeps ==
    ASSUME NEW i, i.bit_count \in 0..W, NEW r \in Machine, setup \in Setups
    PROVE  RunIn(i, r) \subseteq Machine \X Outcomes
<1>1. PICK n \in 0..W : n = i.bit_count
  OBVIOUS
<1>2. PICK pins \in [Idx -> Bit], isr \in Words : pins = r.pins /\ isr = r.isr
  BY MachineParts
<1>3. PICK fromPins \in Words : fromPins = InFromPins(r.pins, i.bit_count)
  <2>1. InFromPins(pins, n) \in 0..(2 ^ n - 1)
    BY InReadsWord
  <2>2. 2 ^ n \in Nat /\ 2 ^ W \in Nat /\ 2 ^ n <= 2 ^ W
    BY Powers
  <2> QED BY <1>1, <1>2, <2>1, <2>2 DEF Words
<1>4. PICK isrs : isrs = IF i.source = "pins"
                         THEN ShiftNThenCopy(setup.in_right, fromPins, isr, n)
                         ELSE IF i.source \in RegisterSources
                         THEN ShiftNThenCopy(setup.in_right, Register(i, r), isr, n)
                         ELSE {isr}
  OBVIOUS
<1>5. isrs \subseteq Words
  <2>1. \A source \in Words : ShiftNThenCopy(setup.in_right, source, isr, n) \subseteq Words
    BY Shifts
  <2>2. i.source \in RegisterSources => Register(i, r) \in Words
    BY RegisterIsWord
  <2> QED BY <1>4, <2>1, <2>2
<1>6. RunIn(i, r) \subseteq {<<[r EXCEPT !.isr = v], o>> : v \in isrs \cup {0}, o \in {"done", "stall"}}
  BY <1>1, <1>2, <1>3, <1>4 DEF RunIn
<1>7. \A v \in Words : [r EXCEPT !.isr = v] \in Machine
  BY MachineParts
<1>8. isrs \cup {0} \subseteq Words
  BY <1>5, MachineParts
<1> QED BY <1>6, <1>7, <1>8 DEF Outcomes

LEMMA WritesMachine ==
    ASSUME NEW i, NEW s \in Machine, NEW n \in 0..W, NEW v \in Words
    PROVE  Written(i, s, n, v) \in Machine
<1>1. n \in Nat /\ v \in Int
  BY DataAssumption DEF Words
<1>2. PICK pins \in [Idx -> Bit], dirs \in [Idx -> Bit] :
          pins = OutPins(s.pins, n, v) /\ dirs = OutPins(s.dirs, n, v)
  BY <1>1, MachineParts, OutPinsBits
<1>3. /\ [s EXCEPT !.pins = pins] \in Machine /\ [s EXCEPT !.dirs = dirs] \in Machine
      /\ [s EXCEPT !.x = v] \in Machine /\ [s EXCEPT !.y = v] \in Machine
      /\ [s EXCEPT !.isr = v] \in Machine
  BY MachineParts
<1> QED BY <1>2, <1>3 DEF Written

\* Of the OSR, also one that autopull has just filled, a machine remains.
LEMMA RemainsMachine ==
    ASSUME NEW r \in Machine, NEW osr \in OutOf(r), NEW n \in 0..W, setup \in Setups
    PROVE  osr \in Words /\ WithoutBits(r, osr, n) \in Machine
<1>1. osr \in Words
  BY SetupParts, MachineParts DEF OutOf
<1>2. ShiftedOut(setup.out_right, osr, n) \in Words
  BY <1>1, Copies
<1> QED BY <1>1, <1>2, MachineParts DEF WithoutBits

LEMMA OutKeeps ==
    ASSUME NEW i, i.bit_count \in 0..W, NEW r \in Machine, setup \in Setups
    PROVE  RunOut(i, r) \subseteq Machine \X Outcomes
<1>1. PICK n \in 0..W : n = BitsTodo(i)
  BY SetupParts DEF BitsTodo
<1>2. ASSUME NEW osr \in OutOf(r), NEW v \in Copied(setup.out_right, osr, n)
      PROVE  Written(i, WithoutBits(r, osr, n), n, v) \in Machine
  <2>1. osr \in Words /\ WithoutBits(r, osr, n) \in Machine
    BY RemainsMachine
  <2>2. v \in Words
    BY <2>1, Copies
  <2> QED BY <2>1, <2>2, WritesMachine
<1>3. RunOut(i, r) = {<<r, "stall">>}
           \cup UNION {{<<Written(i, WithoutBits(r, osr, n), n, v), "done">> :
                            v \in Copied(setup.out_right, osr, n)} : osr \in OutOf(r)}
  BY <1>1 DEF RunOut
<1> QED BY <1>2, <1>3 DEF Outcomes

LEMMA MovesMachine ==
    ASSUME NEW i, NEW r \in Machine, NEW v \in Words, setup \in Setups
    PROVE  Moved(i, r, v) \in Machine
<1>1. PICK p \in [Idx -> Bit] : p = SetPins(r.pins, setup.out_base, setup.out_num, v)
  <2>1. setup.out_base \in Int /\ v \in Int
    BY SetupParts DEF Words
  <2> QED BY <2>1, SetPinsBits, MachineParts
<1>2. /\ [r EXCEPT !.pins = p] \in Machine /\ [r EXCEPT !.x = v] \in Machine
      /\ [r EXCEPT !.y = v] \in Machine /\ [r EXCEPT !.isr = v] \in Machine
      /\ [r EXCEPT !.osr = v] \in Machine
  BY MachineParts
<1> QED BY <1>1, <1>2 DEF Moved

LEMMA MovKeeps ==
    ASSUME NEW i, NEW r \in Machine, setup \in Setups
    PROVE  RunMov(i, r) \subseteq Machine \X Outcomes
<1>1. MovFrom(i, r) \subseteq Words
  <2>1. MovFromPins(r.pins) \in Words
    BY MachineParts, MovReadsWord DEF Words
  <2>2. 2 ^ W - 1 \in Words /\ 0 \in Words
    BY PowerPositive, DataAssumption DEF Words
  <2>3. i.source \in RegisterSources => Register(i, r) \in Words
    BY RegisterIsWord
  <2> QED BY <2>1, <2>2, <2>3 DEF MovFrom
<1>2. ASSUME NEW u \in Words PROVE Moved(i, r, Operation(i, u)) \in Machine
  <2>1. 2 ^ W - 1 - u \in Words
    BY PowerPositive, DataAssumption DEF Words
  <2>2. OpBitReverse(u) \in Words
    BY Reverses
  <2>3. Operation(i, u) \in Words
    BY <2>1, <2>2 DEF Operation
  <2> QED BY <2>3, MovesMachine
<1> QED BY <1>1, <1>2 DEF RunMov, Outcomes

LEMMA SetKeeps ==
    ASSUME NEW i, i.index_or_value \in Words, NEW r \in Machine, setup \in Setups
    PROVE  RunSet(i, r) \subseteq Machine \X Outcomes
<1>1. PICK v \in Words : v = i.index_or_value
  OBVIOUS
<1>2. PICK p \in [Idx -> Bit] : p = SetPins(r.pins, setup.set_base, setup.set_num, v)
  <2>1. setup.set_base \in Int /\ v \in Int /\ r.pins \in [Idx -> Bit]
    BY SetupParts, MachineParts DEF Words
  <2> QED BY <2>1, SetPinsBits
<1>3. PICK directed : directed = {[r EXCEPT !.dirs[q] = IF v # 0 THEN 1 ELSE 0] : q \in Idx}
  OBVIOUS
<1>4. directed \subseteq Machine
  <2>1. ASSUME NEW q \in Idx PROVE [r EXCEPT !.dirs[q] = IF v # 0 THEN 1 ELSE 0] \in Machine
    BY DEF Machine, Bit
  <2> QED BY <1>3, <2>1
<1>5. PICK after : after = CASE i.destination = "pins" -> {[r EXCEPT !.pins = p]}
                             [] i.destination = "pindirs" -> {r} \cup directed
                             [] i.destination = "x" -> {[r EXCEPT !.x = v]}
                             [] i.destination = "y" -> {[r EXCEPT !.y = v]}
                             [] OTHER -> {r}
  OBVIOUS
<1>6. after \subseteq Machine
  BY <1>4, <1>5, MachineParts
<1>7. RunSet(i, r) = {<<s, "done">> : s \in after}
  BY <1>1, <1>2, <1>3, <1>5 DEF RunSet
<1> QED BY <1>6, <1>7 DEF Outcomes

LEMMA JmpKeeps ==
    ASSUME NEW i, NEW r \in Machine
    PROVE  RunJmp(i, r) \subseteq Machine \X Outcomes
<1>1. LessOne(r.x) \in Words /\ LessOne(r.y) \in Words
  <2>1. 2 ^ W \in Nat
    BY PowerPositive, DataAssumption
  <2>2. r.x + 2 ^ W - 1 \in Int /\ r.y + 2 ^ W - 1 \in Int
    BY <2>1, MachineParts DEF Words
  <2> QED BY <2>2, Modulo DEF LessOne
<1>2. PICK s \in Machine : s = CASE i.condition = "x_decrement" -> [r EXCEPT !.x = LessOne(@)]
                                 [] i.condition = "y_decrement" -> [r EXCEPT !.y = LessOne(@)]
                                 [] OTHER -> r
  BY <1>1, MachineParts
<1>3. RunJmp(i, r) = {<<s, IF branch THEN "jump" ELSE "done">> : branch \in Branches(i, r)}
  BY <1>2 DEF RunJmp
<1> QED BY <1>3 DEF Outcomes

LEMMA OthersKeep ==
    ASSUME NEW i, NEW r \in Machine, setup \in Setups
    PROVE  /\ RunWait(i, r) \subseteq Machine \X Outcomes
           /\ RunPull(i, r) \subseteq Machine \X Outcomes
           /\ RunPush(i, r) \subseteq Machine \X Outcomes
           /\ RunIrq(i, r) \subseteq Machine \X Outcomes
<1>1. RunWait(i, r) \subseteq Machine \X Outcomes /\ RunIrq(i, r) \subseteq Machine \X Outcomes
  BY DEF RunWait, RunIrq, Outcomes
<1>2. setup.words \subseteq Words
  BY SetupParts
<1>3. PICK copied \in Machine, zeroed \in Machine :
          copied = [r EXCEPT !.osr = r.x] /\ zeroed = [r EXCEPT !.isr = 0]
  BY MachineParts
<1>4. \A v \in setup.words : [r EXCEPT !.osr = v] \in Machine
  BY <1>2, MachineParts
<1>5. RunPull(i, r) \subseteq {<<r, "done">>, <<r, "stall">>, <<copied, "done">>}
                            \cup {<<[r EXCEPT !.osr = v], "done">> : v \in setup.words}
  BY <1>3 DEF RunPull
<1>6. RunPull(i, r) \subseteq Machine \X Outcomes
  BY <1>4, <1>5 DEF Outcomes
<1>7. RunPush(i, r) \subseteq {<<r, "done">>, <<r, "stall">>, <<zeroed, "done">>}
  BY <1>3 DEF RunPush
<1>8. RunPush(i, r) \subseteq Machine \X Outcomes
  BY <1>7 DEF Outcomes
<1> QED BY <1>1, <1>6, <1>8

Types == {"in", "out", "mov", "set", "jmp", "wait", "pull", "push", "irq"}

\* An instruction that a routine can run.
Runnable(i) == /\ i.type \in Types /\ i.side \in Int
               /\ i.type \in {"in", "out"} => i.bit_count \in 0..W
               /\ i.type = "set" => i.index_or_value \in Words

LEMMA InstructionKeeps ==
    ASSUME NEW i, Runnable(i), NEW r \in Machine, setup \in Setups
    PROVE  RunInstruction(i, r) \subseteq Machine \X Outcomes
<1>1. CASE i.type = "in"
  <2>1. RunInstruction(i, r) = RunIn(i, r) /\ i.bit_count \in 0..W
    BY <1>1 DEF RunInstruction, Runnable
  <2> QED BY <2>1, InKeeps
<1>2. CASE i.type = "out"
  <2>1. RunInstruction(i, r) = RunOut(i, r) /\ i.bit_count \in 0..W
    BY <1>2 DEF RunInstruction, Runnable
  <2> QED BY <2>1, OutKeeps
<1>3. CASE i.type = "mov"
  <2>1. RunInstruction(i, r) = RunMov(i, r)
    BY <1>3 DEF RunInstruction
  <2> QED BY <2>1, MovKeeps
<1>4. CASE i.type = "set"
  <2>1. RunInstruction(i, r) = RunSet(i, r) /\ i.index_or_value \in Words
    BY <1>4 DEF RunInstruction, Runnable
  <2> QED BY <2>1, SetKeeps
<1>5. CASE i.type = "jmp"
  <2>1. RunInstruction(i, r) = RunJmp(i, r)
    BY <1>5 DEF RunInstruction
  <2> QED BY <2>1, JmpKeeps
<1>6. CASE i.type \in {"wait", "pull", "push", "irq"}
  <2>1. RunInstruction(i, r) \in {RunWait(i, r), RunPull(i, r), RunPush(i, r), RunIrq(i, r)}
    BY <1>6 DEF RunInstruction
  <2> QED BY <2>1, OthersKeep
<1> QED BY <1>1, <1>2, <1>3, <1>4, <1>5, <1>6 DEF Runnable, Types

LEMMA SideSetKeeps ==
    ASSUME NEW i, i.side \in Int, NEW r \in Machine, setup \in Setups
    PROVE  RunSideSet(i, r) \in Machine
<1>1. PICK v \in Int : v = IF i.side < 0 THEN 0 ELSE i.side
  OBVIOUS
<1>2. setup.side_base \in Int /\ r.pins \in [Idx -> Bit] /\ r.dirs \in [Idx -> Bit]
  BY SetupParts, MachineParts
<1>3. PICK p \in [Idx -> Bit], d \in [Idx -> Bit] :
          /\ p = SetPins(r.pins, setup.side_base, setup.side_num, v)
          /\ d = SetPins(r.dirs, setup.side_base, setup.side_num, v)
  BY <1>2, SetPinsBits
<1>4. PICK s \in Machine, t \in Machine : s = [r EXCEPT !.dirs = d] /\ t = [r EXCEPT !.pins = p]
  BY <1>3, MachineParts
<1>5. RunSideSet(i, r) \in {r, s, t}
  BY <1>1, <1>3, <1>4 DEF RunSideSet
<1> QED BY <1>4, <1>5

-----------------------------------------------------------------------------
(* The invariant.  TypeOK is not inductive: an EXEC runs the fields of the   *)
(* decoded record, so what the registers become rests on the decode, and the *)
(* decode, which only sets the fields of its kind, on the record being whole.*)

IInv == /\ setup \in Setups /\ m \in Machine /\ outcome \in Outcomes
        /\ IsExec(exec_instruction)
        /\ decoded = {} \/ \E i \in setup.execs : decoded = {i}
        /\ DecodedAsEncoded

LEMMA InitIInv == Init => IInv
<1> SUFFICES ASSUME Init PROVE IInv
  OBVIOUS
<1>1. 0 \in Words
  BY PowerPositive, DataAssumption DEF Words
<1>2. m \in Machine
  BY <1>1 DEF Init, Machine, Bit
<1>3. IsExec(exec_instruction)
  BY DEF Init, IsExec, NewExec, ExecFields
<1> QED BY <1>2, <1>3 DEF Init, IInv, Outcomes, DecodedAsEncoded

\* Turns leave the decoded instruction alone.
LEMMA KeptKeeps ==
    ASSUME IInv, m' \in Machine, outcome' \in Outcomes, UNCHANGED <<setup, exec_instruction, decoded>>
    PROVE  IInv'
BY DEF IInv, DecodedAsEncoded

LEMMA TurnKeeps ==
    ASSUME IInv, NEW type \in Types, Turn(type)
    PROVE  IInv'
<1>1. PICK i \in setup.program : i.type = type
                              /\ \E r \in RunInstruction(i, m) :
                                    m' = RunKeypad(RunSideSet(i, r[1])) /\ outcome' = r[2] /\ Kept
  BY DEF Turn
<1>2. Runnable(i)
  <2>1. /\ i.index_or_value \in Words /\ i.side \in Int
        /\ i.type \in {"in", "out"} => i.bit_count \in 1..W
    BY DataAssumption DEF IInv
  <2>2. 1..W \subseteq 0..W
    OBVIOUS
  <2> QED BY <1>1, <2>1, <2>2 DEF Runnable
<1>3. PICK r \in Machine \X Outcomes : m' = RunKeypad(RunSideSet(i, r[1])) /\ outcome' = r[2] /\ Kept
  BY <1>1, <1>2, InstructionKeeps DEF IInv
<1>4. RunSideSet(i, r[1]) \in Machine
  BY <1>2, SideSetKeeps DEF IInv, Runnable
<1>5. m' \in Machine
  BY <1>3, <1>4, KeypadKeeps DEF IInv
<1> QED BY <1>3, <1>5, KeptKeeps DEF Kept

\* A decode gives a record that can be run, and is what was encoded.
LEMMA DecodeKeeps ==
    ASSUME IInv, NEW i \in setup.execs, NEW d,
           d = Decoded(exec_instruction, Encode(i))
    PROVE  IsExec(d) /\ Runnable(d) /\ \A f \in Means(i) \ Departs(i) : d[f] = i[f]
<1>1. Encodable(i)
  BY DataAssumption DEF IInv
<1>2. Decodes(exec_instruction, i)
  BY <1>1, EncodableDecodes DEF IInv
<1>3. /\ IsExec(d) /\ d.side \in {-1, 0} /\ d.type = i.type
      /\ \A f \in Means(i) \ Departs(i) : d[f] = i[f]
      /\ i.type \in {"in", "out"} => d.bit_count = i.bit_count % 32
  BY <1>2 DEF Decodes
<1>4. i.type \in Types
  BY <1>1 DEF Encodable, Types
<1>5. i.type \in {"in", "out"} => d.bit_count \in 0..W
  <2>1. SUFFICES ASSUME i.type \in {"in", "out"} PROVE d.bit_count \in 0..W
    OBVIOUS
  <2>2. i.bit_count \in (1..W) \cup {32} /\ W \in Nat
    BY <2>1, DataAssumption DEF IInv
  <2>3. PICK n \in Nat : n = i.bit_count
    BY <2>2
  <2>4. n % 32 \in 0..W
    <3>1. n % 32 \in Nat /\ n % 32 <= n /\ 32 % 32 = 0
      OBVIOUS
    <3> QED BY <2>2, <2>3, <3>1
  <2> QED BY <1>3, <2>1, <2>3, <2>4
<1>6. i.type = "set" => i.index_or_value \in Words /\ d.index_or_value = i.index_or_value
  <2>1. i.type = "set" => "index_or_value" \in Means(i) \ Departs(i)
    BY DEF Means, Departs
  <2>2. i.index_or_value \in Words
    BY DataAssumption DEF IInv
  <2> QED BY <1>3, <2>1, <2>2
<1> QED BY <1>3, <1>4, <1>5, <1>6 DEF Runnable

LEMMA DecodingKeeps ==
    ASSUME IInv, NEW i \in setup.execs,
           exec_instruction' = Decoded(exec_instruction, Encode(i)), decoded' = {i},
           m' \in Machine, outcome' \in Outcomes, UNCHANGED setup
    PROVE  IInv'
<1>1. PICK d : d = exec_instruction'
  OBVIOUS
<1>2. IsExec(d) /\ \A f \in Means(i) \ Departs(i) : d[f] = i[f]
  BY <1>1, DecodeKeeps
<1>3. DecodedAsEncoded'
  BY <1>1, <1>2 DEF DecodedAsEncoded
<1>4. setup' \in Setups /\ \E j \in setup'.execs : decoded' = {j}
  BY DEF IInv
<1> QED BY <1>1, <1>2, <1>3, <1>4 DEF IInv

LEMMA ExecKeeps ==
    ASSUME IInv, NEW i \in setup.execs, NEW r \in Machine, Exec(i, r)
    PROVE  IInv'
<1>1. PICK d : d = exec_instruction'
  OBVIOUS
<1>2. d = Decoded(exec_instruction, Encode(i)) /\ decoded' = {i} /\ UNCHANGED <<setup, key>>
  BY <1>1 DEF Exec
<1>3. Runnable(d)
  BY <1>2, DecodeKeeps
<1>4. PICK s \in Machine \X Outcomes :
          /\ m' = RunKeypad(RunSideSet(d, s[1]))
          /\ outcome' = IF i.type = "jmp" THEN "jump" ELSE s[2]
  <2>1. RunInstruction(d, r) \subseteq Machine \X Outcomes
    BY <1>3, InstructionKeeps DEF IInv
  <2> QED BY <1>1, <2>1 DEF Exec
<1>5. RunSideSet(d, s[1]) \in Machine
  BY <1>3, SideSetKeeps DEF IInv, Runnable
<1>6. m' \in Machine
  BY <1>4, <1>5, KeypadKeeps DEF IInv
<1>7. outcome' \in Outcomes
  BY <1>4 DEF Outcomes
<1> QED BY <1>1, <1>2, <1>6, <1>7, DecodingKeeps

LEMMA RemainingIsMachine ==
    ASSUME IInv
    PROVE  Remaining \subseteq Machine
<1>1. setup.exec_bits \in 0..W /\ m \in Machine /\ setup \in Setups
  BY SetupParts DEF IInv
<1>2. \A osr \in OutOf(m) : WithoutBits(m, osr, setup.exec_bits) \in Machine
  BY <1>1, RemainsMachine
<1> QED BY <1>2 DEF Remaining

LEMMA IInvInductive ==
    ASSUME IInv, [Next]_vars
    PROVE  IInv'
<1>1. CASE In \/ Out \/ Mov \/ Set \/ Jmp \/ Wait \/ Pull \/ Push \/ Irq
  <2>1. PICK type \in Types : Turn(type)
    BY <1>1 DEF In, Out, Mov, Set, Jmp, Wait, Pull, Push, Irq, Types
  <2> QED BY <2>1, TurnKeeps
<1>2. CASE OutExec
  <2>1. PICK i \in setup.execs, r \in Remaining : Exec(i, r)
    BY <1>2 DEF OutExec
  <2> QED BY <2>1, RemainingIsMachine, ExecKeeps
<1>3. CASE OutExecRefused
  <2>1. PICK i \in setup.execs, r \in Remaining :
            /\ exec_instruction' = Decoded(exec_instruction, Encode(i)) /\ decoded' = {i}
            /\ m' = RunKeypad(r) /\ outcome' = "stall" /\ UNCHANGED <<setup, key>>
    BY <1>3 DEF OutExecRefused
  <2>2. m' \in Machine
    BY <2>1, RemainingIsMachine, KeypadKeeps DEF IInv
  <2> QED BY <2>1, <2>2, DecodingKeeps DEF Outcomes
<1>4. CASE MovExec
  <2>1. PICK i \in setup.execs : Exec(i, m)
    BY <1>4 DEF MovExec
  <2> QED BY <2>1, ExecKeeps DEF IInv
<1>5. CASE DelayTurn
  <2>1. m' \in Machine
    BY <1>5, KeypadKeeps DEF IInv, DelayTurn
  <2> QED BY <1>5, <2>1, KeptKeeps DEF DelayTurn, Kept, IInv
<1>6. CASE UserPin
  <2>1. m' \in Machine
    BY <1>6 DEF UserPin, IInv, Machine
  <2> QED BY <1>6, <2>1, KeptKeeps DEF UserPin, Kept, IInv
<1>7. CASE Press
  BY <1>7, KeptKeeps DEF Press, IInv
<1>8. CASE UNCHANGED vars
  BY <1>8, KeptKeeps DEF vars, IInv
<1> QED BY <1>1, <1>2, <1>3, <1>4, <1>5, <1>6, <1>7, <1>8 DEF Next

LEMMA AlwaysIInv == Spec => []IInv
<1>1. Init => IInv
  BY InitIInv
<1>2. IInv /\ [Next]_vars => IInv'
  BY IInvInductive
<1> QED BY <1>1, <1>2, PTL DEF Spec

\* Whatever is run, in whatever order, the registers stay words and the pins bits
\* (execution.c lines 55 to 165, hardware_set_gpio).
THEOREM WordsStayWords == Spec => []TypeOK
<1>1. IInv => TypeOK
  <2> SUFFICES ASSUME IInv PROVE TypeOK
    OBVIOUS
  <2>1. Cardinality(decoded) <= 1
    <3>1. \A i : Cardinality({i}) = 1
      BY FS_Singleton
    <3>2. Cardinality({}) = 0
      BY FS_EmptySet
    <3>3. decoded = {} \/ \E i : decoded = {i}
      BY DEF IInv
    <3>4. Cardinality(decoded) \in {0, 1}
      BY <3>1, <3>2, <3>3
    <3> QED BY <3>4
  <2>2. setup \in Setups /\ outcome \in {"done", "jump", "stall"}
    BY DEF IInv, Outcomes
  <2>3. {m.isr, m.osr, m.x, m.y} \subseteq Words /\ m.pins \in [Idx -> Bit] /\ m.dirs \in [Idx -> Bit]
    BY MachineParts DEF IInv
  <2> QED BY <2>1, <2>2, <2>3 DEF TypeOK
<1> QED BY <1>1, AlwaysIInv, PTL

\* Whatever earlier EXECs have left in the record, a field that the routines read is
\* what was encoded, for every instruction that has an encoding: a count of 32, the
\* operations of MOV and every IRQ among them, with just the fields Departs lists said
\* to depart (exec_instruction_decode).
THEOREM ExecRunsWhatWasEncoded == Spec => []DecodedAsEncoded
<1>1. IInv => DecodedAsEncoded
  BY DEF IInv
<1> QED BY <1>1, AlwaysIInv, PTL
=============================================================================
