--------------------------- MODULE VegenereProofs ---------------------------
(***************************************************************************)
(* Proofs about Vegenere: for every set of open files, keys, texts and     *)
(* bounds, if the ioctl RESET does not come while a write sleeps.          *)
(***************************************************************************)
EXTENDS Vegenere, TLAPS

(* What a sleeping write is: an open file, a text and an index into it. *)
Writers ==
  /\ writing \in [File -> [text : Seq(Byte), i : Nat]]
  /\ \A f \in File : InWrite(f) => f \in opened /\ writing[f].i < Len(writing[f].text)

(* Without the module there are no files and no data. *)
Unloaded == ~loaded => opened = {} /\ data_size = 0

KeyLen == key_len = Len(key)

OriginOK == origin \in [Positions -> [plain : Byte \cup {Junk}, key_char : Byte \cup {Junk}]]

Base == /\ TypeOK /\ Writers /\ Unloaded /\ KeyLen /\ OriginOK
        /\ WritesInside /\ DataInBuffer

----------------------------------------------------------------------------
(* The cipher. *)

LEMMA OffsetRange ==
  ASSUME NEW c \in Byte \cup {Junk}
  PROVE  /\ find_offset(c) \in -1..61
         /\ c = Junk => find_offset(c) = INVALID
BY DEF find_offset, Byte, Junk, INVALID, ZERO_OFFSET, UPPER_OFFSET, LOWER_OFFSET

LEMMA RemainderRange ==
  ASSUME NEW a \in Int
  PROVE  /\ Remainder(a, ABC_LEN) \in -61..61
         /\ a >= 0 => Remainder(a, ABC_LEN) = a % 62
BY DEF Remainder, ABC_LEN

LEMMA CharAtByte ==
  ASSUME NEW n \in -61..61
  PROVE  CharAt(n) \in Byte
BY DEF CharAt, Byte, LOWER_OFFSET, ZERO_OFFSET

(* A byte is translated to a byte, whatever the shift and the direction, and a byte
   that was never written stays so.                                              *)
LEMMA TranslateByte ==
  ASSUME NEW c \in Byte \cup {Junk}, NEW k \in Int, NEW e \in BOOLEAN
  PROVE  /\ translate_char(c, k, e) \in Byte \cup {Junk}
         /\ translate_char(c, k, e) = Junk => c = Junk
<1>1. CASE find_offset(c) = INVALID
  BY <1>1 DEF translate_char
<1>2. CASE find_offset(c) # INVALID
  <2>1. find_offset(c) + k \in Int /\ find_offset(c) - k \in Int
    BY OffsetRange
  <2>2. translate_char(c, k, e) \in Byte
    BY <1>2, <2>1, RemainderRange, CharAtByte DEF translate_char
  <2> QED
    BY <2>2 DEF Byte, Junk
<1> QED
  BY <1>1, <1>2

(* The reference cipher agrees with the driver's on every character. *)
LEMMA PlaceIsOffset ==
  ASSUME NEW c \in Byte
  PROVE  /\ InAlphabet(c) <=> find_offset(c) # INVALID
         /\ InAlphabet(c) => Place(c) = find_offset(c)
<1> USE DEF Byte, INVALID, ZERO_OFFSET, UPPER_OFFSET, LOWER_OFFSET
<1>1. \A n \in 0..61 : Alphabet[n] = c => find_offset(c) = n
  BY DEF Alphabet, find_offset
<1>2. find_offset(c) # INVALID => find_offset(c) \in 0..61 /\ Alphabet[find_offset(c)] = c
  BY DEF Alphabet, find_offset
<1>3. InAlphabet(c) => Place(c) \in 0..61 /\ Alphabet[Place(c)] = c
  BY DEF InAlphabet, Place
<1>4. InAlphabet(c) => Place(c) = find_offset(c) /\ find_offset(c) \in 0..61
  BY <1>1, <1>3
<1>5. find_offset(c) # INVALID => InAlphabet(c)
  BY <1>2 DEF InAlphabet
<1>6. \A n \in 0..61 : n # INVALID
  OBVIOUS
<1> QED
  BY <1>4, <1>5, <1>6

LEMMA Encrypts ==
  ASSUME NEW c \in Byte, NEW k \in Byte, find_offset(k) # INVALID
  PROVE  translate_char(c, find_offset(k), TRUE) = Reference([plain |-> c, key_char |-> k])
<1> DEFINE n == find_offset(c) + find_offset(k)
<1>1. k # Junk
  BY DEF Byte, Junk
<1>2. CASE find_offset(c) = INVALID
  BY <1>2, <1>1, PlaceIsOffset DEF translate_char, Reference
<1>3. CASE find_offset(c) # INVALID
  <2>1. find_offset(c) \in 0..61 /\ find_offset(k) \in 0..61
    BY <1>3, OffsetRange DEF INVALID
  <2> HIDE DEF n
  <2>6. n \in Nat
    BY <2>1 DEF n
  <2>2. n % 62 \in 0..61 /\ Remainder(n, ABC_LEN) = n % 62
    BY <2>6, RemainderRange
  <2>3. \A m \in 0..61 : CharAt(m) = Alphabet[m]
    BY DEF CharAt, Alphabet, LOWER_OFFSET, ZERO_OFFSET
  <2>4. translate_char(c, find_offset(k), TRUE) = Alphabet[n % 62]
    BY <1>3, <2>2, <2>3 DEF translate_char, n
  <2>5. Place(c) = find_offset(c) /\ Place(k) = find_offset(k) /\ InAlphabet(c)
    BY <1>3, PlaceIsOffset
  <2> QED
    BY <2>4, <2>5, <1>1 DEF Reference, n
<1> QED
  BY <1>2, <1>3

----------------------------------------------------------------------------
(* The buffer and its writers. *)

LEMMA InitBase == Init => Base
<1> SUFFICES ASSUME Init PROVE Base
  OBVIOUS
<1> USE SizeAssumption DEF Init, NotWriting, NoOrigin
<1>4. 0 \in 0..MaxSize /\ 0 \in 0..MaxReads /\ 0 \in 0..Len(<< >>) /\ 0 \in Nat
  OBVIOUS
<1>5. /\ \A f \in File : writing[f].i \in 0..Len(writing[f].text)
      /\ DOMAIN writing = File
  BY <1>4
<1>6. /\ loaded \in BOOLEAN /\ debug_mode \in BOOLEAN /\ stale \in BOOLEAN
      /\ key \in Keys \cup {<< >>} /\ key_len \in Nat
      /\ buffer \in [Positions -> Byte \cup {Junk}]
      /\ opened \in SUBSET File
  BY <1>4
<1>7. /\ room \in 0..MaxSize /\ buffer_size \in 0..MaxSize /\ data_size \in 0..MaxSize
      /\ f_pos \in [File -> 0..MaxSize] /\ private_data \in [File -> 0..MaxSize]
      /\ reads \in 0..MaxReads
  BY <1>4
<1>1. TypeOK
  BY <1>5, <1>6, <1>7 DEF TypeOK
<1>2. Writers /\ Unloaded /\ KeyLen /\ OriginOK
  BY DEF Writers, Unloaded, KeyLen, OriginOK, InWrite
<1>3. WritesInside /\ DataInBuffer
  BY DEF WritesInside, DataInBuffer, InWrite
<1> QED
  BY <1>1, <1>2, <1>3 DEF Base

(* A fresh block is a block. *)
LEMMA FreshBlockOK ==
  ASSUME NEW n \in 0..MaxSize, FreshBlock(n)
  PROVE  /\ buffer' \in [Positions -> Byte \cup {Junk}] /\ room' = n
         /\ OriginOK'
BY DEF FreshBlock, OriginOK, NoOrigin

(* The end of a step of write: Advance. *)
LEMMA AdvanceStep ==
  ASSUME Base, NEW f \in File, NEW text \in Seq(Byte), NEW i \in Nat,
         f \in opened, i <= Len(text), f_pos[f] + Len(text) <= room',
         room' \in 0..MaxSize, room <= room', room > 0,
         opened' = opened, loaded' = loaded,
         Advance(f, text, i)
  PROVE  /\ f_pos' \in [File -> 0..MaxSize] /\ data_size' \in 0..MaxSize
         /\ data_size' <= room'
         /\ Writers' /\ WritesInside'
         /\ \A g \in File : writing'[g].i \in 0..Len(writing'[g].text)
         /\ DOMAIN writing' = File
<1> USE DEF Base
<1>1. f_pos[f] \in 0..MaxSize /\ data_size \in 0..room /\ Len(text) \in Nat
      /\ MaxSize \in Nat /\ room \in Nat /\ room' \in Nat
  BY SizeAssumption DEF TypeOK, DataInBuffer
<1>2. CASE i < Len(text)
  <2>1. writing' = [writing EXCEPT ![f] = [text |-> text, i |-> i]]
        /\ data_size' = data_size /\ f_pos' = f_pos
    BY <1>2 DEF Advance
  <2>2. Writers'
    BY <2>1, <1>2 DEF Writers, InWrite
  <2>3. WritesInside'
    <3>1. ASSUME NEW g \in File, InWrite(g)', g # f PROVE f_pos[g] + Len(writing[g].text) <= room'
      <4>1. InWrite(g) /\ f_pos[g] \in 0..MaxSize /\ Len(writing[g].text) \in Nat
        BY <3>1, <2>1 DEF InWrite, Writers, TypeOK
      <4> QED
        BY <4>1, <1>1 DEF WritesInside
    <3> QED
      BY <3>1, <2>1 DEF WritesInside, Writers
  <2> QED
    BY <2>1, <2>2, <2>3, <1>1, <1>2 DEF TypeOK, Writers
<1>3. CASE ~(i < Len(text))
  <2>1. writing' = [writing EXCEPT ![f] = NotWriting]
        /\ data_size' = Larger(data_size, f_pos[f] + Len(text))
        /\ f_pos' = [f_pos EXCEPT ![f] = f_pos[f] + Len(text)]
    BY <1>3 DEF Advance
  <2>2. Writers'
    BY <2>1 DEF Writers, InWrite, NotWriting
  <2>3. WritesInside'
    <3>1. ASSUME NEW g \in File, InWrite(g)' PROVE f_pos[g] + Len(writing[g].text) <= room'
      <4>1. InWrite(g) /\ f_pos[g] \in 0..MaxSize /\ Len(writing[g].text) \in Nat
        BY <3>1, <2>1 DEF InWrite, Writers, TypeOK
      <4> QED
        BY <4>1, <1>1 DEF WritesInside
    <3>2. ~InWrite(f)'
      BY <2>1 DEF InWrite, Writers
    <3> QED
      BY <3>1, <3>2, <2>1 DEF WritesInside, Writers, TypeOK
  <2>4. f_pos[f] + Len(text) \in 0..MaxSize /\ Larger(data_size, f_pos[f] + Len(text)) \in 0..room'
    BY <1>1 DEF Larger
  <2>5. Len(<< >>) = 0
    OBVIOUS
  <2> QED
    BY <2>1, <2>2, <2>3, <2>4, <2>5, <1>1 DEF TypeOK, NotWriting
<1> QED
  BY <1>2, <1>3

LEMMA WriteBeginStep ==
  ASSUME Base, NEW f \in File, NEW text \in Texts, WriteBegin(f, text)
  PROVE  Base'
<1> USE DEF Base
<1>1. /\ UNCHANGED <<settings, buffer, origin, opened, private_data, stale, reads>>
      /\ f \in opened /\ room > 0 /\ Advance(f, text, 0)
      /\ Grown(f, text) <= MaxSize /\ buffer_size' = Grown(f, text)
      /\ room' = IF Grown(f, text) > buffer_size THEN Grown(f, text) ELSE room
  BY DEF WriteBegin, Idle
<1>2. text \in Seq(Byte) /\ Len(text) \in Nat /\ 0 <= Len(text)
  BY StringAssumption
<1>3. f_pos[f] \in 0..MaxSize /\ room \in 0..MaxSize /\ buffer_size = room /\ MaxSize \in Nat
  BY <1>1, SizeAssumption DEF TypeOK, DataInBuffer
<1>4. Grown(f, text) \in Nat /\ f_pos[f] + Len(text) <= Grown(f, text) /\ room <= Grown(f, text)
  BY <1>2, <1>3 DEF Grown, Larger
<1>5. room' \in 0..MaxSize /\ room <= room' /\ room' = Grown(f, text) /\ 0 \in Nat
  BY <1>1, <1>3, <1>4
<1>6. f_pos[f] + Len(text) <= room'
  BY <1>4, <1>5
<1>7. opened' = opened /\ loaded' = loaded
  BY <1>1 DEF settings
<1>8. /\ f_pos' \in [File -> 0..MaxSize] /\ data_size' \in 0..MaxSize
      /\ data_size' <= room'
      /\ Writers' /\ WritesInside'
      /\ \A g \in File : writing'[g].i \in 0..Len(writing'[g].text)
      /\ DOMAIN writing' = File
  BY <1>1, <1>2, <1>5, <1>6, <1>7, AdvanceStep
<1>9. TypeOK'
  BY <1>1, <1>5, <1>8 DEF TypeOK, settings
<1>10. DataInBuffer' /\ Unloaded' /\ KeyLen' /\ OriginOK'
  <2>1. loaded
    BY <1>1 DEF Unloaded, TypeOK
  <2> QED
    BY <2>1, <1>1, <1>5, <1>8 DEF DataInBuffer, Unloaded, KeyLen, OriginOK, settings
<1> QED
  BY <1>8, <1>9, <1>10

(* A character is stored inside the block. *)
LEMMA StoreStep ==
  ASSUME Base, NEW f \in File, InWrite(f), NEW c \in Byte, NEW o, Store(f, c, o),
         o \in [plain : Byte \cup {Junk}, key_char : Byte \cup {Junk}]
  PROVE  /\ Base'
         /\ f_pos[f] + writing[f].i \in Positions /\ writing[f].i \in Nat
         /\ writing[f].i < Len(writing[f].text)
         /\ f_pos[f] + writing[f].i < room
<1> USE DEF Base
<1> DEFINE text == writing[f].text
           i == writing[f].i
           at == f_pos[f] + i
<1>1. text \in Seq(Byte) /\ i \in Nat /\ i < Len(text) /\ Len(text) \in Nat /\ f \in opened
  BY DEF Writers
<1>2. f_pos[f] \in 0..MaxSize /\ room \in 0..MaxSize /\ MaxSize \in Nat
      /\ f_pos[f] + Len(text) <= room
  BY SizeAssumption DEF TypeOK, WritesInside
<1>3. at \in Positions /\ at < room
  <2>1. \A p, n, k, r, m \in Nat :
          k < n /\ p + n <= r /\ r <= m => p + k \in 0..(m - 1) /\ p + k < r
    OBVIOUS
  <2>2. f_pos[f] \in Nat /\ room \in Nat /\ room <= MaxSize
    BY <1>2
  <2> HIDE DEF text, i
  <2> QED
    BY <1>1, <1>2, <2>1, <2>2 DEF Positions
<1>4. /\ buffer' = [buffer EXCEPT ![at] = c] /\ origin' = [origin EXCEPT ![at] = o]
      /\ Advance(f, text, i + 1)
      /\ UNCHANGED <<settings, buffer_size, room, opened, private_data, stale, reads>>
  BY DEF Store
<1>5. i + 1 \in Nat /\ i + 1 <= Len(text) /\ room' \in 0..MaxSize /\ room <= room' /\ room > 0
      /\ f_pos[f] + Len(text) <= room' /\ opened' = opened /\ loaded' = loaded
  BY <1>1, <1>2, <1>4 DEF settings
<1>6. /\ f_pos' \in [File -> 0..MaxSize] /\ data_size' \in 0..MaxSize
      /\ data_size' <= room'
      /\ Writers' /\ WritesInside'
      /\ \A g \in File : writing'[g].i \in 0..Len(writing'[g].text)
      /\ DOMAIN writing' = File
  <2> HIDE DEF text, i
  <2> QED
    BY <1>1, <1>4, <1>5, AdvanceStep
<1>7. buffer' \in [Positions -> Byte \cup {Junk}] /\ OriginOK'
  BY <1>4 DEF TypeOK, OriginOK
<1>8. TypeOK'
  BY <1>4, <1>6, <1>7 DEF TypeOK, settings
<1>9. DataInBuffer' /\ Unloaded' /\ KeyLen'
  <2>1. loaded
    BY <1>1 DEF Unloaded, TypeOK
  <2>2. buffer_size = room /\ room' = room /\ buffer_size' = buffer_size /\ loaded' = loaded
        /\ key' = key /\ key_len' = key_len
    BY <1>4, <1>5 DEF DataInBuffer, settings
  <2> QED
    BY <2>1, <2>2, <1>6 DEF DataInBuffer, Unloaded, KeyLen
<1> QED
  BY <1>1, <1>3, <1>6, <1>7, <1>8, <1>9

(* What the two ways of storing a character have in common. *)
LEMMA CharStep ==
  ASSUME Base, NEW f \in File, WriteChar(f) \/ WritePlain(f)
  PROVE  \E c \in Byte, o \in [plain : Byte, key_char : Byte \cup {Junk}] :
           InWrite(f) /\ Store(f, c, o) /\ c = Reference(o)
<1> USE DEF Base
<1>1. InWrite(f)
  BY DEF WriteChar, WritePlain
<1>2. writing[f].text \in Seq(Byte) /\ writing[f].i + 1 \in 1..Len(writing[f].text)
  BY <1>1 DEF Writers
<1>6. \A q \in Seq(Byte) : \A n \in 1..Len(q) : q[n] \in Byte
  OBVIOUS
<1>3. NextChar(f) \in Byte
  BY <1>2, <1>6 DEF NextChar
<1>4. CASE WritePlain(f)
  <2>1. Store(f, NextChar(f), [plain |-> NextChar(f), key_char |-> Junk])
    BY <1>4 DEF WritePlain
  <2>2. Reference([plain |-> NextChar(f), key_char |-> Junk]) = NextChar(f)
    BY DEF Reference
  <2> QED
    BY <1>1, <1>3, <2>1, <2>2
<1>5. CASE WriteChar(f)
  <2>1. KeyChar(f) \in Byte
    <3>1. find_offset(KeyChar(f)) # INVALID
      BY <1>5 DEF WriteChar
    <3> QED
      BY <3>1 DEF find_offset, Byte, INVALID
  <2>2. Store(f, translate_char(NextChar(f), find_offset(KeyChar(f)), TRUE),
                 [plain |-> NextChar(f), key_char |-> KeyChar(f)])
        /\ find_offset(KeyChar(f)) # INVALID
    BY <1>5 DEF WriteChar
  <2>3. find_offset(KeyChar(f)) \in Int
    BY <2>1, OffsetRange
  <2>4. translate_char(NextChar(f), find_offset(KeyChar(f)), TRUE) \in Byte
    <3>1. translate_char(NextChar(f), find_offset(KeyChar(f)), TRUE) \in Byte \cup {Junk}
          /\ (translate_char(NextChar(f), find_offset(KeyChar(f)), TRUE) = Junk
                => NextChar(f) = Junk)
      <4> DEFINE k == find_offset(KeyChar(f))
                 c == NextChar(f)
      <4> HIDE DEF k, c
      <4>1. c \in Byte \cup {Junk} /\ k \in Int /\ TRUE \in BOOLEAN
        BY <1>3, <2>3 DEF k, c
      <4>2. translate_char(c, k, TRUE) \in Byte \cup {Junk}
            /\ (translate_char(c, k, TRUE) = Junk => c = Junk)
        BY <4>1, TranslateByte
      <4> QED
        BY <4>2 DEF k, c
    <3>2. NextChar(f) # Junk
      BY <1>3 DEF Byte, Junk
    <3> QED
      BY <3>1, <3>2
  <2>5. translate_char(NextChar(f), find_offset(KeyChar(f)), TRUE)
          = Reference([plain |-> NextChar(f), key_char |-> KeyChar(f)])
    BY <1>3, <2>1, <2>2, Encrypts
  <2> QED
    BY <1>1, <1>3, <2>1, <2>2, <2>4, <2>5
<1> QED
  BY <1>4, <1>5

(* A read translates what was written and leaves alone what was not. *)
LEMMA ReadStep ==
  ASSUME Base, NEW f \in File, NEW count \in Counts, my_read(f, count)
  PROVE  /\ Base'
         /\ \A j \in Positions : buffer'[j] = Junk => buffer[j] = Junk
         /\ \A j \in Positions : origin'[j] # NoOrigin => buffer'[j] = buffer[j]
                                                        /\ origin'[j] = origin[j]
         /\ f_pos'[f] <= data_size
<1> USE DEF Base
<1>1. PICK stop \in Stops, c \in TranslateCalls :
        /\ buffer' = translate_msg(stop, c.key_offset, c.to_encrypt)
        /\ origin' = [j \in Positions |-> IF j < stop THEN NoOrigin ELSE origin[j]]
  BY DEF my_read
<1>2. /\ f_pos' = [f_pos EXCEPT ![f] = f_pos[f] + ReadCount(f, count)]
      /\ reads' = reads + 1 /\ reads < MaxReads /\ f_pos[f] < data_size
      /\ UNCHANGED <<settings, sizes, room, opened, private_data, writing, stale>>
      /\ f \in opened /\ writing[f] = NotWriting /\ room > 0
  BY DEF my_read, CanRead, Idle
<1>3. f_pos[f] \in 0..MaxSize /\ data_size \in 0..MaxSize /\ count \in Nat /\ MaxSize \in Nat
  BY SizeAssumption, ArgumentAssumption DEF TypeOK
<1>4. f_pos[f] + ReadCount(f, count) \in 0..data_size
  BY <1>2, <1>3 DEF ReadCount, Smaller
<1>5. ASSUME NEW j \in Positions
      PROVE  /\ buffer'[j] \in Byte \cup {Junk}
             /\ buffer'[j] = Junk => buffer[j] = Junk
             /\ ~(j < stop) => buffer'[j] = buffer[j]
  <2>1. buffer[j] \in Byte \cup {Junk} /\ c.to_encrypt \in BOOLEAN
    <3>1. buffer \in [Positions -> Byte \cup {Junk}]
      BY DEF TypeOK
    <3>2. c.to_encrypt \in BOOLEAN
      <4>1. CASE c = [key_offset |-> key_len, to_encrypt |-> TRUE]
        BY <4>1, Zenon
      <4>2. CASE c = [key_offset |-> 1, to_encrypt |-> FALSE]
        BY <4>2, Zenon
      <4> QED
        BY <4>1, <4>2, Zenon DEF TranslateCalls
    <3> QED
      BY <3>1, <3>2
  <2>2. Shift(j, c.key_offset) \in Int
    <3>1. key_len \in Nat /\ key # << >> /\ key \in Keys
      BY DEF TypeOK, my_read, CanRead
    <3>2. key \in Seq(Byte \ {NUL}) /\ Len(key) # 0
      BY <3>1, StringAssumption
    <3>3. key_len \in Nat \ {0} /\ c.key_offset \in Int /\ j \in Int
      BY <3>1, <3>2 DEF KeyLen, TranslateCalls, Positions
    <3>4. c.key_offset - 1 + j \in Int
      BY <3>3
    <3>5. (c.key_offset - 1 + j) % key_len \in Int
      BY <3>3, <3>4
    <3> QED
      BY <3>5 DEF Shift
  <2>3. buffer'[j] = IF j < stop THEN translate_char(buffer[j], Shift(j, c.key_offset), c.to_encrypt)
                     ELSE buffer[j]
    BY <1>1 DEF translate_msg
  <2> QED
    BY <2>1, <2>2, <2>3, TranslateByte
<1>6. buffer' \in [Positions -> Byte \cup {Junk}]
  BY <1>1, <1>5 DEF translate_msg
<1>7. OriginOK'
  BY <1>1 DEF OriginOK, NoOrigin
<1>8. reads' \in 0..MaxReads
  BY <1>2, SizeAssumption DEF TypeOK
<1>9. f_pos' \in [File -> 0..MaxSize] /\ f_pos'[f] <= data_size
  BY <1>2, <1>3, <1>4 DEF TypeOK
<1>10. TypeOK'
  BY <1>2, <1>6, <1>8, <1>9 DEF TypeOK, settings, sizes
<1>11. Writers' /\ Unloaded' /\ KeyLen' /\ DataInBuffer'
  BY <1>2 DEF Writers, InWrite, Unloaded, KeyLen, DataInBuffer, settings, sizes
<1>12. WritesInside'
  BY <1>2 DEF WritesInside, InWrite, TypeOK
<1> QED
  BY <1>1, <1>5, <1>7, <1>9, <1>10, <1>11, <1>12

(* The steps that move neither data nor writers. *)
Settling(f) ==
  \/ my_open(f) \/ my_release(f) \/ ReadNothing(f)
  \/ \E new_key \in Keys : SetKey(f, new_key)
  \/ \E on \in BOOLEAN : SetDebug(f, on)
  \/ \E offset \in Offsets : my_llseek(f, offset)

LEMMA SettlingStep ==
  ASSUME Base, NEW f \in File, Settling(f)
  PROVE  /\ Base' /\ UNCHANGED <<sizes, block, writing, stale>>
         /\ \A g \in File : f_pos'[g] = f_pos[g] \/ f_pos'[g] = 0
         /\ \A g \in File : InWrite(g) => f_pos'[g] = f_pos[g]
<1> USE SizeAssumption DEF Base
<1>1. UNCHANGED <<sizes, block, writing, stale>> /\ loaded' = loaded
  BY DEF Settling, my_open, my_release, ReadNothing, SetKey, SetDebug, my_llseek,
         SeekTo, settings, files, history
<1>2. /\ f_pos' \in [File -> 0..MaxSize]
      /\ \A g \in File : f_pos'[g] = f_pos[g] \/ f_pos'[g] = 0
      /\ \A g \in File : InWrite(g) => f_pos'[g] = f_pos[g] /\ g \in opened'
      /\ opened' \in SUBSET File
      /\ (~loaded => opened' = {})
  <2>1. f_pos \in [File -> 0..MaxSize] /\ opened \in SUBSET File /\ 0 \in 0..MaxSize
        /\ (~loaded => opened = {})
        /\ \A g \in File : InWrite(g) => g \in opened
    BY DEF TypeOK, Writers, Unloaded
  <2>2. CASE my_open(f)
    BY <2>1, <2>2 DEF my_open
  <2>3. CASE my_release(f)
    BY <2>1, <2>3 DEF my_release, Idle, InWrite
  <2>4. CASE ~my_open(f) /\ ~my_release(f)
    <3>1. UNCHANGED <<f_pos, opened>>
      BY <2>4 DEF Settling, ReadNothing, SetKey, SetDebug, my_llseek, files
    <3> QED
      BY <2>1, <3>1
  <2> QED
    BY <2>2, <2>3, <2>4
<1>3. key' \in Keys \cup {<< >>} /\ key_len' = Len(key') /\ key_len' \in Nat
      /\ debug_mode' \in BOOLEAN
  <2>1. \A new_key \in Keys : Len(new_key) \in Nat
    BY StringAssumption
  <2>2. CASE \E new_key \in Keys : SetKey(f, new_key)
    BY <2>1, <2>2 DEF SetKey, TypeOK
  <2>3. CASE \E on \in BOOLEAN : SetDebug(f, on)
    BY <2>3 DEF SetDebug, TypeOK, KeyLen
  <2>4. CASE my_open(f) \/ my_release(f) \/ ReadNothing(f) \/ \E offset \in Offsets : my_llseek(f, offset)
    BY <2>4 DEF my_open, my_release, ReadNothing, my_llseek, settings, TypeOK, KeyLen
  <2> QED
    BY <2>2, <2>3, <2>4 DEF Settling
<1>4. private_data' \in [File -> 0..MaxSize]
  <2>1. \A n \in Int : Smaller(Larger(n, 0), data_size) \in 0..MaxSize
    BY DEF Smaller, Larger, TypeOK
  <2>2. CASE \E offset \in Offsets : my_llseek(f, offset)
    <3>1. PICK offset \in Offsets : my_llseek(f, offset)
      BY <2>2
    <3>2. offset \in Int /\ private_data[f] + offset \in Int /\ data_size + offset \in Int
      BY ArgumentAssumption DEF TypeOK
    <3> QED
      BY <2>1, <3>1, <3>2 DEF my_llseek, SeekTo, TypeOK
  <2>3. CASE ~\E offset \in Offsets : my_llseek(f, offset)
    BY <2>3 DEF TypeOK, Settling, my_open, my_release, ReadNothing, SetKey, SetDebug, files
  <2> QED
    BY <2>2, <2>3
<1>5. reads' \in 0..MaxReads
  BY DEF TypeOK, Settling, my_open, my_release, ReadNothing, CanRead, SetKey, SetDebug,
         my_llseek, history
<1>6. TypeOK'
  BY <1>1, <1>2, <1>3, <1>4, <1>5 DEF TypeOK, sizes, block
<1>7. Writers' /\ Unloaded' /\ KeyLen' /\ OriginOK'
  BY <1>1, <1>2, <1>3 DEF Writers, InWrite, Unloaded, KeyLen, OriginOK, sizes, block
<1>8. WritesInside' /\ DataInBuffer'
  BY <1>1, <1>2 DEF WritesInside, InWrite, DataInBuffer, sizes, block
<1> QED
  BY <1>1, <1>2, <1>6, <1>7, <1>8

(* A fault ends a write and moves nothing. *)
LEMMA FailStep ==
  ASSUME Base, NEW f \in File, WriteFail(f)
  PROVE  /\ Base' /\ UNCHANGED <<sizes, block, files, stale>>
         /\ \A g \in File : InWrite(g)' => g # f /\ InWrite(g) /\ writing'[g] = writing[g]
<1> USE DEF Base
<1>1. /\ writing' = [writing EXCEPT ![f] = NotWriting]
      /\ UNCHANGED <<settings, sizes, block, files, stale, reads>>
  BY DEF WriteFail
<1>2. \A g \in File : InWrite(g)' => g # f /\ InWrite(g) /\ writing'[g] = writing[g]
  BY <1>1 DEF InWrite, Writers
<1>3. NotWriting \in [text : Seq(Byte), i : Nat] /\ NotWriting.i \in 0..Len(NotWriting.text)
  BY DEF NotWriting
<1>4. TypeOK'
  BY <1>1, <1>3 DEF TypeOK, settings, sizes, block, files
<1>5. Writers' /\ Unloaded' /\ KeyLen' /\ OriginOK'
  BY <1>1, <1>2, <1>3 DEF Writers, Unloaded, KeyLen, OriginOK, settings, sizes, block, files
<1>6. WritesInside' /\ DataInBuffer'
  BY <1>1, <1>2 DEF WritesInside, DataInBuffer, sizes, block, files
<1> QED
  BY <1>1, <1>2, <1>4, <1>5, <1>6

(* The steps that replace the block; none of them meets a write. *)
Replacing == init_module \/ cleanup_module \/ \E f \in File : Reset(f) \/ ResetNoMemory(f)

LEMMA ReplacingStep ==
  ASSUME Base, "RESET" \notin Disturbs, Replacing
  PROVE  /\ Base' /\ (room' > 0 => data_size' = 0)
         /\ \A f \in File : ~InWrite(f) /\ ~InWrite(f)'
         /\ origin' = [j \in Positions |-> NoOrigin]
<1> USE SizeAssumption DEF Base
<1>1. UNCHANGED <<files, writing, reads>> /\ \A f \in File : ~InWrite(f)
  BY DEF Replacing, init_module, cleanup_module, Reset, ResetNoMemory, MayIssue, Writers,
         Unloaded, history
<1>2. PAGE_SIZE \in 0..MaxSize /\ 0 \in 0..MaxSize
  OBVIOUS
<1>3. \A f \in File : ~InWrite(f)'
  BY <1>1 DEF InWrite
<1>4. PICK n \in {0, PAGE_SIZE} : FreshBlock(n)
  BY DEF Replacing, init_module, cleanup_module, Reset, ResetNoMemory
<1>5. buffer' \in [Positions -> Byte \cup {Junk}] /\ room' = n /\ OriginOK'
  BY <1>2, <1>4, FreshBlockOK
<1>6. /\ loaded' \in BOOLEAN /\ debug_mode' \in BOOLEAN /\ stale' \in BOOLEAN
      /\ key' \in Keys \cup {<< >>} /\ key_len' = Len(key') /\ key_len' \in Nat
  <2>1. /\ loaded' \in BOOLEAN /\ debug_mode' \in BOOLEAN
        /\ UNCHANGED <<key, key_len>> \/ (key' = << >> /\ key_len' = 0)
    BY DEF TypeOK, Replacing, init_module, cleanup_module, Reset, ResetNoMemory, ForgetKey, settings
  <2>2. stale' \in BOOLEAN
    <3>1. stale' = stale \/ \E f \in File : Reset(f)
      BY DEF Replacing, init_module, cleanup_module, ResetNoMemory, history
    <3> QED
      BY <3>1 DEF TypeOK, Reset
  <2> QED
    BY <2>1, <2>2 DEF TypeOK, KeyLen
<1>7. /\ buffer_size' \in 0..MaxSize /\ data_size' \in 0..MaxSize
      /\ (room' > 0 => data_size' = 0 /\ buffer_size' = room')
      /\ (~loaded' => opened' = {} /\ data_size' = 0)
  <2>1. CASE init_module
    BY <2>1, <1>2 DEF init_module, FreshBlock, TypeOK, Unloaded
  <2>2. CASE cleanup_module
    BY <2>2, <1>2 DEF cleanup_module, FreshBlock, files
  <2>3. CASE \E f \in File : Reset(f)
    BY <2>3, <1>2 DEF Reset, MayIssue, Idle, FreshBlock, ForgetData, Unloaded
  <2>4. CASE \E f \in File : ResetNoMemory(f)
    BY <2>4, <1>2 DEF ResetNoMemory, MayIssue, Idle, FreshBlock, TypeOK, Unloaded, settings
  <2> QED
    BY <2>1, <2>2, <2>3, <2>4 DEF Replacing
<1>8. TypeOK'
  BY <1>1, <1>2, <1>5, <1>6, <1>7 DEF TypeOK, files
<1>9. Writers' /\ Unloaded' /\ KeyLen'
  BY <1>1, <1>3, <1>6, <1>7 DEF Writers, Unloaded, KeyLen
<1>10. WritesInside' /\ DataInBuffer'
  <2>1. data_size' = 0 => data_size' <= room'
    BY <1>2, <1>5
  <2> QED
    BY <2>1, <1>3, <1>7 DEF WritesInside, DataInBuffer
<1> QED
  BY <1>1, <1>3, <1>4, <1>5, <1>7, <1>8, <1>9, <1>10 DEF FreshBlock

LEMMA Steps ==
  ASSUME [Next]_vars
  PROVE  \/ Replacing \/ UNCHANGED vars
         \/ \E f \in File : \/ Settling(f) \/ WriteFail(f)
                            \/ \E count \in Counts : my_read(f, count)
                            \/ \E text \in Texts : WriteBegin(f, text)
                            \/ WriteChar(f) \/ WritePlain(f)
BY DEF Next, Call, Replacing, Settling

LEMMA StutterStep ==
  ASSUME Base, UNCHANGED vars
  PROVE  Base'
BY DEF Base, TypeOK, Writers, Unloaded, KeyLen, OriginOK, WritesInside, DataInBuffer, InWrite,
       vars, settings, sizes, block, files, history

LEMMA BaseStep ==
  ASSUME Base, "RESET" \notin Disturbs, [Next]_vars
  PROVE  Base'
<1>1. ASSUME NEW f \in File, WriteChar(f) \/ WritePlain(f) PROVE Base'
  <2>1. PICK c \in Byte, o \in [plain : Byte, key_char : Byte \cup {Junk}] :
          InWrite(f) /\ Store(f, c, o)
    BY <1>1, CharStep
  <2>2. o \in [plain : Byte \cup {Junk}, key_char : Byte \cup {Junk}]
    OBVIOUS
  <2> QED
    BY <2>1, <2>2, StoreStep
<1> QED
  BY <1>1, Steps, StutterStep, ReplacingStep, SettlingStep, FailStep, ReadStep, WriteBeginStep

LEMMA AlwaysBase ==
  ASSUME "RESET" \notin Disturbs
  PROVE  Spec => []Base
<1>1. Base /\ [Next]_vars => Base'
  BY BaseStep
<1> QED
  BY <1>1, InitBase, PTL DEF Spec

(* Types, for every set of files, keys, texts, offsets and sizes. *)
THEOREM TypeCorrect ==
  ASSUME "RESET" \notin Disturbs
  PROVE  Spec => []TypeOK
<1>1. Base => TypeOK
  BY DEF Base
<1> QED
  BY <1>1, AlwaysBase, PTL

(* No write ever stores outside the block, however many sleep in it while others
   grow it: the size my_write compared with once is still enough at the end.    *)
THEOREM WritesStayInside ==
  ASSUME "RESET" \notin Disturbs
  PROVE  Spec => []WritesInside
<1>1. Base => WritesInside
  BY DEF Base
<1> QED
  BY <1>1, AlwaysBase, PTL

(* And what counts as data lies in the block. *)
THEOREM DataStaysInside ==
  ASSUME "RESET" \notin Disturbs
  PROVE  Spec => []DataInBuffer
<1>1. Base => DataInBuffer
  BY DEF Base
<1> QED
  BY <1>1, AlwaysBase, PTL

(* A key is there as long as somebody writes. *)
Keyed == \A f \in File : InWrite(f) => key # << >>

LEMMA KeyedStep ==
  ASSUME Base, Keyed, "RESET" \notin Disturbs, [Next]_vars
  PROVE  Keyed'
<1>1. ASSUME NEW f \in File, WriteChar(f) \/ WritePlain(f) PROVE Keyed'
  <2>1. UNCHANGED key /\ InWrite(f) /\ \A g \in File \ {f} : writing'[g] = writing[g]
    BY <1>1 DEF WriteChar, WritePlain, Store, Advance, settings, Base, Writers
  <2> QED
    BY <2>1 DEF Keyed, InWrite
<1>2. ASSUME NEW f \in File, NEW text \in Texts, WriteBegin(f, text) PROVE Keyed'
  BY <1>2 DEF WriteBegin, Keyed, settings
<1>3. ASSUME NEW f \in File, NEW count \in Counts, my_read(f, count) PROVE Keyed'
  BY <1>3 DEF my_read, Keyed, InWrite, settings
<1>4. ASSUME NEW f \in File, WriteFail(f) PROVE Keyed'
  <2>1. UNCHANGED key
    BY <1>4 DEF WriteFail, settings
  <2> QED
    BY <1>4, <2>1, FailStep DEF Keyed
<1>5. ASSUME NEW f \in File, Settling(f) PROVE Keyed'
  <2>1. \A new_key \in Keys : new_key # << >>
    BY StringAssumption
  <2>2. key' = key \/ key' \in Keys
    BY <1>5 DEF Settling, my_open, my_release, ReadNothing, SetKey, SetDebug, my_llseek, settings
  <2>3. UNCHANGED writing
    BY <1>5, SettlingStep
  <2> QED
    BY <2>1, <2>2, <2>3 DEF Keyed, InWrite
<1>6. ASSUME Replacing PROVE Keyed'
  BY <1>6, ReplacingStep DEF Keyed
<1>7. CASE UNCHANGED vars
  BY <1>7 DEF Keyed, InWrite, vars, settings
<1> QED
  BY <1>1, <1>2, <1>3, <1>4, <1>5, <1>6, <1>7, Steps

(* The remainders of my_write and my_read by key_len are by a positive number,
   whatever keys are set between and inside writes.                             *)
THEOREM KeyLengthMatches ==
  ASSUME "RESET" \notin Disturbs
  PROVE  Spec => []KeyMatches
<1>1. Base /\ Keyed /\ [Next]_vars => Base' /\ Keyed'
  BY BaseStep, KeyedStep
<1>2. Init => Keyed
  BY DEF Init, Keyed, InWrite
<1>3. Base /\ Keyed => KeyMatches
  <2> SUFFICES ASSUME Base, Keyed PROVE KeyMatches
    OBVIOUS
  <2>1. key_len = Len(key) /\ key \in Keys \cup {<< >>}
    BY DEF Base, KeyLen, TypeOK
  <2>2. key # << >> => Len(key) \in Nat /\ Len(key) # 0
    <3>1. \A q \in Keys : q \in Seq(Byte \ {NUL}) /\ q # << >>
      BY StringAssumption
    <3>2. \A q \in Seq(Byte \ {NUL}) : q # << >> => Len(q) \in Nat /\ Len(q) # 0
      OBVIOUS
    <3> QED
      BY <2>1, <3>1, <3>2
  <2> QED
    BY <2>1, <2>2 DEF KeyMatches, Keyed
<1> QED
  BY <1>1, <1>2, <1>3, InitBase, PTL DEF Spec

----------------------------------------------------------------------------
(* No hole in the data. *)

(* Nobody stands past the data, and a file that is not open stands at the start. *)
Standing == /\ ~stale => \A f \in File : f_pos[f] <= data_size
            /\ \A f \in File \ opened : f_pos[f] = 0

(* What a write has stored so far is there. *)
Stored ==
  \A f \in File : InWrite(f) =>
    \A j \in Positions : f_pos[f] <= j /\ j < f_pos[f] + writing[f].i => buffer[j] # Junk

Filled == Standing /\ Stored /\ NoHole

(* The end of a step of write, once more. *)
LEMMA AdvanceFills ==
  ASSUME Base, Filled, NEW f \in File, NEW text \in Seq(Byte), NEW i \in Nat,
         f \in opened, i <= Len(text), f_pos[f] + Len(text) <= MaxSize, room > 0,
         opened' = opened, stale' = stale, Advance(f, text, i),
         \A j \in Positions : buffer'[j] = Junk => buffer[j] = Junk,
         \A j \in Positions : f_pos[f] <= j /\ j < f_pos[f] + i => buffer'[j] # Junk
  PROVE  Filled'
<1> USE DEF Filled
<1>1. f_pos \in [File -> 0..MaxSize] /\ data_size \in 0..MaxSize /\ MaxSize \in Nat
      /\ Len(text) \in Nat /\ writing \in [File -> [text : Seq(Byte), i : Nat]]
  BY SizeAssumption DEF Base, TypeOK, Writers
<1>2. CASE i < Len(text)
  <2>1. writing' = [writing EXCEPT ![f] = [text |-> text, i |-> i]]
        /\ data_size' = data_size /\ f_pos' = f_pos
    BY <1>2 DEF Advance
  <2>2. Standing'
    BY <2>1 DEF Standing
  <2>3. Stored'
    BY <2>1, <1>1 DEF Stored, InWrite
  <2>4. NoHole'
    <3>1. \A j \in 0..(data_size - 1) : j \in Positions
      BY <1>1 DEF Positions
    <3> QED
      BY <2>1, <3>1 DEF NoHole
  <2> QED
    BY <2>2, <2>3, <2>4
<1>3. CASE ~(i < Len(text))
  <2>1. writing' = [writing EXCEPT ![f] = NotWriting]
        /\ data_size' = Larger(data_size, f_pos[f] + Len(text))
        /\ f_pos' = [f_pos EXCEPT ![f] = f_pos[f] + Len(text)]
    BY <1>3 DEF Advance
  <2>2. data_size <= data_size' /\ f_pos[f] + Len(text) <= data_size' /\ data_size' \in Nat
        /\ (data_size' = data_size \/ data_size' = f_pos[f] + Len(text)) /\ i = Len(text)
    BY <1>1, <1>3, <2>1 DEF Larger
  <2>3. Standing'
    BY <1>1, <2>1, <2>2 DEF Standing
  <2>4. \A g \in File : InWrite(g)' => g # f /\ InWrite(g) /\ writing'[g] = writing[g]
                                       /\ f_pos'[g] = f_pos[g]
    BY <1>1, <2>1 DEF InWrite
  <2>5. Stored'
    BY <2>4 DEF Stored
  <2>6. ASSUME ~stale, NEW j \in 0..(data_size' - 1) PROVE buffer'[j] # Junk
    <3>5. \A n \in Nat : \A k \in 0..(n - 1) : k < n /\ k \in Nat
      OBVIOUS
    <3>7. data_size' \in Nat
      BY <2>2
    <3>8. j \in Nat
      BY <3>5, <3>7, Zenon
    <3>4. f_pos[f] \in Nat /\ data_size \in Nat /\ j \in Nat /\ i \in Nat
      BY <1>1, <3>8
    <3>6. j < data_size' /\ data_size' <= MaxSize
      <4>1. j < data_size'
        BY <3>5, <3>7, Zenon
      <4>2. data_size' <= MaxSize
        BY <1>1, <2>2
      <4> QED
        BY <4>1, <4>2
    <3>1. j \in Positions
      BY <1>1, <2>2, <3>4, <3>6 DEF Positions
    <3>2. CASE j < data_size
      BY <1>1, <2>6, <3>1, <3>2 DEF NoHole
    <3>3. CASE ~(j < data_size)
      <4>1. f_pos[f] <= data_size
        BY <2>6 DEF Standing
      <4>2. f_pos[f] <= j /\ j < f_pos[f] + i
        BY <2>2, <3>3, <3>4, <3>6, <4>1
      <4> QED
        BY <3>1, <4>2
    <3> QED
      BY <3>2, <3>3
  <2>7. NoHole'
    BY <2>6 DEF NoHole
  <2> QED
    BY <2>3, <2>5, <2>7
<1> QED
  BY <1>2, <1>3

LEMMA FilledStep ==
  ASSUME Base, Filled, "RESET" \notin Disturbs, [Next]_vars
  PROVE  Filled'
<1> USE DEF Filled
<1>0. /\ f_pos \in [File -> 0..MaxSize] /\ data_size \in 0..MaxSize /\ MaxSize \in Nat
      /\ \A j \in 0..(data_size - 1) : j \in Positions
  BY SizeAssumption DEF Base, TypeOK, Positions
<1>1. ASSUME NEW f \in File, WriteChar(f) \/ WritePlain(f) PROVE Filled'
  <2>1. PICK c \in Byte, o \in [plain : Byte, key_char : Byte \cup {Junk}] :
          InWrite(f) /\ Store(f, c, o)
    BY <1>1, CharStep
  <2>2. o \in [plain : Byte \cup {Junk}, key_char : Byte \cup {Junk}]
    OBVIOUS
  <2> DEFINE text == writing[f].text
             i == writing[f].i
             at == f_pos[f] + i
  <2>3. at \in Positions /\ i \in Nat /\ i < Len(text) /\ at < room
    BY <2>1, <2>2, StoreStep
  <2>4. /\ buffer' = [buffer EXCEPT ![at] = c]
        /\ Advance(f, text, i + 1)
        /\ opened' = opened /\ stale' = stale
    BY <2>1 DEF Store
  <2>5. text \in Seq(Byte) /\ f \in opened /\ f_pos[f] + Len(text) <= room /\ room \in 0..MaxSize
        /\ buffer \in [Positions -> Byte \cup {Junk}] /\ Len(text) \in Nat
    BY <2>1 DEF Base, TypeOK, Writers, WritesInside
  <2>6. i + 1 \in Nat /\ i + 1 <= Len(text) /\ f_pos[f] + Len(text) <= MaxSize /\ room > 0
    BY <1>0, <2>3, <2>5
  <2>7. c # Junk
    BY DEF Byte, Junk
  <2>8. \A j \in Positions : buffer'[j] = Junk => buffer[j] = Junk
    BY <2>4, <2>5, <2>7
  <2>9. ASSUME NEW j \in Positions, f_pos[f] <= j, j < f_pos[f] + (i + 1) PROVE buffer'[j] # Junk
    <3>1. CASE j = at
      BY <2>4, <2>5, <2>7, <3>1
    <3>2. CASE j # at
      <4>1. j < f_pos[f] + i
        BY <1>0, <2>3, <2>9, <3>2 DEF Positions
      <4> QED
        BY <2>1, <2>8, <2>9, <4>1 DEF Stored
    <3> QED
      BY <3>1, <3>2
  <2> HIDE DEF text, i
  <2> QED
    BY <2>4, <2>5, <2>6, <2>8, <2>9, AdvanceFills
<1>2. ASSUME NEW f \in File, NEW text \in Texts, WriteBegin(f, text) PROVE Filled'
  <2>1. text \in Seq(Byte) /\ Len(text) \in Nat /\ 0 <= Len(text) /\ 0 \in Nat
    BY StringAssumption
  <2>2. /\ Advance(f, text, 0) /\ f \in opened /\ room > 0 /\ Grown(f, text) <= MaxSize
        /\ buffer' = buffer /\ opened' = opened /\ stale' = stale
    BY <1>2 DEF WriteBegin, Idle
  <2>3. buffer_size \in 0..MaxSize
    BY DEF Base, TypeOK
  <2>4. f_pos[f] + Len(text) <= MaxSize
    BY <1>0, <2>1, <2>2, <2>3 DEF Grown, Larger
  <2>5. \A j \in Positions : f_pos[f] <= j /\ j < f_pos[f] + 0 => buffer'[j] # Junk
    BY <1>0 DEF Positions
  <2> QED
    BY <2>1, <2>2, <2>4, <2>5, AdvanceFills
<1>3. ASSUME NEW f \in File, NEW count \in Counts, my_read(f, count) PROVE Filled'
  <2>1. /\ \A j \in Positions : buffer'[j] = Junk => buffer[j] = Junk
        /\ f_pos'[f] <= data_size
    BY <1>3, ReadStep
  <2>2. /\ f_pos' = [f_pos EXCEPT ![f] = f_pos[f] + ReadCount(f, count)]
        /\ UNCHANGED <<data_size, room, opened, writing, stale>>
        /\ f \in opened /\ ~InWrite(f)
    BY <1>3 DEF my_read, CanRead, Idle, InWrite, sizes
  <2>3. Standing'
    BY <1>0, <2>1, <2>2 DEF Standing
  <2>4. Stored'
    BY <1>0, <2>1, <2>2 DEF Stored, InWrite
  <2>5. NoHole'
    BY <1>0, <2>1, <2>2 DEF NoHole
  <2> QED
    BY <2>3, <2>4, <2>5
<1>4. ASSUME NEW f \in File, WriteFail(f) PROVE Filled'
  <2>1. /\ UNCHANGED <<data_size, room, opened, f_pos, buffer, stale>>
        /\ \A g \in File : InWrite(g)' => InWrite(g) /\ writing'[g] = writing[g]
    BY <1>4, FailStep DEF sizes, block, files
  <2> QED
    BY <2>1 DEF Standing, Stored, NoHole
<1>5. ASSUME NEW f \in File, Settling(f) PROVE Filled'
  <2>1. /\ UNCHANGED <<data_size, room, buffer, stale, writing>>
        /\ \A g \in File : f_pos'[g] = f_pos[g] \/ f_pos'[g] = 0
        /\ \A g \in File : InWrite(g) => f_pos'[g] = f_pos[g]
    BY <1>5, SettlingStep DEF sizes, block
  <2>2. \A g \in File \ opened' : f_pos'[g] = 0
    <3>1. CASE my_open(f) \/ my_release(f)
      BY <1>0, <3>1 DEF my_open, my_release, Standing
    <3>2. CASE ~(my_open(f) \/ my_release(f))
      <4>1. UNCHANGED <<opened, f_pos>>
        BY <1>5, <3>2 DEF Settling, ReadNothing, SetKey, SetDebug, my_llseek, files
      <4> QED
        BY <4>1 DEF Standing
    <3> QED
      BY <3>1, <3>2
  <2>3. Standing'
    BY <1>0, <2>1, <2>2 DEF Standing
  <2>4. Stored' /\ NoHole'
    BY <2>1 DEF Stored, InWrite, NoHole
  <2> QED
    BY <2>3, <2>4
<1>6. ASSUME Replacing PROVE Filled'
  <2>1. (room' > 0 => data_size' = 0) /\ \A f \in File : ~InWrite(f)'
    BY <1>6, ReplacingStep
  <2>2. Stored' /\ NoHole'
    BY <2>1 DEF Stored, NoHole
  <2>3. UNCHANGED <<f_pos, opened>>
    BY <1>6 DEF Replacing, init_module, cleanup_module, Reset, ResetNoMemory, files
  <2>4. ASSUME ~stale' PROVE \A f \in File : f_pos[f] <= data_size'
    <3>1. CASE init_module \/ \E f \in File : ResetNoMemory(f)
      BY <2>4, <3>1 DEF init_module, ResetNoMemory, history, Standing
    <3>2. CASE cleanup_module
      BY <3>2 DEF cleanup_module, Standing
    <3>3. CASE \E f \in File : Reset(f)
      <4>1. data_size' = 0 /\ ~stale /\ \A f \in opened : ~(f_pos[f] > 0)
        BY <2>4, <3>3 DEF Reset, ForgetData
      <4>2. \A f \in File : f_pos[f] \in 0..MaxSize
        BY <1>0
      <4> QED
        BY <1>0, <4>1, <4>2 DEF Standing
    <3> QED
      BY <1>6, <3>1, <3>2, <3>3 DEF Replacing
  <2> QED
    BY <2>2, <2>3, <2>4 DEF Standing
<1>7. CASE UNCHANGED vars
  BY <1>7 DEF Standing, Stored, NoHole, InWrite, vars, settings, sizes, block, files, history
<1> QED
  BY <1>1, <1>2, <1>3, <1>4, <1>5, <1>6, <1>7, Steps

(* Every byte that counts as data was written, with any number of openers whose
   reads, partial writes and writes of several lengths overlap.                *)
THEOREM DataWithoutHole ==
  ASSUME "RESET" \notin Disturbs
  PROVE  Spec => []NoHole
<1>1. Base /\ Filled /\ [Next]_vars => Base' /\ Filled'
  BY BaseStep, FilledStep
<1>2. Init => Filled
  BY DEF Init, Filled, Standing, Stored, NoHole, InWrite
<1>3. Filled => NoHole
  BY DEF Filled
<1> QED
  BY <1>1, <1>2, <1>3, InitBase, PTL DEF Spec

----------------------------------------------------------------------------
(* What is stored is what the reference cipher gives. *)

LEMMA CipherStep ==
  ASSUME Base, StoredUnderItsKey, "RESET" \notin Disturbs, [Next]_vars
  PROVE  StoredUnderItsKey'
<1>1. ASSUME NEW f \in File, WriteChar(f) \/ WritePlain(f) PROVE StoredUnderItsKey'
  <2>1. PICK c \in Byte, o \in [plain : Byte, key_char : Byte \cup {Junk}] :
          InWrite(f) /\ Store(f, c, o) /\ c = Reference(o)
    BY <1>1, CharStep
  <2> DEFINE at == f_pos[f] + writing[f].i
  <2>2. buffer' = [buffer EXCEPT ![at] = c] /\ origin' = [origin EXCEPT ![at] = o]
    BY <2>1 DEF Store
  <2>3. buffer \in [Positions -> Byte \cup {Junk}] /\ DOMAIN origin = Positions
    BY DEF Base, TypeOK, OriginOK
  <2> HIDE DEF at
  <2>4. ASSUME NEW j \in Positions, origin'[j] # NoOrigin PROVE buffer'[j] = Reference(origin'[j])
    <3>1. CASE j = at
      BY <2>1, <2>2, <2>3, <3>1
    <3>2. CASE j # at
      BY <2>2, <2>3, <2>4, <3>2 DEF StoredUnderItsKey
    <3> QED
      BY <3>1, <3>2
  <2> QED
    BY <2>4 DEF StoredUnderItsKey, Reference
<1>2. ASSUME NEW f \in File, NEW count \in Counts, my_read(f, count) PROVE StoredUnderItsKey'
  <2>1. \A j \in Positions : origin'[j] # NoOrigin => buffer'[j] = buffer[j]
                                                       /\ origin'[j] = origin[j]
    BY <1>2, ReadStep
  <2> QED
    BY <2>1 DEF StoredUnderItsKey
<1>3. ASSUME \/ \E f \in File : \E text \in Texts : WriteBegin(f, text)
             \/ \E f \in File : Settling(f) \/ WriteFail(f)
             \/ UNCHANGED vars
      PROVE  StoredUnderItsKey'
  <2>1. UNCHANGED <<buffer, origin>>
    BY <1>3, SettlingStep, FailStep DEF WriteBegin, block, vars
  <2> QED
    BY <2>1 DEF StoredUnderItsKey
<1>4. ASSUME Replacing PROVE StoredUnderItsKey'
  <2>1. origin' = [j \in Positions |-> NoOrigin]
    BY <1>4, ReplacingStep
  <2> QED
    BY <2>1 DEF StoredUnderItsKey
<1> QED
  BY <1>1, <1>2, <1>3, <1>4, Steps

(* Until a read rewrites it, every byte is the reference encryption of the character
   its last writer gave, for every key and text of any length, whatever ioctls came
   between the characters.                                                        *)
THEOREM EncryptsUnderItsKey ==
  ASSUME "RESET" \notin Disturbs
  PROVE  Spec => []StoredUnderItsKey
<1>1. Base /\ StoredUnderItsKey /\ [Next]_vars => Base' /\ StoredUnderItsKey'
  BY BaseStep, CipherStep
<1>2. Init => StoredUnderItsKey
  BY DEF Init, StoredUnderItsKey
<1> QED
  BY <1>1, <1>2, InitBase, PTL DEF Spec
=============================================================================
