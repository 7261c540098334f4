------------------------------ MODULE Vegenere ------------------------------
(***************************************************************************)
(* The character device of HW_3: one buffer, one key and one debug flag    *)
(* that all openers share, and a position in each open file.               *)
(*                                                                         *)
(* The locks of the source are commented out, so a handler is interrupted  *)
(* wherever it may sleep.  Write sleeps in get_user, once a character, and *)
(* is cut there; kmalloc and krealloc are taken to find memory at once or  *)
(* to fail.                                                                *)
(***************************************************************************)
EXTENDS Integers, Sequences

CONSTANTS
  File,       \* open files, each used by one thread
  PAGE_SIZE,  \* size of a fresh buffer
  Keys,       \* the strings SET_KEY may be given; by an empty one my_write would divide
  Texts,      \* the strings write may be given
  Counts,     \* the counts read may be given
  Offsets,    \* the offsets llseek may be given
  MaxSize,    \* bound: size of the buffer
  MaxReads,   \* bound: reads in one behaviour
  Disturbs    \* the ioctls that may come while some write sleeps

Byte == 0..255
NUL == 0
Junk == 256     \* a byte not written since its block was allocated

ASSUME SizeAssumption == /\ PAGE_SIZE \in Nat \ {0}
                         /\ MaxSize \in Nat /\ PAGE_SIZE <= MaxSize
                         /\ MaxReads \in Nat
ASSUME StringAssumption == /\ Keys \subseteq Seq(Byte \ {NUL}) \ {<< >>}
                           /\ Texts \subseteq Seq(Byte)
ASSUME ArgumentAssumption == Counts \subseteq Nat /\ Offsets \subseteq Int

VARIABLES
  loaded,       \* the module is inserted
  key,          \* << >> is NULL
  key_len,
  buffer,       \* the bytes of the block `buffer' points to
  room,         \* the size of that block; 0 when buffer is NULL
  buffer_size,
  data_size,
  debug_mode,
  opened,       \* the files that are open
  f_pos,        \* filp->f_pos
  private_data, \* the position my_llseek keeps
  writing,      \* the write a file is in: `buf' and the loop's i
  origin,       \* history: the character and the key character behind each byte
  stale,        \* history: a RESET came while a file stood past the start
  reads         \* how many reads there were

settings == <<loaded, key, key_len, debug_mode>>
sizes == <<buffer_size, data_size>>
block == <<buffer, room, origin>>
files == <<opened, f_pos, private_data>>
history == <<stale, reads>>
vars == <<settings, sizes, block, files, writing, history>>

Positions == 0..(MaxSize - 1)
NotWriting == [text |-> << >>, i |-> 0]
NoOrigin == [plain |-> Junk, key_char |-> Junk]

----------------------------------------------------------------------------
(* The cipher. *)

UPPER_OFFSET == 0
LOWER_OFFSET == 26
ZERO_OFFSET == 52
ABC_LEN == 62
INVALID == -1

find_offset(c) ==
  CASE c \in 48..57  -> c - 48 + ZERO_OFFSET
    [] c \in 65..90  -> c - 65 + UPPER_OFFSET
    [] c \in 97..122 -> c - 97 + LOWER_OFFSET
    [] OTHER         -> INVALID

(* The operator % of C, whose result has the sign of the dividend. *)
Remainder(a, n) == IF a >= 0 THEN a % n ELSE -((-a) % n)

(* CharAtPastUpper has the first comparison off by one. *)
CharAtPastUpper(offset) ==
  CASE offset <= LOWER_OFFSET                  -> 65 + offset
    [] offset \in LOWER_OFFSET+1..ZERO_OFFSET-1 -> 97 + offset - LOWER_OFFSET
    [] offset >= ZERO_OFFSET                   -> 48 + offset - ZERO_OFFSET

CharAt(offset) ==
  CASE offset < LOWER_OFFSET                   -> 65 + offset
    [] offset \in LOWER_OFFSET..ZERO_OFFSET-1  -> 97 + offset - LOWER_OFFSET
    [] offset >= ZERO_OFFSET                   -> 48 + offset - ZERO_OFFSET

translate_char(c, key_offset, to_encrypt) ==
  LET old == find_offset(c)
      new == IF to_encrypt THEN old + key_offset ELSE old - key_offset
  IN IF old = INVALID THEN c ELSE CharAt(Remainder(new, ABC_LEN))

(* The shift translate_msg applies at index j. *)
Shift(j, key_offset) == ((key_offset - 1 + j) % key_len) + 1

(* Where the walk of translate_msg may stop: at the first NUL, and a byte
   never written may be one.  Nothing terminates the buffer, so the walk may
   leave the block; what it then does to other memory is left out.           *)
Stops == {j \in 0..room : /\ j < room => buffer[j] \in {NUL, Junk}
                          /\ \A i \in 0..(j - 1) : buffer[i] # NUL}

translate_msg(stop, key_offset, to_encrypt) ==
  [j \in Positions |-> IF j < stop
                       THEN translate_char(buffer[j], Shift(j, key_offset), to_encrypt)
                       ELSE buffer[j]]

----------------------------------------------------------------------------
(* Insertion and removal of the module, open and release. *)

FreshBlock(n) == /\ buffer' = [j \in Positions |-> Junk]
                 /\ origin' = [j \in Positions |-> NoOrigin]
                 /\ room' = n

init_module ==
  /\ ~loaded
  /\ loaded' = TRUE
  /\ buffer_size' = PAGE_SIZE
  /\ FreshBlock(PAGE_SIZE)
  /\ UNCHANGED <<key, key_len, data_size, debug_mode, files, writing, history>>

(* The next insmod finds the globals as the source initialises them.  my_fops
   names no owner: that no file is open is up to who removes the module.      *)
cleanup_module ==
  /\ loaded /\ opened = {}
  /\ loaded' = FALSE
  /\ key' = << >> /\ key_len' = 0
  /\ buffer_size' = 0 /\ data_size' = 0 /\ debug_mode' = FALSE
  /\ FreshBlock(0)
  /\ UNCHANGED <<files, writing, history>>

my_open(f) ==
  /\ loaded /\ f \notin opened
  /\ opened' = opened \cup {f}
  /\ f_pos' = [f_pos EXCEPT ![f] = 0]
  /\ private_data' = [private_data EXCEPT ![f] = 0]
  /\ UNCHANGED <<settings, sizes, block, writing, history>>

Idle(f) == f \in opened /\ writing[f] = NotWriting

my_release(f) ==
  /\ Idle(f)
  /\ opened' = opened \ {f}
  /\ f_pos' = [f_pos EXCEPT ![f] = 0]
  /\ private_data' = [private_data EXCEPT ![f] = 0]
  /\ UNCHANGED <<settings, sizes, block, writing, stale, reads>>

----------------------------------------------------------------------------
(* Read.  It copies nothing to the caller: it translates the shared buffer in
   place and moves the position.  It calls translate_msg with four arguments,
   and the function takes three: either the last is lost, or the second.      *)

TranslateCalls == {[key_offset |-> key_len, to_encrypt |-> TRUE],
                   [key_offset |-> 1, to_encrypt |-> FALSE]}

Smaller(a, b) == IF a < b THEN a ELSE b
Larger(a, b) == IF a > b THEN a ELSE b

(* ReadAll does not cut the count at the end of the data. *)
ReadAll(f, count) == count
ReadCount(f, count) == Smaller(count, data_size - f_pos[f])

CanRead(f) == Idle(f) /\ reads < MaxReads /\ room > 0 /\ key # << >>

ReadNothing(f) ==
  /\ CanRead(f)
  /\ f_pos[f] >= data_size
  /\ reads' = reads + 1
  /\ UNCHANGED <<settings, sizes, block, files, writing, stale>>

my_read(f, count) ==
  /\ CanRead(f)
  /\ f_pos[f] < data_size
  /\ \E stop \in Stops, c \in TranslateCalls :
       /\ buffer' = translate_msg(stop, c.key_offset, c.to_encrypt)
       /\ origin' = [j \in Positions |-> IF j < stop THEN NoOrigin ELSE origin[j]]
  /\ f_pos' = [f_pos EXCEPT ![f] = f_pos[f] + ReadCount(f, count)]
  /\ reads' = reads + 1
  /\ UNCHANGED <<settings, sizes, room, opened, private_data, writing, stale>>

----------------------------------------------------------------------------
(* Write: checks and growth, then a character after each get_user. *)

(* What remains after character i of the text: the next get_user, or the end. *)
Advance(f, text, i) ==
  IF i < Len(text)
  THEN /\ writing' = [writing EXCEPT ![f] = [text |-> text, i |-> i]]
       /\ UNCHANGED <<data_size, f_pos>>
  ELSE /\ writing' = [writing EXCEPT ![f] = NotWriting]
       /\ f_pos' = [f_pos EXCEPT ![f] = f_pos[f] + Len(text)]
       /\ data_size' = Larger(data_size, f_pos[f] + Len(text))

(* GrownForData forgets that the position may be past the data. *)
GrownForData(f, text) == Larger(buffer_size, data_size + Len(text))
Grown(f, text) == Larger(buffer_size, f_pos[f] + Len(text))

WriteBegin(f, text) ==
  /\ Idle(f)
  /\ room > 0 /\ key # << >>
  /\ Grown(f, text) <= MaxSize
  /\ buffer_size' = Grown(f, text)
  /\ room' = IF Grown(f, text) > buffer_size THEN Grown(f, text) ELSE room
  /\ Advance(f, text, 0)
  /\ UNCHANGED <<settings, buffer, origin, opened, private_data, stale, reads>>

InWrite(f) == writing[f] # NotWriting
NextChar(f) == writing[f].text[writing[f].i + 1]
KeyChar(f) == key[(writing[f].i % key_len) + 1]

Store(f, c, o) ==
  LET at == f_pos[f] + writing[f].i
  IN /\ buffer' = [buffer EXCEPT ![at] = c]
     /\ origin' = [origin EXCEPT ![at] = o]
     /\ Advance(f, writing[f].text, writing[f].i + 1)
     /\ UNCHANGED <<settings, buffer_size, room, opened, private_data, stale, reads>>

WriteChar(f) ==
  /\ InWrite(f) /\ ~debug_mode
  /\ find_offset(KeyChar(f)) # INVALID
  /\ Store(f, translate_char(NextChar(f), find_offset(KeyChar(f)), TRUE),
              [plain |-> NextChar(f), key_char |-> KeyChar(f)])

WritePlain(f) ==
  /\ InWrite(f) /\ debug_mode
  /\ Store(f, NextChar(f), [plain |-> NextChar(f), key_char |-> Junk])

(* A fault in get_user, or a key character that is no letter or digit: what
   was stored stays, the position and the size do not move.                  *)
WriteFail(f) ==
  /\ InWrite(f)
  /\ writing' = [writing EXCEPT ![f] = NotWriting]
  /\ UNCHANGED <<settings, sizes, block, files, stale, reads>>

----------------------------------------------------------------------------
(* Ioctl and llseek. *)

MayIssue(f, cmd) == Idle(f) /\ (cmd \in Disturbs \/ \A g \in File : ~InWrite(g))

SetKey(f, new_key) ==
  /\ MayIssue(f, "SET_KEY")
  /\ key' = new_key
  /\ key_len' = Len(new_key)
  /\ UNCHANGED <<loaded, debug_mode, sizes, block, files, writing, stale, reads>>

(* ForgetKeyLen clears the length and keeps the key. *)
ForgetKeyLen == key' = key /\ key_len' = 0
ForgetKey == key' = << >> /\ key_len' = 0

(* KeepData lacks the assignment to data_size. *)
KeepData == UNCHANGED data_size
ForgetData == data_size' = 0

Reset(f) ==
  /\ MayIssue(f, "RESET")
  /\ buffer_size' = PAGE_SIZE
  /\ FreshBlock(PAGE_SIZE)
  /\ ForgetData
  /\ ForgetKey
  /\ stale' = (stale \/ \E g \in opened : f_pos[g] > 0)
  /\ UNCHANGED <<loaded, debug_mode, files, writing, reads>>

(* kmalloc fails: the buffer is gone, the key and data_size stay. *)
ResetNoMemory(f) ==
  /\ MayIssue(f, "RESET")
  /\ buffer_size' = PAGE_SIZE
  /\ FreshBlock(0)
  /\ UNCHANGED <<settings, data_size, files, writing, stale, reads>>

SetDebug(f, on) ==
  /\ MayIssue(f, "DEBUG")
  /\ debug_mode' = on
  /\ UNCHANGED <<loaded, key, key_len, sizes, block, files, writing, stale, reads>>

(* SeekPast lacks the cut at the start. *)
SeekPast(f, new_pos) ==
  private_data' = [private_data EXCEPT ![f] = Smaller(new_pos, data_size)]

SeekTo(f, new_pos) ==
  private_data' = [private_data EXCEPT ![f] = Smaller(Larger(new_pos, 0), data_size)]

my_llseek(f, offset) ==
  /\ Idle(f)
  /\ \/ SeekTo(f, offset)
     \/ SeekTo(f, private_data[f] + offset)
     \/ SeekTo(f, data_size + offset)
  /\ UNCHANGED <<settings, sizes, block, opened, f_pos, writing, stale, reads>>

----------------------------------------------------------------------------
Init ==
  /\ loaded = FALSE
  /\ key = << >> /\ key_len = 0
  /\ buffer = [j \in Positions |-> Junk] /\ room = 0
  /\ buffer_size = 0 /\ data_size = 0
  /\ debug_mode = FALSE
  /\ opened = {}
  /\ f_pos = [f \in File |-> 0]
  /\ private_data = [f \in File |-> 0]
  /\ writing = [f \in File |-> NotWriting]
  /\ origin = [j \in Positions |-> NoOrigin]
  /\ stale = FALSE
  /\ reads = 0

Call(f) ==
  \/ my_open(f) \/ my_release(f)
  \/ ReadNothing(f) \/ \E count \in Counts : my_read(f, count)
  \/ \E text \in Texts : WriteBegin(f, text)
  \/ WriteChar(f) \/ WritePlain(f) \/ WriteFail(f)
  \/ \E new_key \in Keys : SetKey(f, new_key)
  \/ Reset(f) \/ ResetNoMemory(f)
  \/ \E on \in BOOLEAN : SetDebug(f, on)
  \/ \E offset \in Offsets : my_llseek(f, offset)

Next == init_module \/ cleanup_module \/ \E f \in File : Call(f)

Spec == Init /\ [][Next]_vars

----------------------------------------------------------------------------
(* Types, for what each variable may hold at all. *)
TypeOK ==
  /\ loaded \in BOOLEAN /\ debug_mode \in BOOLEAN /\ stale \in BOOLEAN
  /\ key \in Keys \cup {<< >>} /\ key_len \in Nat
  /\ buffer \in [Positions -> Byte \cup {Junk}]
  /\ room \in 0..MaxSize /\ buffer_size \in 0..MaxSize /\ data_size \in 0..MaxSize
  /\ opened \in SUBSET File
  /\ f_pos \in [File -> 0..MaxSize]
  /\ private_data \in [File -> 0..MaxSize]
  /\ \A f \in File : writing[f].i \in 0..Len(writing[f].text)
  /\ DOMAIN writing = File
  /\ reads \in 0..MaxReads

(* Every byte a sleeping write has yet to store has its place inside the block
   the driver holds, whatever the others wrote, read or set since its check
   of buffer_size (my_write compares once and stores after every get_user).    *)
WritesInside ==
  \A f \in File : InWrite(f) => f_pos[f] + Len(writing[f].text) <= room

(* "Amount of data in the buffer": as long as there is a buffer, what counts as
   data lies inside it, over growth by one opener and RESET by another.         *)
DataInBuffer == room > 0 => data_size <= room /\ buffer_size = room

(* No hole: every byte that counts as data was stored since the buffer was
   allocated, unless a RESET left some file at a position past the start.
   It rests on positions never passing data_size, with partial writes,
   overlapping writes and short reads of several files.                       *)
NoHole == ~stale /\ room > 0 => \A j \in 0..(data_size - 1) : buffer[j] # Junk

(* A key that is set has the length the loops take remainders by, also in the
   middle of a write while others set or forget keys: no division by zero.     *)
KeyMatches ==
  /\ key # << >> => key_len = Len(key)
  /\ \A f \in File : InWrite(f) => key_len > 0

(* The reference cipher: letters and digits in the order of the alphabet. *)
Alphabet == [n \in 0..61 |-> IF n < 26 THEN 65 + n ELSE IF n < 52 THEN 71 + n ELSE n - 4]
Place(c) == CHOOSE n \in 0..61 : Alphabet[n] = c
InAlphabet(c) == \E n \in 0..61 : Alphabet[n] = c
Reference(o) ==
  IF o.key_char # Junk /\ InAlphabet(o.plain)
  THEN Alphabet[(Place(o.plain) + Place(o.key_char)) % 62] ELSE o.plain

(* Until a read rewrites it, every stored byte is the reference encryption of
   what its last writer gave, under the key and the mode at that moment,
   however the key and mode changed in between and since.                     *)
StoredUnderItsKey ==
  \A j \in Positions : origin[j] # NoOrigin => buffer[j] = Reference(origin[j])
=============================================================================
