------------------------------ MODULE Strings ------------------------------
(***************************************************************************)
(* libtinyc's string and memory functions in C: one call, turn by turn of  *)
(* its loop, on an address space whose size is also the range of an        *)
(* unsigned int, as on the 6502 (2^16), scaled down.                       *)
(***************************************************************************)
EXTENDS Integers, FiniteSetsExt

CONSTANTS
    N,              \* addresses, and values of an unsigned int
    Bytes,          \* values of an unsigned char
    CharSigned,     \* whether a plain char is signed
    Calls           \* fn, p and q (first and second argument), n, mem

ASSUME SizesAssumption == /\ N \in Nat /\ Bytes \in Nat /\ N % 2 = 0 /\ Bytes % 2 = 0 /\ N > 0 /\ Bytes > 0
                          /\ Bytes <= N /\ CharSigned \in BOOLEAN

(* A string of k characters, whose NUL is at a + k. *)
IsString(m, a, k) == a + k < N /\ m[a + k] = 0 /\ \A j \in 0 .. k - 1 : m[a + j] # 0
Ends(m, a) == \E k \in 0 .. N - 1 : IsString(m, a, k)
(* What the C library asks of the arguments: addresses, areas that lie in  *)
(* memory, strings that end, and areas apart where the standard says so.   *)
Apart(c, k) == c.p + k <= N /\ (c.p + k <= c.q \/ c.q + k <= c.p)
ASSUME CallsAssumption ==
    \A c \in Calls :
        /\ c.p \in 0 .. N - 1 /\ c.q \in Int /\ c.n \in 0 .. N - 1
        /\ c.mem \in [0 .. N - 1 -> 0 .. Bytes - 1]
        /\ c.fn \notin {"memset", "strchr", "strrchr", "strlen"} => c.q \in 0 .. N - 1
        /\ c.fn \in {"memmove", "memcpy", "memset", "memcmp"} => c.p + c.n <= N
        /\ c.fn \in {"memmove", "memcpy", "memcmp"} => c.q + c.n <= N
        /\ c.fn \in {"memcpy", "strncpy"} => Apart(c, c.n)
        /\ c.fn = "strcpy" => \E k \in 0 .. N - 1 : IsString(c.mem, c.q, k) /\ Apart(c, k + 1)
        /\ c.fn \in {"strncpy", "strcmp", "strncmp"} => Ends(c.mem, c.q)
        /\ c.fn \in {"strcmp", "strncmp", "strchr", "strrchr", "strlen"} => Ends(c.mem, c.p)

VARIABLES
    call, mem, pc,
    i,      \* the loop's counter, or how far its pointers have come
    last,   \* in strrchr
    ret
vars == <<call, mem, pc, i, last, ret>>

NULL == N    \* no address

Fn(names) == call.fn \in names /\ pc = "loop"
Byte(base) == mem[(base + i) % N]
Plain(v) == IF CharSigned /\ v >= Bytes \div 2 THEN v - Bytes ELSE v
SignedInt(v) == IF v >= N \div 2 THEN v - N ELSE v

(* Mutant: memmove always goes up. *)
DownwardsNever == FALSE
(* memmove goes down when its destination is not below its source.         *)
Downwards == call.fn = "memmove" /\ call.p >= call.q
Init ==
    /\ call \in Calls /\ mem = call.mem /\ pc = "loop"
    /\ i = IF Downwards THEN (call.n - 1) % N ELSE 0
    /\ last = NULL /\ ret = NULL

Return(v) == ret' = v /\ pc' = "done" /\ UNCHANGED <<call, mem, i, last>>
Store(v, next) == mem' = [mem EXCEPT ![(call.p + i) % N] = v] /\ i' = next /\ UNCHANGED <<call, pc, last, ret>>
NextTurn == i' = (i + 1) % N /\ UNCHANGED <<call, mem, pc, last, ret>>

(* Mutant: the counter is unsigned. *)
TurnsUnsigned == IF Downwards THEN i >= 0 ELSE i < call.n
(* The counter of memmove is an int, which ends the way down below 0. *)
Turns == IF Downwards THEN SignedInt(i) >= 0 ELSE i < call.n
Copy ==
    /\ Fn({"memcpy", "memmove"})
    /\ IF Turns THEN Store(Byte(call.q), (IF Downwards THEN i - 1 ELSE i + 1) % N) ELSE Return(call.p)

(* c is in q. *)
memset ==
    /\ Fn({"memset"})
    /\ IF i < call.n THEN Store(call.q % Bytes, (i + 1) % N) ELSE Return(call.p)

strcpy ==
    /\ Fn({"strcpy"})
    /\ mem' = [mem EXCEPT ![(call.p + i) % N] = Byte(call.q)]
    /\ IF Byte(call.q) = 0 THEN pc' = "done" /\ ret' = call.p /\ i' = i ELSE i' = (i + 1) % N /\ UNCHANGED <<pc, ret>>
    /\ UNCHANGED <<call, last>>

(* The NUL is stored twice, by the copy and by the first turn of the padding. *)
strncpy ==
    /\ call.fn = "strncpy" /\ pc = "loop"
    /\ IF i < call.n
       THEN /\ mem' = [mem EXCEPT ![(call.p + i) % N] = Byte(call.q)]
            /\ IF Byte(call.q) = 0 THEN pc' = "pad" /\ i' = i ELSE i' = i + 1 /\ pc' = pc
       ELSE pc' = "pad" /\ UNCHANGED <<mem, i>>
    /\ UNCHANGED <<call, last, ret>>
Pad ==
    /\ pc = "pad"
    /\ IF i < call.n THEN Store(0, i + 1) ELSE Return(call.p)

(* The strings end together, one of them ends, or their characters differ. *)
CompareStrings ==
    LET a == Byte(call.p)
        b == Byte(call.q)
    IN  IF a = 0 /\ b = 0 THEN Return(0)
        ELSE IF a = 0 \/ b = 0 THEN Return(a - b)
        ELSE IF a # b THEN Return(Plain(a) - Plain(b))
        ELSE NextTurn
strcmp == Fn({"strcmp"}) /\ CompareStrings
strncmp == Fn({"strncmp"}) /\ IF i < call.n THEN CompareStrings ELSE Return(0)
memcmp ==
    /\ Fn({"memcmp"})
    /\ IF i < call.n /\ Byte(call.p) = Byte(call.q) THEN NextTurn
       ELSE Return(IF i < call.n THEN Byte(call.p) - Byte(call.q) ELSE 0)

(* The char is compared with the int c. *)
Matches == Plain(Byte(call.p)) = call.q
strchr ==
    /\ Fn({"strchr"})
    /\ IF Matches THEN Return(call.p + i) ELSE IF Byte(call.p) = 0 THEN Return(NULL) ELSE NextTurn
strrchr ==
    /\ Fn({"strrchr"})
    /\ last' = IF Matches THEN call.p + i ELSE last
    /\ IF Byte(call.p) = 0 THEN pc' = "done" /\ ret' = last' /\ i' = i ELSE i' = (i + 1) % N /\ UNCHANGED <<pc, ret>>
    /\ UNCHANGED <<call, mem>>

strlen == Fn({"strlen"}) /\ IF Byte(call.p) = 0 THEN Return(i) ELSE NextTurn

Next == Copy \/ memset \/ strcpy \/ strncpy \/ Pad \/ strcmp \/ strncmp \/ memcmp \/ strchr \/ strrchr \/ strlen
Spec == Init /\ [][Next]_vars /\ WF_vars(Next)

-----------------------------------------------------------------------------
TypeOK ==
    /\ mem \in [0 .. N - 1 -> 0 .. Bytes - 1] /\ i \in 0 .. N - 1
    /\ ret \in -N .. N /\ last \in 0 .. N

Done(names) == pc = "done" /\ call.fn \in names
(* Memory with the n bytes at p taken from from(k). *)
With(from(_), n) ==
    [a \in 0 .. N - 1 |-> IF a >= call.p /\ a < call.p + n THEN from(a - call.p) ELSE call.mem[a]]
Source(k) == call.mem[call.q + k]
Character(k) == call.q % Bytes
Length(p) == Min({k \in 0 .. N - 1 - p : call.mem[p + k] = 0})

(* memmove leaves the source's old bytes at the destination, overlapping   *)
(* or not; a move up of more than an int can count is not made at all.     *)
MovesAllOrNothing ==
    Done({"memmove"}) => mem = IF Downwards /\ call.n > N \div 2 THEN call.mem ELSE With(Source, call.n)

(* memcpy, memset, strcpy and strncpy change their n bytes, the string and *)
(* its NUL, or n bytes with padding, and nothing else.                     *)
Padded(k) == IF k <= Length(call.q) THEN Source(k) ELSE 0
FillsExactly ==
    /\ Done({"memcpy"}) => mem = With(Source, call.n)
    /\ Done({"memset"}) => mem = With(Character, call.n)
    /\ Done({"strcpy"}) => mem = With(Source, Length(call.q) + 1)
    /\ Done({"strncpy"}) => mem = With(Padded, call.n)

(* Comparisons tell the order of the first bytes that differ: memcmp that  *)
(* of unsigned bytes, the others that of chars, with the NUL below all.    *)
Rank(v) == IF call.fn = "memcmp" THEN v ELSE IF v = 0 THEN -Bytes ELSE Plain(v)
Compared ==
    CASE call.fn = "strcmp" -> 0 .. Min({Length(call.p), Length(call.q)})
      [] call.fn = "strncmp" -> {k \in 0 .. call.n - 1 : k <= Length(call.p) /\ k <= Length(call.q)}
      [] OTHER -> 0 .. call.n - 1
ComparesInOrder ==
    Done({"strcmp", "strncmp", "memcmp"}) =>
        LET differ == {k \in Compared : call.mem[call.p + k] # call.mem[call.q + k]}
            by == Rank(call.mem[call.p + Min(differ)]) - Rank(call.mem[call.q + Min(differ)])
        IN  IF differ = {} THEN ret = 0 ELSE (ret > 0 <=> by > 0) /\ (ret < 0 <=> by < 0)

(* strchr and strrchr find the first and the last such char of a string,   *)
(* its NUL included, and strlen its length.                                *)
SearchesString ==
    LET found == {a \in call.p .. call.p + Length(call.p) : Plain(call.mem[a]) = call.q}
    IN  /\ Done({"strchr"}) => ret = IF found = {} THEN NULL ELSE Min(found)
        /\ Done({"strrchr"}) => ret = IF found = {} THEN NULL ELSE Max(found)
        /\ Done({"strlen"}) => ret = Length(call.p)

(* What the functions promise, for every overlap and order of the bytes.   *)
StringsCompute == MovesAllOrNothing /\ FillsExactly /\ ComparesInOrder /\ SearchesString

(* Every call on strings that end returns. *)
Returns == <>(pc = "done")
=============================================================================
