--------------------------- MODULE Semi65x_proofs ---------------------------
(***************************************************************************)
(* What memory holds when the simulator starts, what its trace tells, and  *)
(* the names it prints, for every command line, memory size and map file.  *)
(***************************************************************************)
EXTENDS Semi65x, Induction

-----------------------------------------------------------------------------
(* Division of an address into the bytes of the reset vector.              *)
LEMMA QuotientOf ==
  ASSUME NEW B \in Nat \ {0}, NEW n \in Int
  PROVE  /\ n \div B \in Int /\ n % B \in 0 .. B - 1
         /\ n = B * (n \div B) + (n % B)
OBVIOUS

LEMMA QuotientUnique ==
  ASSUME NEW B \in Nat \ {0}, NEW n \in Int, NEW q \in Int, NEW r \in 0 .. B - 1, n = B * q + r
  PROVE  n % B = r
<1> DEFINE d == q - (n \div B)
<1>1. n = B * (n \div B) + (n % B) /\ n % B \in 0 .. B - 1 /\ n \div B \in Int BY QuotientOf
<1>2. d \in Int BY <1>1
<1>3. B * d = B * q - B * (n \div B) BY <1>1
<1> HIDE DEF d
<1>4. B * d = (n % B) - r BY <1>1, <1>3
<1>5. B * d < B /\ B * d > -B BY <1>1, <1>4
<1>6. CASE d >= 1
  <2>1. B * d >= B BY <1>2, <1>6
  <2> QED BY <1>5, <2>1
<1>7. CASE d <= -1
  <2>1. B * d <= -B BY <1>2, <1>7
  <2> QED BY <1>2, <1>5, <2>1
<1>8. CASE d = 0
  <2>1. B * d = 0 BY <1>8
  <2> QED BY <1>1, <1>4, <2>1
<1> QED BY <1>2, <1>6, <1>7, <1>8

LEMMA TwoBytes ==
  ASSUME NEW B \in Nat \ {0}, NEW n \in Int
  PROVE  (n % B) + B * ((n \div B) % B) = n % (B * B)
<1> DEFINE r == n % B
           m == n \div B
           s == m % B
           q == m \div B
<1>1. m \in Int /\ r \in 0 .. B - 1 /\ n = B * m + r BY QuotientOf
<1>2. q \in Int /\ s \in 0 .. B - 1 /\ m = B * q + s BY <1>1, QuotientOf
<1> HIDE DEF r, m, s, q
<1>3. B * m = (B * B) * q + B * s BY <1>2
<1>4. B * s >= 0 /\ B * s <= B * (B - 1) BY <1>2
<1>5. r + B * s \in 0 .. (B * B) - 1 BY <1>1, <1>2, <1>4
<1>6. n = (B * B) * q + (r + B * s) /\ B * B \in Nat \ {0} BY <1>1, <1>2, <1>3
<1>7. n % (B * B) = r + B * s BY <1>2, <1>5, <1>6, QuotientUnique
<1> QED BY <1>7 DEF r, m, s

-----------------------------------------------------------------------------
(* The last of some arguments.                                             *)
LEMMA LastChosen ==
  ASSUME NEW S \in SUBSET Int, NEW x \in S, \A y \in S : y <= x
  PROVE  (CHOOSE k \in S : \A l \in S : l <= k) = x
<1>1. \E k \in S : \A l \in S : l <= k OBVIOUS
<1>2. PICK c : c = CHOOSE k \in S : \A l \in S : l <= k OBVIOUS
<1>3. c \in S /\ \A l \in S : l <= c BY <1>1, <1>2
<1>4. c <= x /\ x <= c /\ c \in Int /\ x \in Int BY <1>3
<1> QED BY <1>2, <1>4

LEMMA LastOfNext ==
  ASSUME NEW opt, NEW k \in Nat \ {0}
  PROVE  LastOf(opt, k + 1) = IF argv[k].opt = opt THEN k ELSE LastOf(opt, k)
<1> DEFINE at(n) == {m \in 1 .. n - 1 : argv[m].opt = opt}
<1>0. ASSUME NEW n
      PROVE  LastOf(opt, n) = IF at(n) = {} THEN 0 ELSE CHOOSE m \in at(n) : \A l \in at(n) : l <= m
  BY DEF LastOf
<1>1. CASE argv[k].opt = opt
  <2>1. k \in at(k + 1) /\ at(k + 1) \in SUBSET Int /\ \A m \in at(k + 1) : m <= k BY <1>1
  <2>2. (CHOOSE n \in at(k + 1) : \A l \in at(k + 1) : l <= n) = k BY <2>1, LastChosen
  <2> HIDE DEF at
  <2> QED BY <1>0, <1>1, <2>1, <2>2
<1>2. CASE argv[k].opt # opt
  <2>1. at(k + 1) = at(k) BY <1>2
  <2> HIDE DEF at
  <2> QED BY <1>0, <1>2, <2>1
<1> QED BY <1>1, <1>2

(* What the arguments before the k-th ask for.                             *)
Cover(k, a) == {j \in Covering(a) : j < k}
LastByte(S) == IF S = {} THEN 0 ELSE argv[CHOOSE k \in S : \A l \in S : l <= k].byte
ExecAt(k) == IF LastOf("-e", k) = 0 THEN -1 ELSE argv[LastOf("-e", k)].num

(* Before the core starts, memory is what the arguments so far ask for; *)
(* afterwards, the trace has told what the watchpoints last read.         *)
RECORDS(T) == [size : T, addr : T, prev : T]
Parsed ==
    /\ load_addr = LoadedAt(arg) /\ exec_addr = ExecAt(arg)
    /\ \A a \in DOMAIN WholeRam : WholeRam[a] = LastByte(Cover(arg, a))
    /\ \A k \in Files : k < arg => LoadedAt(k) \in Nat /\ LoadedAt(k) + argv[k].num < RAMSIZE
    /\ instructions = 0 /\ shown = {}
Runs ==
    /\ MemoryAsAsked
    /\ DOMAIN told = DOMAIN watchpoints
    /\ trace => /\ ReaderKnows
                /\ \A k \in DOMAIN watchpoints : watchpoints[k].prev = told[k]
    /\ ~trace => shown = {}
Typed ==
    /\ argv \in CommandLines /\ arg \in 1 .. Len(argv) + 1
    /\ WholeRam \in [0 .. RAMSIZE - 1 -> 0 .. ByteSize - 1]
    /\ load_addr \in Nat /\ exec_addr \in Int /\ instructions \in Nat
    /\ MachineType \in {1, 3} /\ trace \in BOOLEAN
    /\ \E T : watchpoints \in Seq(RECORDS(T))
    /\ phase # "run" => told = <<>>
LInv == Typed /\ (phase = "parse" => Parsed) /\ (phase = "run" => Runs)

LEMMA Memory == RAMSIZE \in Nat /\ RAMSIZE >= 16 /\ Reset \in 0 .. RAMSIZE - 2
<1>1. ByteSize >= 4 /\ ByteSize \in Nat BY ByteSizeAssumption
<1>2. ByteSize * ByteSize >= 4 * ByteSize /\ ByteSize * ByteSize \in Nat BY <1>1
<1> QED BY <1>1, <1>2 DEF RAMSIZE, Reset

LEMMA ElementOf ==
  ASSUME NEW S, NEW seq \in Seq(S), NEW n \in DOMAIN seq
  PROVE  seq[n] \in S
OBVIOUS

LEMMA Argument ==
  ASSUME Typed, NEW k \in DOMAIN argv
  PROVE  /\ argv[k] \in [opt : STRING, num : Int, byte : Int]
         /\ argv[k].opt = "-l" => argv[k].num \in Nat
         /\ argv[k].opt = "file" => argv[k].num \in Nat /\ argv[k].byte \in 0 .. ByteSize - 1
         /\ DOMAIN argv = 1 .. Len(argv) /\ Len(argv) \in Nat
<1>1. argv \in CommandLines BY DEF Typed
<1>2. argv \in Seq([opt : STRING, num : Int, byte : Int]) BY <1>1, CommandLinesAssumption
<1>3. argv[k].opt = "-l" => argv[k].num \in Nat BY <1>1, ArgumentsAssumption, Zenon
<1>4. argv[k].opt = "file" => argv[k].num \in Nat /\ argv[k].byte \in 0 .. ByteSize - 1
  BY <1>1, ArgumentsAssumption, Zenon
<1>5. DOMAIN argv = 1 .. Len(argv) /\ Len(argv) \in Nat BY <1>2
<1>6. argv[k] \in [opt : STRING, num : Int, byte : Int] BY <1>2, ElementOf
<1> QED BY <1>3, <1>4, <1>5, <1>6

LEMMA LinesHaveLength == Typed => DOMAIN argv = 1 .. Len(argv) /\ Len(argv) \in Nat
<1> SUFFICES ASSUME Typed PROVE DOMAIN argv = 1 .. Len(argv) /\ Len(argv) \in Nat
  OBVIOUS
<1>1. argv \in Seq([opt : STRING, num : Int, byte : Int])
  BY CommandLinesAssumption DEF Typed
<1> QED BY <1>1

(* The files that the next argument adds to those that cover an address.   *)
LEMMA CoverNext ==
  ASSUME Typed, NEW k \in DOMAIN argv, NEW a
  PROVE  LastByte(Cover(k + 1, a)) =
           IF argv[k].opt = "file" /\ a \in LoadedAt(k) .. LoadedAt(k) + argv[k].num - 1
           THEN argv[k].byte ELSE LastByte(Cover(k, a))
<1>1. DOMAIN argv = 1 .. Len(argv) /\ Len(argv) \in Nat BY LinesHaveLength
<1>2. CASE k \in Covering(a)
  <2>1. k \in Cover(k + 1, a) /\ Cover(k + 1, a) \in SUBSET Int /\ \A l \in Cover(k + 1, a) : l <= k
    BY <1>1, <1>2 DEF Cover, Covering, Files
  <2>2. (CHOOSE n \in Cover(k + 1, a) : \A l \in Cover(k + 1, a) : l <= n) = k BY <2>1, LastChosen
  <2>3. LastByte(Cover(k + 1, a)) = argv[k].byte BY <2>1, <2>2 DEF LastByte
  <2> QED BY <1>2, <2>3 DEF Covering, Files
<1>3. CASE k \notin Covering(a)
  <2>1. Cover(k + 1, a) = Cover(k, a) BY <1>1, <1>3 DEF Cover, Covering, Files
  <2> QED BY <1>3, <2>1 DEF Covering, Files
<1> QED BY <1>2, <1>3

(* One argument more.                                                      *)
Parses(opt) ==
    /\ load_addr' = IF opt = "-l" THEN argv[arg].num ELSE load_addr
    /\ exec_addr' = IF opt = "-e" THEN argv[arg].num ELSE exec_addr
    /\ WholeRam' = IF opt = "file" THEN Loaded(argv[arg].num, argv[arg].byte) ELSE WholeRam
    /\ opt = "file" => Fits(argv[arg].num)
    /\ MachineType' \in {1, 3} /\ trace' \in BOOLEAN
    /\ \E T : watchpoints' \in Seq(RECORDS(T))

LEMMA OneArgument ==
  ASSUME LInv, NEW opt, Parsing(opt), Accept, Parses(opt)
  PROVE  LInv' /\ phase' = "parse" /\ shown' = {}
<1>0. Typed /\ Parsed /\ arg \in DOMAIN argv /\ argv[arg].opt = opt
  BY LinesHaveLength DEF LInv, Parsing, Typed
<1>1. /\ arg' = arg + 1 /\ argv' = argv /\ phase' = "parse" /\ phase = "parse"
      /\ shown' = shown /\ told' = told /\ instructions' = instructions
  BY DEF Parsing, Accept
<1>2. PICK n : n = arg OBVIOUS
<1>3. n \in DOMAIN argv /\ DOMAIN argv = 1 .. Len(argv) /\ Len(argv) \in Nat /\ n \in Nat \ {0}
  BY <1>0, <1>2, LinesHaveLength
<1>4. argv[n] \in [opt : STRING, num : Int, byte : Int]
  BY <1>0, <1>2, <1>3, Argument
<1>5. WholeRam' \in [0 .. RAMSIZE - 1 -> 0 .. ByteSize - 1]
  <2>1. CASE opt = "file"
    <3>1. WholeRam' = Loaded(argv[n].num, argv[n].byte) /\ argv[n].byte \in 0 .. ByteSize - 1
      BY <1>0, <1>2, <1>3, <2>1, Argument DEF Parses
    <3> QED BY <1>0, <3>1 DEF Loaded, Typed
  <2>2. CASE opt # "file" BY <1>0, <2>2 DEF Parses, Typed
  <2> QED BY <2>1, <2>2
<1>6. Typed'
  <2>1. load_addr' \in Nat
    BY <1>0, <1>2, <1>3, Argument DEF Parses, Typed
  <2>2. exec_addr' \in Int BY <1>0, <1>2, <1>4 DEF Parses, Typed
  <2>3. arg' \in 1 .. Len(argv') + 1 BY <1>1, <1>2, <1>3
  <2>4. told' = <<>> BY <1>0, <1>1 DEF Typed
  <2> QED BY <1>0, <1>1, <1>5, <2>1, <2>2, <2>3, <2>4 DEF Typed, Parses
<1>7. load_addr' = LoadedAt(n + 1) /\ load_addr = LoadedAt(n)
  <2>1. load_addr = LoadedAt(n) BY <1>0, <1>2 DEF Parsed
  <2>2. LastOf("-l", n + 1) = IF argv[n].opt = "-l" THEN n ELSE LastOf("-l", n)
    BY <1>3, LastOfNext
  <2> QED BY <1>0, <1>2, <1>3, <2>1, <2>2 DEF LoadedAt, Parses
<1>8. exec_addr' = ExecAt(n + 1)
  <2>1. exec_addr = ExecAt(n) BY <1>0, <1>2 DEF Parsed
  <2>2. LastOf("-e", n + 1) = IF argv[n].opt = "-e" THEN n ELSE LastOf("-e", n)
    BY <1>3, LastOfNext
  <2> QED BY <1>0, <1>2, <1>3, <2>1, <2>2 DEF ExecAt, Parses
<1>9. ASSUME NEW a \in DOMAIN WholeRam PROVE WholeRam'[a] = LastByte(Cover(n + 1, a))
  <2>1. WholeRam[a] = LastByte(Cover(n, a)) BY <1>0, <1>2 DEF Parsed
  <2>2. WholeRam'[a] = IF opt = "file" /\ a \in load_addr .. load_addr + argv[n].num - 1
                       THEN argv[n].byte ELSE WholeRam[a]
    BY <1>0, <1>2 DEF Parses, Loaded
  <2> QED BY <1>0, <1>2, <1>3, <1>7, <2>1, <2>2, CoverNext
<1>10. ASSUME NEW k \in Files, k < n + 1
       PROVE  LoadedAt(k) \in Nat /\ LoadedAt(k) + argv[k].num < RAMSIZE
  <2>0. k \in Int /\ n \in Int BY <1>3 DEF Files
  <2>1. CASE k < n BY <1>0, <1>2, <2>1 DEF Parsed
  <2>2. CASE k = n
    <3>1. opt = "file" BY <1>0, <1>2, <2>2 DEF Files
    <3>2. argv[n].num + load_addr < RAMSIZE BY <1>2, <3>1 DEF Parses, Fits
    <3>3. load_addr \in Nat /\ argv[n].num \in Int BY <1>0, <1>4 DEF Typed
    <3> QED BY <1>7, <2>2, <3>2, <3>3
  <2> QED BY <1>10, <2>0, <2>1, <2>2
<1>11. DOMAIN WholeRam' = DOMAIN WholeRam BY <1>0, <1>5 DEF Typed
<1>12. /\ LoadedAt(n + 1)' = LoadedAt(n + 1) /\ ExecAt(n + 1)' = ExecAt(n + 1) /\ Files' = Files
       /\ \A k : LoadedAt(k)' = LoadedAt(k)
       /\ \A a : LastByte(Cover(n + 1, a))' = LastByte(Cover(n + 1, a))
  <2>1. n' = n BY <1>3
  <2> QED BY <1>1 DEF LoadedAt, LastOf, ExecAt, Files, Cover, Covering, LastByte
<1>13. Parsed'
  BY <1>0, <1>1, <1>2, <1>7, <1>8, <1>9, <1>10, <1>11, <1>12 DEF Parsed
<1> QED BY <1>0, <1>1, <1>6, <1>13 DEF LInv, Parsed

(* Each argument does what Parses says of it.                              *)
LEMMA RecordsGrow ==
  ASSUME NEW T, NEW ws \in Seq(RECORDS(T)), NEW size, NEW addr, NEW prev
  PROVE  \E U : Append(ws, [size |-> size, addr |-> addr, prev |-> prev]) \in Seq(RECORDS(U))
<1> DEFINE U == T \cup {size, addr, prev}
           w == [size |-> size, addr |-> addr, prev |-> prev]
<1>1. \A r \in RECORDS(T) : r \in RECORDS(U) BY DEF RECORDS
<1>2. w \in RECORDS(U) BY DEF RECORDS
<1>3. ws \in Seq(RECORDS(U))
  <2>1. ws = [n \in 1 .. Len(ws) |-> ws[n]] /\ Len(ws) \in Nat /\ DOMAIN ws = 1 .. Len(ws) OBVIOUS
  <2>2. \A n \in 1 .. Len(ws) : ws[n] \in RECORDS(U) BY <1>1, <2>1, ElementOf
  <2> HIDE DEF U
  <2> QED BY <2>1, <2>2
<1> HIDE DEF U, w
<1>4. Append(ws, w) \in Seq(RECORDS(U)) BY <1>2, <1>3
<1> QED BY <1>4 DEF w

LEMMA Arguments ==
  ASSUME LInv,
         \/ Cpu /\ argv[arg].num \in Nmos
         \/ CpuCmos \/ LoadAddr \/ ExecAddr \/ MapArg \/ Trace
         \/ \E opt \in DOMAIN Sizes : Watch(opt)
         \/ File /\ Fits(argv[arg].num)
  PROVE  LInv' /\ phase' = "parse" /\ shown' = {}
<1>0. /\ MachineType \in {1, 3} /\ trace \in BOOLEAN /\ \E T : watchpoints \in Seq(RECORDS(T))
  BY DEF LInv, Typed
<1>1. CASE Cpu /\ argv[arg].num \in Nmos
  <2>1. Parsing("-c") /\ Accept /\ Parses("-c") BY <1>0, <1>1 DEF Cpu, Parses
  <2> QED BY <2>1, OneArgument
<1>2. CASE CpuCmos
  <2>1. Parsing("-c 65C02") /\ Accept /\ Parses("-c 65C02") BY <1>0, <1>2 DEF CpuCmos, Parses
  <2> QED BY <2>1, OneArgument
<1>3. CASE LoadAddr
  <2>1. Parsing("-l") /\ Accept /\ Parses("-l") BY <1>0, <1>3 DEF LoadAddr, Parses
  <2> QED BY <2>1, OneArgument
<1>4. CASE ExecAddr
  <2>1. Parsing("-e") /\ Accept /\ Parses("-e") BY <1>0, <1>4 DEF ExecAddr, Parses
  <2> QED BY <2>1, OneArgument
<1>5. CASE MapArg
  <2>1. Parsing("-m") /\ Accept /\ Parses("-m") BY <1>0, <1>5 DEF MapArg, memory, Parses
  <2> QED BY <2>1, OneArgument
<1>6. CASE Trace
  <2>1. Parsing("-t") /\ Accept /\ Parses("-t") BY <1>0, <1>6 DEF Trace, Parses
  <2> QED BY <2>1, OneArgument
<1>7. ASSUME NEW opt \in DOMAIN Sizes, Watch(opt) PROVE LInv' /\ phase' = "parse" /\ shown' = {}
  <2>1. opt \notin {"-l", "-e", "file"} BY DEF Sizes
  <2>2. PICK size, addr, prev :
          watchpoints' = Append(watchpoints, [size |-> size, addr |-> addr, prev |-> prev])
    BY <1>7 DEF Watch
  <2>3. \E T : watchpoints' \in Seq(RECORDS(T)) BY <1>0, <2>2, RecordsGrow
  <2>4. Parsing(opt) /\ Accept /\ UNCHANGED <<WholeRam, MachineType, load_addr, exec_addr, trace>>
    BY <1>7 DEF Watch
  <2>5. Parses(opt) BY <1>0, <2>1, <2>3, <2>4 DEF Parses
  <2> QED BY <2>4, <2>5, OneArgument
<1>8. CASE File /\ Fits(argv[arg].num)
  <2>1. Parsing("file") /\ Accept /\ Parses("file") BY <1>0, <1>8 DEF File, Parses
  <2> QED BY <2>1, OneArgument
<1> QED BY <1>1, <1>2, <1>3, <1>4, <1>5, <1>6, <1>7, <1>8

(* main gives up.                                                          *)
GivesUp ==
    \/ Cpu /\ argv[arg].num \notin Nmos
    \/ WatchWhat \/ MissingFile
    \/ File /\ ~Fits(argv[arg].num)

LEMMA Refusals ==
  ASSUME LInv,
         GivesUp
  PROVE  LInv' /\ phase' \notin {"parse", "run"} /\ shown' = {}
<1>1. PICK why \in {"Unknown CPU", "Watch what?", "perror", "Program doesn't fit"} :
        Refuse(why) /\ phase = "parse"
  <2>1. ASSUME Cpu, argv[arg].num \notin Nmos PROVE Refuse("Unknown CPU") /\ phase = "parse"
    BY <2>1 DEF Cpu, Parsing
  <2>2. ASSUME WatchWhat PROVE Refuse("Watch what?") /\ phase = "parse"
    BY <2>2 DEF WatchWhat, Parsing
  <2>3. ASSUME MissingFile PROVE Refuse("perror") /\ phase = "parse"
    BY <2>3 DEF MissingFile, Parsing
  <2>4. ASSUME File, ~Fits(argv[arg].num) PROVE Refuse("Program doesn't fit") /\ phase = "parse"
    BY <2>4 DEF File, Parsing
  <2>5. \/ Refuse("Unknown CPU") \/ Refuse("Watch what?")
        \/ Refuse("perror") \/ Refuse("Program doesn't fit")
    BY <2>1, <2>2, <2>3, <2>4, Zenon DEF GivesUp
  <2>6. phase = "parse" BY <2>1, <2>2, <2>3, <2>4, Zenon DEF GivesUp
  <2> QED BY <2>5, <2>6, Zenon
<1>2. Typed /\ Parsed BY <1>1 DEF LInv
<1>3. UNCHANGED <<argv, arg, memory, shown, told, instructions>> /\ phase' = why BY <1>1 DEF Refuse
<1>4. Typed'
  <2>1. why # "run" /\ why # "parse" OBVIOUS
  <2>2. UNCHANGED <<WholeRam, MachineType, load_addr, exec_addr, trace, watchpoints, told,
                   argv, arg>>
    BY <1>3 DEF memory
  <2>3. told' = <<>> BY <1>1, <1>2, <2>2 DEF Typed
  <2>4. \E T : watchpoints' \in Seq(RECORDS(T)) BY <1>2, <2>2 DEF Typed
  <2> QED BY <1>2, <1>3, <2>2, <2>3, <2>4 DEF Typed
<1> QED BY <1>1, <1>2, <1>3, <1>4 DEF LInv, Parsed

(* The start of the core.                                                  *)
LEMMA RecordsKept ==
  ASSUME NEW T, watchpoints \in Seq(RECORDS(T)), NEW ram
  PROVE  /\ \E U : Updated(ram) \in Seq(RECORDS(U))
         /\ DOMAIN Updated(ram) = DOMAIN watchpoints
         /\ \A k \in DOMAIN watchpoints :
              /\ Updated(ram)[k].size = watchpoints[k].size
              /\ Updated(ram)[k].addr = watchpoints[k].addr
              /\ Updated(ram)[k].prev = mem(ram, watchpoints[k].size, watchpoints[k].addr)
<1>1. /\ DOMAIN watchpoints = 1 .. Len(watchpoints) /\ Len(watchpoints) \in Nat
      /\ \A k \in DOMAIN watchpoints : watchpoints[k] \in RECORDS(T)
  BY ElementOf
<1> DEFINE new(k) == mem(ram, watchpoints[k].size, watchpoints[k].addr)
           U == T \cup {new(k) : k \in DOMAIN watchpoints}
<1>2. ASSUME NEW k \in DOMAIN watchpoints
      PROVE  /\ [watchpoints[k] EXCEPT !.prev = new(k)] =
                  [size |-> watchpoints[k].size, addr |-> watchpoints[k].addr, prev |-> new(k)]
             /\ watchpoints[k].size \in T /\ watchpoints[k].addr \in T
  <2>1. watchpoints[k] \in RECORDS(T) BY <1>1
  <2> HIDE DEF new
  <2> QED BY <2>1 DEF RECORDS
<1>3. Updated(ram) = [k \in DOMAIN watchpoints |->
         [size |-> watchpoints[k].size, addr |-> watchpoints[k].addr, prev |-> new(k)]]
  BY <1>2 DEF Updated
<1>4. \A k \in DOMAIN watchpoints : watchpoints[k].size \in U /\ watchpoints[k].addr \in U
                                     /\ new(k) \in U
  BY <1>2
<1> HIDE DEF new, U
<1>5. \A k \in 1 .. Len(watchpoints) : Updated(ram)[k] \in RECORDS(U)
  BY <1>1, <1>3, <1>4 DEF RECORDS
<1>6. Updated(ram) \in [1 .. Len(watchpoints) -> RECORDS(U)] BY <1>1, <1>3, <1>5
<1>7. Updated(ram) \in Seq(RECORDS(U)) BY <1>1, <1>6
<1> QED BY <1>1, <1>3, <1>7 DEF new

LEMMA Starts ==
  ASSUME LInv, Start
  PROVE  LInv' /\ phase' = "run" /\ shown' = {} /\ ReaderKnows'
<1>1. Typed /\ Parsed /\ phase = "parse" /\ arg > Len(argv) BY DEF LInv, Start
<1>2. DOMAIN argv = 1 .. Len(argv) /\ Len(argv) \in Nat /\ arg = Len(argv) + 1
  BY <1>1, LinesHaveLength DEF Typed
<1>3. PICK exec : exec = IF exec_addr = -1 THEN load_addr ELSE exec_addr OBVIOUS
<1>4. PICK ram : ram = [WholeRam EXCEPT ![Reset] = ResetVector(exec)[1],
                                        ![Reset + 1] = ResetVector(exec)[2]]
  OBVIOUS
<1>5. /\ exec_addr' = exec /\ WholeRam' = ram /\ watchpoints' = Updated(ram)
      /\ told' = [k \in DOMAIN watchpoints |-> Updated(ram)[k].prev] /\ phase' = "run"
      /\ UNCHANGED <<argv, arg, MachineType, load_addr, trace, shown, instructions>>
  BY <1>3, <1>4 DEF Start, UpdatedAtStart
<1>6. exec \in Int BY <1>1, <1>3 DEF Typed
<1>7. /\ exec % ByteSize \in 0 .. ByteSize - 1
      /\ (exec \div ByteSize) % ByteSize \in 0 .. ByteSize - 1
      /\ (exec % ByteSize) + ByteSize * ((exec \div ByteSize) % ByteSize) = exec % RAMSIZE
  <2>1. ByteSize \in Nat \ {0} BY ByteSizeAssumption
  <2> QED BY <1>6, <2>1, QuotientOf, TwoBytes DEF RAMSIZE
<1>8. /\ ram \in [0 .. RAMSIZE - 1 -> 0 .. ByteSize - 1]
      /\ ram[Reset] = exec % ByteSize /\ ram[Reset + 1] = (exec \div ByteSize) % ByteSize
      /\ \A a \in DOMAIN WholeRam \ {Reset, Reset + 1} : ram[a] = WholeRam[a]
  <2>1. WholeRam \in [0 .. RAMSIZE - 1 -> 0 .. ByteSize - 1] BY <1>1 DEF Typed
  <2>2. Reset \in 0 .. RAMSIZE - 1 /\ Reset + 1 \in 0 .. RAMSIZE - 1 /\ Reset # Reset + 1 BY Memory
  <2>3. /\ ResetVector(exec)[1] = exec % ByteSize
        /\ ResetVector(exec)[2] = (exec \div ByteSize) % ByteSize
    BY DEF ResetVector
  <2> QED BY <1>4, <1>7, <2>1, <2>2, <2>3
<1>9. PICK T : watchpoints \in Seq(RECORDS(T)) BY <1>1 DEF Typed
<1>10. Typed'
  <2>1. \E U : watchpoints' \in Seq(RECORDS(U)) BY <1>5, <1>9, RecordsKept
  <2> QED BY <1>1, <1>5, <1>6, <1>8, <2>1 DEF Typed
<1>11. \A k \in DOMAIN watchpoints' : told'[k] = getmem(watchpoints[k].size, watchpoints[k].addr)'
  <2>1. DOMAIN watchpoints' = DOMAIN watchpoints BY <1>5, <1>9, RecordsKept
  <2>2. ASSUME NEW k \in DOMAIN watchpoints
        PROVE  told'[k] = mem(WholeRam', watchpoints'[k].size, watchpoints'[k].addr)
    BY <1>5, <1>9, RecordsKept
  <2> QED BY <2>1, <2>2 DEF getmem
<1>12. /\ DOMAIN told' = DOMAIN watchpoints'
       /\ \A k \in DOMAIN watchpoints' : watchpoints'[k].prev = told'[k]
  BY <1>5, <1>9, RecordsKept
<1>13. MemoryAsAsked'
  <2>0. /\ \A k : LoadedAt(k)' = LoadedAt(k) /\ Files' = Files
        /\ \A a : Covering(a)' = Covering(a) /\ \A opt, k : LastOf(opt, k)' = LastOf(opt, k)
    BY <1>5 DEF LoadedAt, LastOf, Files, Covering
  <2>1. ASSUME NEW a \in DOMAIN WholeRam' \ {Reset, Reset + 1}
        PROVE  WholeRam'[a] = IF Covering(a) = {} THEN 0
                  ELSE argv[CHOOSE k \in Covering(a) : \A l \in Covering(a) : l <= k].byte
    <3>1. a \in DOMAIN WholeRam BY <1>1, <1>5, <1>8 DEF Typed
    <3>2. WholeRam'[a] = LastByte(Cover(arg, a)) BY <1>1, <1>5, <1>8, <3>1 DEF Parsed
    <3>3. Cover(arg, a) = Covering(a) BY <1>2 DEF Cover, Covering, Files
    <3> QED BY <3>2, <3>3 DEF LastByte
  <2>2. StartAddress' = exec % RAMSIZE BY <1>5, <1>7, <1>8 DEF StartAddress, Reset, RAMSIZE
  <2>3. exec = IF LastOf("-e", arg) # 0 /\ argv[LastOf("-e", arg)].num # -1
               THEN argv[LastOf("-e", arg)].num ELSE LoadedAt(arg)
    BY <1>1, <1>3 DEF Parsed, ExecAt
  <2>5. ASSUME NEW f \in Files,
               \A k \in f + 1 .. Len(argv) : argv[k].opt \notin {"file", "-l"}
        PROVE  LoadedAt(f) = LoadedAt(arg)
    <3>1. f \in 1 .. arg - 1 /\ argv[f].opt = "file" BY <1>2 DEF Files
    <3>2. {n \in 1 .. f - 1 : argv[n].opt = "-l"} = {n \in 1 .. arg - 1 : argv[n].opt = "-l"}
      BY <1>2, <2>5, <3>1
    <3> DEFINE at(n) == {m \in 1 .. n - 1 : argv[m].opt = "-l"}
    <3>3. ASSUME NEW n
          PROVE  LastOf("-l", n) = IF at(n) = {} THEN 0 ELSE CHOOSE m \in at(n) : \A l \in at(n) : l <= m
      BY DEF LastOf
    <3>4. at(f) = at(arg) BY <3>2
    <3> HIDE DEF at
    <3>5. LastOf("-l", f) = LastOf("-l", arg) BY <3>3, <3>4
    <3> QED BY <3>5 DEF LoadedAt
  <2>6. IF LastOf("-e", arg) # 0 /\ argv[LastOf("-e", arg)].num # -1
        THEN StartAddress' = argv[LastOf("-e", arg)].num % RAMSIZE
        ELSE \A f \in Files :
               (\A k \in f + 1 .. Len(argv) : argv[k].opt \notin {"file", "-l"})
                   => StartAddress' = LoadedAt(f) % RAMSIZE
    BY <2>2, <2>3, <2>5
  <2>4. \A k \in Files : LoadedAt(k) + argv[k].num <= RAMSIZE
    <3> SUFFICES ASSUME NEW k \in Files PROVE LoadedAt(k) + argv[k].num <= RAMSIZE
      OBVIOUS
    <3>1. k < arg BY <1>2 DEF Files
    <3>2. LoadedAt(k) \in Nat /\ LoadedAt(k) + argv[k].num < RAMSIZE BY <1>1, <3>1 DEF Parsed
    <3>3. argv[k] \in [opt : STRING, num : Int, byte : Int] BY <1>1, Argument DEF Files
    <3> QED BY <3>2, <3>3, Memory
  <2> QED BY <1>5, <2>0, <2>1, <2>4, <2>6 DEF MemoryAsAsked
<1>14. Runs'
  BY <1>1, <1>5, <1>11, <1>12, <1>13 DEF Runs, ReaderKnows, Parsed
<1> QED BY <1>1, <1>5, <1>10, <1>11, <1>14 DEF LInv, Parsed, ReaderKnows

(* An instruction and its line of the trace.                               *)
TellsChange ==
    /\ ReaderKnows'
    /\ \A d \in shown' : phase = "run" =>
         /\ d.from = getmem(watchpoints[d.watch].size, watchpoints[d.watch].addr)
         /\ d.to # d.from

LEMMA ReaderKnowsNext ==
  ASSUME phase' = "run",
         trace' => \A k \in DOMAIN watchpoints' :
                     told'[k] = mem(WholeRam', watchpoints'[k].size, watchpoints'[k].addr)
  PROVE  ReaderKnows'
BY DEF ReaderKnows, getmem

LEMMA Executes ==
  ASSUME LInv, Instruction
  PROVE  LInv' /\ TellsChange
<1>1. Typed /\ Runs /\ phase = "run" BY DEF LInv, Instruction
<1>2. PICK store \in Stores :
        LET ram == [a \in DOMAIN WholeRam |-> IF a \in DOMAIN store THEN store[a] ELSE WholeRam[a]]
        IN  /\ WholeRam' = ram
            /\ IF trace
               THEN /\ shown' = Changes(Updated(ram))
                    /\ watchpoints' = Updated(ram)
                    /\ told' = [k \in DOMAIN told |->
                         IF \E d \in shown' : d.watch = k
                         THEN Updated(ram)[k].prev ELSE told[k]]
               ELSE UNCHANGED <<shown, told, watchpoints>>
  BY DEF Instruction
<1>3. PICK ram :
        ram = [a \in DOMAIN WholeRam |-> IF a \in DOMAIN store THEN store[a] ELSE WholeRam[a]]
  OBVIOUS
<1>4. /\ WholeRam' = ram
      /\ trace => /\ shown' = Changes(Updated(ram))
                  /\ watchpoints' = Updated(ram)
                  /\ told' = [k \in DOMAIN told |->
                       IF \E d \in shown' : d.watch = k
                       THEN Updated(ram)[k].prev ELSE told[k]]
      /\ ~trace => UNCHANGED <<shown, told, watchpoints>>
  BY <1>2, <1>3
<1>5. /\ instructions' = instructions + 1 /\ phase' = "run"
      /\ UNCHANGED <<argv, arg, MachineType, load_addr, exec_addr, trace>>
  BY <1>1 DEF Instruction
<1>6. WholeRam' \in [0 .. RAMSIZE - 1 -> 0 .. ByteSize - 1]
  <2>1. store \in [DOMAIN store -> 0 .. ByteSize - 1] BY StoresAssumption
  <2>2. WholeRam \in [0 .. RAMSIZE - 1 -> 0 .. ByteSize - 1] BY <1>1 DEF Typed
  <2> QED BY <1>3, <1>4, <2>1, <2>2
<1>7. PICK T : watchpoints \in Seq(RECORDS(T)) BY <1>1 DEF Typed
<1>8. \E U : watchpoints' \in Seq(RECORDS(U))
  <2>1. CASE trace BY <1>4, <1>7, <2>1, RecordsKept
  <2>2. CASE ~trace BY <1>4, <1>7, <2>2
  <2> QED BY <2>1, <2>2
<1>9. instructions' \in Nat /\ instructions' # 0 BY <1>1, <1>5 DEF Typed
<1>10. Typed' BY <1>1, <1>5, <1>6, <1>8, <1>9 DEF Typed
<1>11. MemoryAsAsked' BY <1>9 DEF MemoryAsAsked
<1>12. ASSUME trace
       PROVE  /\ DOMAIN told' = DOMAIN watchpoints' /\ DOMAIN watchpoints' = DOMAIN watchpoints
              /\ \A k \in DOMAIN watchpoints :
                   /\ told'[k] = mem(ram, watchpoints'[k].size, watchpoints'[k].addr)
                   /\ watchpoints'[k].prev = told'[k]
              /\ \A d \in shown' : d.watch \in DOMAIN watchpoints /\ d.from = told[d.watch] /\ d.to # d.from
  <2>1. /\ DOMAIN told = DOMAIN watchpoints
        /\ \A k \in DOMAIN watchpoints : watchpoints[k].prev = told[k]
    BY <1>1, <1>12 DEF Runs
  <2>2. /\ DOMAIN watchpoints' = DOMAIN watchpoints
        /\ \A k \in DOMAIN watchpoints :
             /\ watchpoints'[k].size = watchpoints[k].size
             /\ watchpoints'[k].addr = watchpoints[k].addr
             /\ watchpoints'[k].prev = mem(ram, watchpoints[k].size, watchpoints[k].addr)
    BY <1>4, <1>7, <1>12, RecordsKept
  <2>3. ASSUME NEW d \in shown'
        PROVE  d.watch \in DOMAIN watchpoints /\ d.from = told[d.watch] /\ d.to # d.from
    <3>1. PICK k \in DOMAIN watchpoints :
            /\ d = [watch |-> k, from |-> watchpoints[k].prev, to |-> Updated(ram)[k].prev]
            /\ d.from # d.to
      BY <1>4, <1>12 DEF Changes
    <3> QED BY <2>1, <3>1
  <2>4. ASSUME NEW k \in DOMAIN watchpoints PROVE told'[k] = watchpoints'[k].prev
    <3>1. CASE \E d \in shown' : d.watch = k BY <1>4, <1>12, <2>1, <3>1
    <3>2. CASE ~ \E d \in shown' : d.watch = k
      <4>1. PICK d : d = [watch |-> k, from |-> watchpoints[k].prev, to |-> Updated(ram)[k].prev]
        OBVIOUS
      <4>2. d.from = d.to
        <5> SUFFICES ASSUME d.from # d.to PROVE FALSE
          OBVIOUS
        <5>1. d \in shown' BY <1>4, <1>12, <4>1 DEF Changes
        <5> QED BY <3>2, <4>1, <5>1
      <4>3. told'[k] = told[k] BY <1>4, <1>12, <2>1, <3>2
      <4> QED BY <1>4, <1>12, <2>1, <4>1, <4>2, <4>3
    <3> QED BY <3>1, <3>2
  <2>5. DOMAIN told' = DOMAIN told BY <1>4, <1>12
  <2> QED BY <2>1, <2>2, <2>3, <2>4, <2>5
<1>13. ReaderKnows' BY <1>4, <1>5, <1>12, ReaderKnowsNext
<1>14. Runs'
  <2>1. CASE trace BY <1>5, <1>11, <1>12, <1>13, <2>1 DEF Runs
  <2>2. CASE ~trace BY <1>1, <1>4, <1>5, <1>11, <1>13, <2>2 DEF Runs
  <2> QED BY <2>1, <2>2
<1>15. TellsChange
  <2>1. CASE trace
    <3>1. \A k \in DOMAIN watchpoints : told[k] = getmem(watchpoints[k].size, watchpoints[k].addr)
      BY <1>1, <2>1 DEF Runs, ReaderKnows
    <3> QED BY <1>12, <1>13, <2>1, <3>1 DEF TellsChange
  <2>2. CASE ~trace
    <3>1. shown' = {} BY <1>1, <1>4, <2>2 DEF Runs
    <3> QED BY <1>13, <3>1 DEF TellsChange
  <2> QED BY <2>1, <2>2
<1> QED BY <1>5, <1>10, <1>14, <1>15 DEF LInv

LEMMA LInvStep == LInv /\ [Next]_vars => LInv' /\ [TellsChange]_vars
<1> SUFFICES ASSUME LInv, [Next]_vars PROVE LInv' /\ [TellsChange]_vars
  OBVIOUS
<1>1. ASSUME phase' # "run", shown' = {} PROVE TellsChange BY <1>1 DEF TellsChange, ReaderKnows
<1>2. CASE \/ Cpu /\ argv[arg].num \in Nmos
           \/ CpuCmos \/ LoadAddr \/ ExecAddr \/ MapArg \/ Trace
           \/ \E opt \in DOMAIN Sizes : Watch(opt)
           \/ File /\ Fits(argv[arg].num)
  BY <1>1, <1>2, Arguments
<1>3. CASE GivesUp BY <1>1, <1>3, Refusals
<1>4. CASE Start
  <2>1. TellsChange BY <1>4, Starts DEF TellsChange
  <2> QED BY <1>4, <2>1, Starts
<1>5. CASE Instruction BY <1>5, Executes
<1>6. CASE UNCHANGED vars
  <2>1. Typed' = Typed /\ Parsed' = Parsed
    BY <1>6 DEF vars, Typed, Parsed, LoadedAt, ExecAt, LastOf, LastByte, Cover, Covering, Files
  <2>2. Runs' = Runs
    BY <1>6 DEF vars, Runs, MemoryAsAsked, StartAddress, Covering, Files, LoadedAt, LastOf,
           ReaderKnows, getmem
  <2> QED BY <1>6, <2>1, <2>2 DEF LInv, vars
<1> QED BY <1>2, <1>3, <1>4, <1>5, <1>6 DEF Next, GivesUp

-----------------------------------------------------------------------------
(* The map file.  The least and the greatest of some numbers.              *)
LEMMA MinIs ==
  ASSUME NEW S \in SUBSET Int, NEW x \in S, \A y \in S : x <= y
  PROVE  Map!Min(S) = x
<1>1. \E k \in S : \A l \in S : k <= l OBVIOUS
<1>2. PICK c : c = CHOOSE k \in S : \A l \in S : k <= l OBVIOUS
<1>3. c \in S /\ \A l \in S : c <= l BY <1>1, <1>2
<1>4. c <= x /\ x <= c /\ c \in Int /\ x \in Int BY <1>3
<1> QED BY <1>2, <1>4 DEF Map!Min

LEMMA MaxIs ==
  ASSUME NEW n \in Nat, NEW S \in SUBSET (0 .. n), S # {}
  PROVE  Map!Max(S) \in S /\ \A y \in S : y <= Map!Max(S)
<1> DEFINE T == {n - a : a \in S}
<1>0. \A a \in S : a \in Int /\ n - a \in Nat OBVIOUS
<1>1. T \in SUBSET Nat /\ T # {} BY <1>0
<1>2. PICK t \in T : \A y \in T : t <= y BY <1>1, LeastNatural
<1>3. PICK x \in S : t = n - x BY <1>2
<1>4. \A y \in S : y <= x
  <2> SUFFICES ASSUME NEW y \in S PROVE y <= x OBVIOUS
  <2>1. n - x <= n - y BY <1>2, <1>3
  <2> QED BY <1>0, <2>1
<1> QED BY <1>4 DEF Map!Max

(* The first line of a kind behind line k.                                 *)
Num == Len(read)
IsAfter(kind, k, x) ==
    /\ x \in Nat /\ x <= Num + 1
    /\ x <= Num => x > k /\ read[x].kind = kind
    /\ \A j \in k + 1 .. x - 1 : read[j].kind # kind

LEMMA AfterOf ==
  ASSUME NEW kind, NEW k \in Nat, k <= Num + 1, Num \in Nat, NEW x, IsAfter(kind, k, x)
  PROVE  Map!After(kind, k) = x
<1> DEFINE S == {j \in k + 1 .. Num : read[j].kind = kind} \cup {Num + 1}
<1>1. S \in SUBSET Int OBVIOUS
<1>2. x \in S /\ \A y \in S : x <= y BY DEF IsAfter
<1>3. Map!Min(S) = x BY <1>1, <1>2, MinIs
<1> QED BY <1>3 DEF Map!After, Num

LEMMA AfterIs ==
  ASSUME NEW kind, NEW k \in Nat, k <= Num + 1, Num \in Nat
  PROVE  IsAfter(kind, k, Map!After(kind, k))
<1> DEFINE S == {j \in k + 1 .. Num : read[j].kind = kind} \cup {Num + 1}
<1>1. S \in SUBSET Nat /\ S # {} OBVIOUS
<1>2. PICK x \in S : \A y \in S : x <= y BY <1>1, LeastNatural
<1>3. IsAfter(kind, k, x) BY <1>2 DEF IsAfter
<1> QED BY <1>3, AfterOf

(* A line more.                                                            *)
Reads(line) ==
    /\ read' = Append(read, line) /\ Num' = Num + 1
    /\ \A j \in 1 .. Num : read'[j] = read[j]
    /\ read'[Num + 1] = line

LEMMA AfterNext ==
  ASSUME NEW kind, NEW k \in Nat, k <= Num + 1, Num \in Nat, NEW line, Reads(line)
  PROVE  /\ Map!After(kind, k) <= Num => Map!After(kind, k)' = Map!After(kind, k)
         /\ Map!After(kind, k) = Num + 1 =>
              Map!After(kind, k)' = IF line.kind = kind /\ k <= Num THEN Num + 1 ELSE Num + 2
<1>1. PICK x : x = Map!After(kind, k) OBVIOUS
<1>2. IsAfter(kind, k, x) /\ x \in Nat /\ x <= Num + 1 BY <1>1, AfterIs DEF IsAfter
<1>3. PICK n : n = Num OBVIOUS
<1>4. /\ Num' = n + 1 /\ n \in Nat /\ \A j \in 1 .. n : read'[j] = read[j]
      /\ read'[n + 1] = line
  BY <1>3 DEF Reads
<1>5. ASSUME NEW y \in Nat, y <= n + 2, y <= n + 1 => y > k /\ read'[y].kind = kind,
             \A j \in k + 1 .. y - 1 : read'[j].kind # kind
      PROVE  Map!After(kind, k)' = y
  <2> DEFINE S == {j \in k + 1 .. n + 1 : read'[j].kind = kind} \cup {n + 2}
  <2>1. S \in SUBSET Int BY <1>4
  <2>2. y \in S /\ \A z \in S : y <= z BY <1>4, <1>5
  <2>3. Map!Min(S) = y BY <2>1, <2>2, MinIs
  <2>4. Map!After(kind, k)' = Map!Min(S) BY <1>4 DEF Map!After, Num, Map!Min
  <2> QED BY <2>3, <2>4
<1>6. CASE x <= Num
  <2>1. x <= n /\ x > k /\ read[x].kind = kind /\ \A j \in k + 1 .. x - 1 : read[j].kind # kind
    BY <1>2, <1>3, <1>6 DEF IsAfter
  <2>2. x \in 1 .. n /\ \A j \in k + 1 .. x - 1 : j \in 1 .. n BY <1>2, <1>4, <2>1
  <2>3. Map!After(kind, k)' = x BY <1>2, <1>4, <1>5, <2>1, <2>2
  <2> QED BY <1>1, <1>2, <1>6, <2>3
<1>7. CASE x = Num + 1
  <2>1. x = n + 1 /\ \A j \in k + 1 .. n : read[j].kind # kind
    BY <1>2, <1>3, <1>4, <1>7 DEF IsAfter
  <2>2. \A j \in k + 1 .. n : j \in 1 .. n BY <1>4
  <2>3. CASE line.kind = kind /\ k <= Num
    <3>1. Map!After(kind, k)' = n + 1 BY <1>3, <1>4, <1>5, <2>1, <2>2, <2>3
    <3> QED BY <1>1, <1>3, <1>4, <1>7, <2>3, <3>1
  <2>4. CASE ~(line.kind = kind /\ k <= Num)
    <3>1. \A j \in k + 1 .. n + 1 : read'[j].kind # kind
      BY <1>3, <1>4, <2>1, <2>2, <2>4
    <3>2. Map!After(kind, k)' = n + 2 BY <1>4, <1>5, <3>1
    <3> QED BY <1>1, <1>3, <1>4, <1>7, <2>4, <3>2
  <2> QED BY <2>3, <2>4
<1> QED BY <1>2, <1>4, <1>6, <1>7

(* Where the file's headers are, by the part that is being read.           *)
ModulesAt == Map!After("Modules list", 0)
SegmentsAt == Map!After("Segment list", ModulesAt)
ExportsAt == Map!After("Exports list by name", SegmentsAt)
ImportsAt == Map!After("Imports list", ExportsAt)
HeadersRead ==
    /\ part = "UNKNOWN" => ModulesAt = Num + 1
    /\ part = "MODULES_LIST" => ModulesAt <= Num /\ SegmentsAt = Num + 1
    /\ part = "SEGMENT_LIST" => SegmentsAt <= Num /\ ExportsAt = Num + 1
    /\ part = "EXPORTS_LIST" => ExportsAt <= Num /\ ImportsAt = Num + 1
    /\ part = "IMPORTS_LIST" => ImportsAt <= Num
MapTyped ==
    /\ part \in Map!Parts /\ read \in Seq(MapLines)
    /\ DOMAIN exports \subseteq 0 .. A - 1

LEMMA LineIs ==
  ASSUME NEW l \in MapLines
  PROVE  /\ l.kind \in Map!Headers \/ (l.kind = "entry" /\ l.entries \in {1, 2})
         /\ l.labels \in Seq(Map!LabelType)
         /\ \A k \in 1 .. Len(l.labels) : l.labels[k].name # "$" /\ l.labels[k].addr \in Int
         /\ Len(l.labels) \in Nat
<1>1. /\ l.kind \in Map!Headers \/ (l.kind = "entry" /\ l.entries \in {1, 2})
      /\ l.labels \in Seq(Map!LabelType)
  BY MapLinesAssumption DEF Map!LinesAssumption
<1>2. DOMAIN l.labels = 1 .. Len(l.labels) /\ Len(l.labels) \in Nat BY <1>1
<1>3. ASSUME NEW k \in 1 .. Len(l.labels) PROVE l.labels[k].name # "$" /\ l.labels[k].addr \in Int
  <2>1. l.labels[k] \in Map!LabelType BY <1>1, <1>2, ElementOf
  <2> QED BY <2>1 DEF Map!LabelType
<1> QED BY <1>1, <1>2, <1>3

LEMMA ReadsIs ==
  ASSUME MapTyped, NEW line \in MapLines, Map!Getline(line)
  PROVE  Reads(line) /\ Num \in Nat /\ read' \in Seq(MapLines)
<1>1. read \in Seq(MapLines) /\ read' = Append(read, line) BY DEF MapTyped, Map!Getline
<1> QED BY <1>1 DEF Reads, Num

LEMMA HeadersAre ==
  ASSUME Num \in Nat
  PROVE  /\ ModulesAt \in Nat /\ SegmentsAt \in Nat /\ ExportsAt \in Nat /\ ImportsAt \in Nat
         /\ ModulesAt <= Num + 1 /\ SegmentsAt <= Num + 1
         /\ ExportsAt <= Num + 1 /\ ImportsAt <= Num + 1
         /\ ModulesAt = Num + 1 => SegmentsAt = Num + 1
         /\ SegmentsAt = Num + 1 => ExportsAt = Num + 1
         /\ ExportsAt = Num + 1 => ImportsAt = Num + 1
<1>1. IsAfter("Modules list", 0, ModulesAt)
  <2>1. PICK z \in Nat : z = 0 /\ z <= Num + 1 OBVIOUS
  <2>2. IsAfter("Modules list", z, Map!After("Modules list", z)) BY <2>1, AfterIs
  <2> QED BY <2>1, <2>2 DEF ModulesAt
<1>2. IsAfter("Segment list", ModulesAt, SegmentsAt) BY <1>1, AfterIs DEF SegmentsAt, IsAfter
<1>3. IsAfter("Exports list by name", SegmentsAt, ExportsAt) BY <1>2, AfterIs DEF ExportsAt, IsAfter
<1>4. IsAfter("Imports list", ExportsAt, ImportsAt) BY <1>3, AfterIs DEF ImportsAt, IsAfter
<1>5. /\ ModulesAt \in Nat /\ SegmentsAt \in Nat /\ ExportsAt \in Nat /\ ImportsAt \in Nat
      /\ ModulesAt <= Num + 1 /\ SegmentsAt <= Num + 1
      /\ ExportsAt <= Num + 1 /\ ImportsAt <= Num + 1
  BY <1>1, <1>2, <1>3, <1>4 DEF IsAfter
<1>6. ModulesAt = Num + 1 => SegmentsAt = Num + 1
  <2>1. PICK k, x : k = ModulesAt /\ x = SegmentsAt OBVIOUS
  <2>2. x <= Num => x > k BY <1>2, <2>1 DEF IsAfter
  <2>3. x <= Num + 1 /\ x \in Nat BY <1>5, <2>1
  <2> QED BY <2>1, <2>2, <2>3
<1>7. SegmentsAt = Num + 1 => ExportsAt = Num + 1
  <2>1. PICK k, x : k = SegmentsAt /\ x = ExportsAt OBVIOUS
  <2>2. x <= Num => x > k BY <1>3, <2>1 DEF IsAfter
  <2>3. x <= Num + 1 /\ x \in Nat BY <1>5, <2>1
  <2> QED BY <2>1, <2>2, <2>3
<1>8. ExportsAt = Num + 1 => ImportsAt = Num + 1
  <2>1. PICK k, x : k = ExportsAt /\ x = ImportsAt OBVIOUS
  <2>2. x <= Num => x > k BY <1>4, <2>1 DEF IsAfter
  <2>3. x <= Num + 1 /\ x \in Nat BY <1>5, <2>1
  <2> QED BY <2>1, <2>2, <2>3
<1> QED BY <1>5, <1>6, <1>7, <1>8

(* Each header stays where it is; a line is the next one looked for, and   *)
(* only that, if it has its kind.                                          *)
Goes(at, next, kind, behind, line) ==
    /\ at <= Num => next = at
    /\ at = Num + 1 => next = IF line.kind = kind /\ behind <= Num THEN Num + 1 ELSE Num + 2
LEMMA GoesOn ==
  ASSUME Num \in Nat, NEW line, Reads(line), NEW kind, NEW k \in Nat, k <= Num + 1,
         NEW m, k <= Num => m = k, k = Num + 1 => m \in {Num + 1, Num + 2}
  PROVE  Goes(Map!After(kind, k), Map!After(kind, m)', kind, k, line)
<1>1. PICK n : n = Num OBVIOUS
<1>2. Num' = n + 1 /\ n \in Nat BY <1>1 DEF Reads
<1>3. CASE k <= Num
  BY <1>3, AfterNext DEF Goes
<1>4. CASE k = Num + 1
  <2>1. Map!After(kind, k) = Num + 1
    <3>1. IsAfter(kind, k, Map!After(kind, k)) BY AfterIs
    <3> QED BY <1>4, <3>1 DEF IsAfter
  <2>2. Map!After(kind, m)' = n + 2
    <3> DEFINE S == {j \in m + 1 .. n + 1 : read'[j].kind = kind} \cup {n + 2}
    <3>1. S = {n + 2} BY <1>1, <1>2, <1>4
    <3>2. Map!Min(S) = n + 2 BY <1>2, <3>1, MinIs
    <3>3. Map!After(kind, m)' = Map!Min(S) BY <1>2 DEF Map!After, Num, Map!Min
    <3> QED BY <3>2, <3>3
  <2> QED BY <1>1, <1>2, <1>4, <2>1, <2>2 DEF Goes
<1> QED BY <1>3, <1>4

LEMMA HeadersNext ==
  ASSUME Num \in Nat, NEW line, Reads(line)
  PROVE  /\ Goes(ModulesAt, ModulesAt', "Modules list", 0, line)
         /\ Goes(SegmentsAt, SegmentsAt', "Segment list", ModulesAt, line)
         /\ Goes(ExportsAt, ExportsAt', "Exports list by name", SegmentsAt, line)
         /\ Goes(ImportsAt, ImportsAt', "Imports list", ExportsAt, line)
<1>1. /\ ModulesAt \in Nat /\ SegmentsAt \in Nat /\ ExportsAt \in Nat
      /\ ModulesAt <= Num + 1 /\ SegmentsAt <= Num + 1 /\ ExportsAt <= Num + 1
  BY HeadersAre
<1>2. Goes(ModulesAt, ModulesAt', "Modules list", 0, line)
  <2>1. PICK z \in Nat : z = 0 /\ z <= Num + 1 OBVIOUS
  <2>2. Goes(Map!After("Modules list", z), Map!After("Modules list", z)', "Modules list", z, line)
    BY <2>1, GoesOn
  <2> QED BY <2>1, <2>2 DEF ModulesAt
<1>3. Goes(SegmentsAt, SegmentsAt', "Segment list", ModulesAt, line)
  <2>1. PICK k, m : k = ModulesAt /\ m = ModulesAt' OBVIOUS
  <2>2. (k <= Num => m = k) /\ (k = Num + 1 => m \in {Num + 1, Num + 2}) BY <1>2, <2>1 DEF Goes
  <2>3. Goes(Map!After("Segment list", k), Map!After("Segment list", m)', "Segment list", k, line)
    BY <1>1, <2>1, <2>2, GoesOn
  <2> QED BY <2>1, <2>3 DEF SegmentsAt
<1>4. Goes(ExportsAt, ExportsAt', "Exports list by name", SegmentsAt, line)
  <2>1. PICK k, m : k = SegmentsAt /\ m = SegmentsAt' OBVIOUS
  <2>2. (k <= Num => m = k) /\ (k = Num + 1 => m \in {Num + 1, Num + 2}) BY <1>3, <2>1 DEF Goes
  <2>3. Goes(Map!After("Exports list by name", k), Map!After("Exports list by name", m)',
             "Exports list by name", k, line)
    BY <1>1, <2>1, <2>2, GoesOn
  <2> QED BY <2>1, <2>3 DEF ExportsAt
<1>5. Goes(ImportsAt, ImportsAt', "Imports list", ExportsAt, line)
  <2>1. PICK k, m : k = ExportsAt /\ m = ExportsAt' OBVIOUS
  <2>2. (k <= Num => m = k) /\ (k = Num + 1 => m \in {Num + 1, Num + 2}) BY <1>4, <2>1 DEF Goes
  <2>3. Goes(Map!After("Imports list", k), Map!After("Imports list", m)', "Imports list", k, line)
    BY <1>1, <2>1, <2>2, GoesOn
  <2> QED BY <2>1, <2>3 DEF ImportsAt
<1> QED BY <1>2, <1>3, <1>4, <1>5

(* The part that is read follows the headers.                              *)
LEMMA FollowsAre ==
  /\ Map!Follows["UNKNOWN"][1] = "Modules list" /\ Map!Follows["UNKNOWN"][2] = "MODULES_LIST"
  /\ Map!Follows["MODULES_LIST"][1] = "Segment list"
  /\ Map!Follows["MODULES_LIST"][2] = "SEGMENT_LIST"
  /\ Map!Follows["SEGMENT_LIST"][1] = "Exports list by name"
  /\ Map!Follows["SEGMENT_LIST"][2] = "EXPORTS_LIST"
  /\ Map!Follows["EXPORTS_LIST"][1] = "Imports list"
  /\ Map!Follows["EXPORTS_LIST"][2] = "IMPORTS_LIST"
  /\ Map!Follows["IMPORTS_LIST"][1] = "" /\ Map!Follows["IMPORTS_LIST"][2] = ""
BY DEF Map!Follows

Advances(line) ==
    \/ Map!BeginsPart(line)
    \/ line.kind # Map!Follows[part][1] /\ part' = part

LEMMA PartsNext ==
  ASSUME MapTyped, HeadersRead, NEW line \in MapLines, Map!Getline(line), Advances(line)
  PROVE  /\ part' \in Map!Parts /\ HeadersRead'
         /\ part \in {"UNKNOWN", "MODULES_LIST", "SEGMENT_LIST"} =>
              /\ ExportsAt = Num + 1 /\ ImportsAt = Num + 1
              /\ ExportsAt' \in {Num + 1, Num + 2} /\ ImportsAt' = Num + 2
         /\ part = "EXPORTS_LIST" =>
              /\ ExportsAt <= Num /\ ImportsAt = Num + 1 /\ ExportsAt' = ExportsAt
              /\ ImportsAt' = IF line.kind = "Imports list" THEN Num + 1 ELSE Num + 2
         /\ part = "IMPORTS_LIST" =>
              ExportsAt' = ExportsAt /\ ImportsAt' = ImportsAt /\ ImportsAt <= Num
<1>1. Reads(line) /\ Num \in Nat BY ReadsIs
<1>2. PICK n, m, s, e, i :
        n = Num /\ m = ModulesAt /\ s = SegmentsAt /\ e = ExportsAt /\ i = ImportsAt
  OBVIOUS
<1>3. PICK m1, s1, e1, i1 :
        m1 = ModulesAt' /\ s1 = SegmentsAt' /\ e1 = ExportsAt' /\ i1 = ImportsAt'
  OBVIOUS
<1>4. /\ n \in Nat /\ m \in Nat /\ s \in Nat /\ e \in Nat /\ i \in Nat
      /\ m <= n + 1 /\ s <= n + 1 /\ e <= n + 1 /\ i <= n + 1
      /\ m = n + 1 => s = n + 1
      /\ s = n + 1 => e = n + 1
      /\ e = n + 1 => i = n + 1
  BY <1>1, <1>2, HeadersAre
<1>5. /\ m <= n => m1 = m
      /\ m = n + 1 => m1 = IF line.kind = "Modules list" THEN n + 1 ELSE n + 2
      /\ s <= n => s1 = s
      /\ s = n + 1 => s1 = IF line.kind = "Segment list" /\ m <= n THEN n + 1 ELSE n + 2
      /\ e <= n => e1 = e
      /\ e = n + 1 => e1 = IF line.kind = "Exports list by name" /\ s <= n THEN n + 1 ELSE n + 2
      /\ i <= n => i1 = i
      /\ i = n + 1 => i1 = IF line.kind = "Imports list" /\ e <= n THEN n + 1 ELSE n + 2
  <2>1. /\ Goes(m, m1, "Modules list", 0, line) /\ Goes(s, s1, "Segment list", m, line)
        /\ Goes(e, e1, "Exports list by name", s, line) /\ Goes(i, i1, "Imports list", e, line)
    BY <1>1, <1>2, <1>3, HeadersNext
  <2>2. /\ m <= n => m1 = m
        /\ m = n + 1 => m1 = IF line.kind = "Modules list" THEN n + 1 ELSE n + 2
    <3>1. PICK z : z = 0 /\ z <= Num BY <1>2, <1>4
    <3>2. Goes(m, m1, "Modules list", z, line) BY <2>1, <3>1
    <3> QED BY <1>2, <1>4, <3>1, <3>2 DEF Goes
  <2>3. /\ s <= n => s1 = s
        /\ s = n + 1 => s1 = IF line.kind = "Segment list" /\ m <= n THEN n + 1 ELSE n + 2
    BY <1>2, <1>4, <2>1 DEF Goes
  <2>4. /\ e <= n => e1 = e
        /\ e = n + 1 => e1 = IF line.kind = "Exports list by name" /\ s <= n THEN n + 1 ELSE n + 2
    BY <1>2, <1>4, <2>1 DEF Goes
  <2>5. /\ i <= n => i1 = i
        /\ i = n + 1 => i1 = IF line.kind = "Imports list" /\ e <= n THEN n + 1 ELSE n + 2
    BY <1>2, <1>4, <2>1 DEF Goes
  <2> QED BY <2>2, <2>3, <2>4, <2>5
<1>6. Num' = n + 1 BY <1>1, <1>2 DEF Reads
<1>7. line.kind # "" BY LineIs DEF Map!Headers
<1>8. \/ line.kind = Map!Follows[part][1] /\ part' = Map!Follows[part][2]
      \/ line.kind # Map!Follows[part][1] /\ part' = part
  BY DEF Advances, Map!BeginsPart
<1>9. part \in Map!Parts BY DEF MapTyped
<1>10. HeadersRead' <=>
         /\ part' = "UNKNOWN" => m1 = n + 2
         /\ part' = "MODULES_LIST" => m1 <= n + 1 /\ s1 = n + 2
         /\ part' = "SEGMENT_LIST" => s1 <= n + 1 /\ e1 = n + 2
         /\ part' = "EXPORTS_LIST" => e1 <= n + 1 /\ i1 = n + 2
         /\ part' = "IMPORTS_LIST" => i1 <= n + 1
  <2>1. Num' + 1 = n + 2 BY <1>4, <1>6
  <2> QED BY <1>3, <1>6, <2>1 DEF HeadersRead
<1>11. CASE part = "UNKNOWN"
  <2>1. m = n + 1 BY <1>2, <1>11 DEF HeadersRead
  <2>2. /\ part' = IF line.kind = "Modules list" THEN "MODULES_LIST" ELSE "UNKNOWN"
    BY <1>8, <1>11, FollowsAre
  <2>3. s = n + 1 /\ e = n + 1 /\ i = n + 1 /\ e1 = n + 2 /\ i1 = n + 2 /\ s1 = n + 2
    BY <1>4, <1>5, <2>1
  <2>4. HeadersRead' BY <1>4, <1>5, <1>10, <2>1, <2>2, <2>3
  <2> QED BY <1>2, <1>3, <1>11, <2>2, <2>3, <2>4 DEF Map!Parts
<1>12. CASE part = "MODULES_LIST"
  <2>1. m <= n /\ s = n + 1 BY <1>2, <1>12 DEF HeadersRead
  <2>2. /\ part' = IF line.kind = "Segment list" THEN "SEGMENT_LIST" ELSE "MODULES_LIST"
    BY <1>8, <1>12, FollowsAre
  <2>3. e = n + 1 /\ i = n + 1 /\ e1 = n + 2 /\ i1 = n + 2 /\ m1 = m
    BY <1>4, <1>5, <2>1
  <2>4. HeadersRead' BY <1>4, <1>5, <1>10, <2>1, <2>2, <2>3
  <2> QED BY <1>2, <1>3, <1>12, <2>2, <2>3, <2>4 DEF Map!Parts
<1>13. CASE part = "SEGMENT_LIST"
  <2>1. s <= n /\ e = n + 1 BY <1>2, <1>13 DEF HeadersRead
  <2>2. /\ part' = IF line.kind = "Exports list by name" THEN "EXPORTS_LIST" ELSE "SEGMENT_LIST"
    BY <1>8, <1>13, FollowsAre
  <2>3. i = n + 1 /\ e1 \in {n + 1, n + 2} /\ i1 = n + 2 /\ s1 = s
    BY <1>4, <1>5, <2>1
  <2>4. HeadersRead' BY <1>4, <1>5, <1>10, <2>1, <2>2, <2>3
  <2> QED BY <1>2, <1>3, <1>13, <2>1, <2>2, <2>3, <2>4 DEF Map!Parts
<1>14. CASE part = "EXPORTS_LIST"
  <2>1. e <= n /\ i = n + 1 BY <1>2, <1>14 DEF HeadersRead
  <2>2. /\ part' = IF line.kind = "Imports list" THEN "IMPORTS_LIST" ELSE "EXPORTS_LIST"
    BY <1>8, <1>14, FollowsAre
  <2>3. e1 = e /\ i1 = IF line.kind = "Imports list" THEN n + 1 ELSE n + 2
    BY <1>4, <1>5, <2>1
  <2>4. HeadersRead' BY <1>4, <1>5, <1>10, <2>1, <2>2, <2>3
  <2> QED BY <1>2, <1>3, <1>14, <2>1, <2>2, <2>3, <2>4 DEF Map!Parts
<1>15. CASE part = "IMPORTS_LIST"
  <2>1. i <= n BY <1>2, <1>15 DEF HeadersRead
  <2>2. part' = "IMPORTS_LIST" BY <1>7, <1>8, <1>15, FollowsAre
  <2>3. e <= n /\ e1 = e /\ i1 = i
    <3>1. e # n + 1 BY <1>4, <2>1
    <3>2. e <= n BY <1>4, <3>1
    <3> QED BY <1>5, <2>1, <3>2
  <2>4. HeadersRead' BY <1>4, <1>5, <1>10, <2>1, <2>2, <2>3
  <2> QED BY <1>2, <1>3, <1>15, <2>1, <2>2, <2>3, <2>4 DEF Map!Parts
<1> QED BY <1>9, <1>11, <1>12, <1>13, <1>14, <1>15 DEF Map!Parts

(* The names of a part of the file: those of the labels, the last of each  *)
(* address.                                                                *)
LabelIn(r, p) == r[p[1]].labels[p[2]]
PlacesIn(r, lo, hi) ==
    {p \in (lo .. hi) \X {1, 2} : Map!Matches(r[p[1]]) /\ p[2] <= Len(r[p[1]].labels)}
Earlier(q, p) == q[1] < p[1] \/ (q[1] = p[1] /\ q[2] <= p[2])
NamesOf(r, P, ex) ==
    /\ DOMAIN ex = {LabelIn(r, p).addr % A : p \in P}
    /\ \A a \in DOMAIN ex : \E p \in P :
         /\ LabelIn(r, p).addr % A = a /\ ex[a] = LabelIn(r, p).name
         /\ \A q \in P : LabelIn(r, q).addr % A = a => Earlier(q, p)

LEMMA AddLabel ==
  ASSUME NEW r, NEW P, NEW ex, NamesOf(r, P, ex), NEW q, \A p \in P : Earlier(p, q),
         q[1] \in Int, q[2] \in Int
  PROVE  NamesOf(r, P \cup {q}, Map!add_symbol(ex, LabelIn(r, q)))
<1> DEFINE l == LabelIn(r, q)
           new == Map!add_symbol(ex, l)
<1>1. PICK at : at = l.addr % A OBVIOUS
<1>2. /\ DOMAIN new = DOMAIN ex \cup {at} /\ new[at] = l.name
      /\ \A a \in DOMAIN ex : a # at => new[a] = ex[a]
  BY <1>1 DEF Map!add_symbol
<1>3. DOMAIN new = {LabelIn(r, p).addr % A : p \in P \cup {q}}
  BY <1>1, <1>2 DEF NamesOf
<1>4. Earlier(q, q) BY DEF Earlier
<1>5. ASSUME NEW a \in DOMAIN new
      PROVE  \E p \in P \cup {q} :
               /\ LabelIn(r, p).addr % A = a /\ new[a] = LabelIn(r, p).name
               /\ \A x \in P \cup {q} : LabelIn(r, x).addr % A = a => Earlier(x, p)
  <2>1. CASE a = at BY <1>1, <1>2, <1>4, <2>1
  <2>2. CASE a # at
    <3>1. a \in DOMAIN ex /\ new[a] = ex[a] BY <1>2, <2>2
    <3>2. PICK p \in P :
            /\ LabelIn(r, p).addr % A = a /\ ex[a] = LabelIn(r, p).name
            /\ \A x \in P : LabelIn(r, x).addr % A = a => Earlier(x, p)
      BY <3>1 DEF NamesOf
    <3>3. LabelIn(r, q).addr % A # a BY <1>1, <2>2
    <3> QED BY <3>1, <3>2, <3>3
  <2> QED BY <2>1, <2>2
<1> QED BY <1>3, <1>5 DEF NamesOf

(* Lines behind a part of the file do not change its names.                *)
LEMMA PlacesKept ==
  ASSUME Num \in Nat, NEW line, Reads(line), NEW lo \in Nat \ {0}, NEW hi \in Int, hi <= Num
  PROVE  /\ PlacesIn(read, lo, hi)' = PlacesIn(read, lo, hi)
         /\ \A ex : NamesOf(read, PlacesIn(read, lo, hi), ex) =>
                      NamesOf(read', PlacesIn(read, lo, hi), ex)
<1>1. ASSUME NEW j \in lo .. hi PROVE read'[j] = read[j]
  <2>1. j \in 1 .. Num OBVIOUS
  <2> QED BY <2>1 DEF Reads
<1>2. \A p \in (lo .. hi) \X {1, 2} : read'[p[1]] = read[p[1]] BY <1>1
<1>3. PlacesIn(read, lo, hi)' = PlacesIn(read, lo, hi)
  BY <1>2 DEF PlacesIn, Map!Matches
<1>4. \A p \in PlacesIn(read, lo, hi) : LabelIn(read', p) = LabelIn(read, p)
  BY <1>2 DEF PlacesIn, LabelIn
<1>5. ASSUME NEW ex, NamesOf(read, PlacesIn(read, lo, hi), ex)
      PROVE  NamesOf(read', PlacesIn(read, lo, hi), ex)
  <2>1. PICK P : P = PlacesIn(read, lo, hi) OBVIOUS
  <2> QED BY <1>4, <1>5, <2>1 DEF NamesOf
<1> QED BY <1>3, <1>5

MapInv == MapTyped /\ HeadersRead /\ NamesOf(read, Map!Places, exports)

LEMMA PlacesAre == Map!Places = PlacesIn(read, ExportsAt + 1, ImportsAt - 1)
BY DEF Map!Places, Map!Section, Map!ExportsBegin, PlacesIn, ExportsAt, SegmentsAt,
       ModulesAt, ImportsAt

LEMMA PlacesMore ==
  ASSUME Num \in Nat, NEW line, Reads(line), NEW lo \in Nat \ {0}, lo <= Num + 1
  PROVE  /\ PlacesIn(read', lo, Num + 1) =
              PlacesIn(read, lo, Num)
                \cup {p \in {Num + 1} \X {1, 2} : Map!Matches(line) /\ p[2] <= Len(line.labels)}
         /\ \A p \in PlacesIn(read, lo, Num) : p[1] <= Num /\ p[1] \in Int
<1>1. PICK n : n = Num /\ n \in Nat OBVIOUS
<1>2. read'[n + 1] = line /\ \A j \in lo .. n : read'[j] = read[j]
  <2>1. \A j \in lo .. n : j \in 1 .. n OBVIOUS
  <2> QED BY <1>1, <2>1 DEF Reads
<1>3. lo .. n + 1 = (lo .. n) \cup {n + 1} /\ n + 1 \notin lo .. n BY <1>1
<1>4. ASSUME NEW p
      PROVE  p \in PlacesIn(read', lo, n + 1) <=>
               \/ p \in PlacesIn(read, lo, n)
               \/ p \in {n + 1} \X {1, 2} /\ Map!Matches(line) /\ p[2] <= Len(line.labels)
  <2>1. CASE p \in (lo .. n) \X {1, 2}
    <3>1. p[1] \in lo .. n /\ p \notin {n + 1} \X {1, 2} /\ p \in (lo .. n + 1) \X {1, 2}
      BY <1>3, <2>1
    <3>2. read'[p[1]] = read[p[1]] BY <1>2, <3>1
    <3> QED BY <2>1, <3>1, <3>2 DEF PlacesIn
  <2>2. CASE p \in {n + 1} \X {1, 2}
    <3>1. p[1] = n + 1 /\ p \notin (lo .. n) \X {1, 2} /\ p \in (lo .. n + 1) \X {1, 2}
      BY <1>3, <2>2
    <3>2. read'[p[1]] = line BY <1>2, <3>1
    <3> QED BY <2>2, <3>1, <3>2 DEF PlacesIn
  <2>3. CASE p \notin (lo .. n) \X {1, 2} /\ p \notin {n + 1} \X {1, 2}
    <3>1. p \notin (lo .. n + 1) \X {1, 2} BY <1>3, <2>3
    <3> QED BY <2>3, <3>1 DEF PlacesIn
  <2> QED BY <2>1, <2>2, <2>3
<1>5. PlacesIn(read', lo, n + 1) =
        PlacesIn(read, lo, n)
          \cup {p \in {n + 1} \X {1, 2} : Map!Matches(line) /\ p[2] <= Len(line.labels)}
  BY <1>4
<1>6. \A p \in PlacesIn(read, lo, n) : p[1] <= n /\ p[1] \in Int BY <1>1 DEF PlacesIn
<1> QED BY <1>1, <1>5, <1>6

LEMMA PlacesNext == Map!Places' = PlacesIn(read', ExportsAt' + 1, ImportsAt' - 1)
BY DEF Map!Places, Map!Section, Map!ExportsBegin, PlacesIn, ExportsAt, SegmentsAt, ModulesAt,
       ImportsAt, Map!Matches

LEMMA NoPlaces ==
  ASSUME NEW r, NEW lo \in Int, NEW hi \in Int, hi < lo
  PROVE  PlacesIn(r, lo, hi) = {}
<1>1. lo .. hi = {} OBVIOUS
<1> QED BY <1>1 DEF PlacesIn

LEMMA LineBefore ==
  ASSUME NEW n \in Nat, NEW x
  PROVE  (x = n + 1 => x - 1 = n) /\ (x = n + 2 => x - 1 = n + 1)
OBVIOUS

(* Headers and skipped lines add no place, and lines of the list theirs.   *)
LEMMA PlacesAfter ==
  ASSUME MapTyped, HeadersRead, NEW line \in MapLines, Map!Getline(line), Advances(line)
  PROVE  LET more == {p \in {Num + 1} \X {1, 2} : Map!Matches(line) /\ p[2] <= Len(line.labels)}
         IN  /\ Map!Places' = IF part = "EXPORTS_LIST" /\ line.kind # "Imports list"
                              THEN Map!Places \cup more ELSE Map!Places
             /\ \A ex : NamesOf(read, Map!Places, ex) => NamesOf(read', Map!Places, ex)
             /\ part = "EXPORTS_LIST" => \A p \in Map!Places : p[1] \in Int /\ p[1] <= Num
<1> DEFINE more == {p \in {Num + 1} \X {1, 2} : Map!Matches(line) /\ p[2] <= Len(line.labels)}
<1>1. Reads(line) /\ Num \in Nat BY ReadsIs
<1>2. PICK n, e, i : n = Num /\ e = ExportsAt /\ i = ImportsAt OBVIOUS
<1>3. PICK e1, i1 : e1 = ExportsAt' /\ i1 = ImportsAt' OBVIOUS
<1>4. n \in Nat /\ e \in Nat /\ i \in Nat /\ e <= n + 1 /\ i <= n + 1 BY <1>1, <1>2, HeadersAre
<1>5. Map!Places = PlacesIn(read, e + 1, i - 1) /\ Map!Places' = PlacesIn(read', e1 + 1, i1 - 1)
  BY <1>2, <1>3, PlacesAre, PlacesNext
<1>6. CASE part \in {"UNKNOWN", "MODULES_LIST", "SEGMENT_LIST"}
  <2>1. e = n + 1 /\ i = n + 1 /\ e1 \in {n + 1, n + 2} /\ i1 = n + 2
    BY <1>2, <1>3, <1>6, PartsNext
  <2>2. Map!Places = {} /\ Map!Places' = {} BY <1>4, <1>5, <2>1, NoPlaces
  <2>3. ASSUME NEW ex, NamesOf(read, {}, ex) PROVE NamesOf(read', {}, ex)
    <3>1. DOMAIN ex = {} BY <2>3 DEF NamesOf
    <3> QED BY <3>1 DEF NamesOf
  <2> QED BY <1>6, <2>2, <2>3
<1>7. CASE part = "EXPORTS_LIST"
  <2>0. e <= n /\ i = n + 1 /\ e1 = e BY <1>2, <1>3, <1>7, PartsNext
  <2>1. /\ line.kind = "Imports list" => i1 = n + 1
        /\ line.kind # "Imports list" => i1 = n + 2
    BY <1>2, <1>3, <1>7, PartsNext
  <2>2. Map!Places = PlacesIn(read, e + 1, n)
    <3>1. i - 1 = n BY <1>4, <2>0
    <3> QED BY <1>5, <3>1
  <2>3. e + 1 \in Nat \ {0} /\ e + 1 <= n + 1 BY <1>4, <2>0
  <2>4. /\ PlacesIn(read', e + 1, n) = PlacesIn(read, e + 1, n)
        /\ \A ex : NamesOf(read, Map!Places, ex) => NamesOf(read', Map!Places, ex)
    <3>1. n \in Int /\ n <= Num BY <1>2, <1>4
    <3> HIDE <1>2
    <3>2. /\ PlacesIn(read, e + 1, n)' = PlacesIn(read, e + 1, n)
          /\ \A ex : NamesOf(read, PlacesIn(read, e + 1, n), ex) =>
                       NamesOf(read', PlacesIn(read, e + 1, n), ex)
      BY <1>1, <2>3, <3>1, PlacesKept
    <3> QED BY <2>2, <3>2 DEF PlacesIn, Map!Matches
  <2>5. /\ PlacesIn(read', e + 1, n + 1) = PlacesIn(read, e + 1, n) \cup more
        /\ \A p \in PlacesIn(read, e + 1, n) : p[1] <= n /\ p[1] \in Int
    BY <1>1, <1>2, <2>3, PlacesMore
  <2>6. Map!Places' = IF line.kind = "Imports list" THEN PlacesIn(read', e + 1, n)
                      ELSE PlacesIn(read', e + 1, n + 1)
    <3>1. /\ line.kind = "Imports list" => i1 - 1 = n
          /\ line.kind # "Imports list" => i1 - 1 = n + 1
      BY ONLY <1>4, <2>1, LineBefore
    <3> QED BY <1>5, <2>0, <3>1
  <2> QED BY <1>2, <1>7, <2>2, <2>4, <2>5, <2>6
<1>8. CASE part = "IMPORTS_LIST"
  <2>1. e1 = e /\ i1 = i /\ i <= n BY <1>2, <1>3, <1>8, PartsNext
  <2>2. e + 1 \in Nat \ {0} /\ i - 1 \in Int /\ i - 1 <= Num BY <1>2, <1>4, <2>1
  <2>3. /\ PlacesIn(read, e + 1, i - 1)' = PlacesIn(read, e + 1, i - 1)
        /\ \A ex : NamesOf(read, PlacesIn(read, e + 1, i - 1), ex) =>
                     NamesOf(read', PlacesIn(read, e + 1, i - 1), ex)
    BY <1>1, <2>2, PlacesKept
  <2>4. PlacesIn(read', e + 1, i - 1) = PlacesIn(read, e + 1, i - 1)
    BY <2>3 DEF PlacesIn, Map!Matches
  <2> QED BY <1>5, <1>8, <2>1, <2>3, <2>4
<1> QED BY <1>6, <1>7, <1>8 DEF MapTyped, Map!Parts

(* Reading a line of the map file keeps the names.                         *)
LEMMA AddOne ==
  ASSUME NEW r, NEW P, NEW ex, NamesOf(r, P, ex), DOMAIN ex \subseteq 0 .. A - 1,
         NEW n \in Nat, \A p \in P : p[1] \in Int /\ p[1] < n,
         NEW x, LabelIn(r, <<n, 1>>) = x, x.addr \in Int,
         NEW new, new = Map!add_symbol(ex, x)
  PROVE  NamesOf(r, P \cup {<<n, 1>>}, new) /\ DOMAIN new \subseteq 0 .. A - 1
<1> DEFINE q == <<n, 1>>
<1>1. q[1] = n /\ q[2] = 1 /\ LabelIn(r, q) = x OBVIOUS
<1>2. \A p \in P : Earlier(p, q) BY <1>1 DEF Earlier
<1>3. NamesOf(r, P \cup {q}, Map!add_symbol(ex, LabelIn(r, q)))
  BY <1>1, <1>2, AddLabel
<1>4. x.addr % A \in 0 .. A - 1 BY MapLinesAssumption, QuotientOf DEF Map!LinesAssumption
<1> QED BY <1>1, <1>3, <1>4 DEF Map!add_symbol

LEMMA AddTwo ==
  ASSUME NEW r, NEW P, NEW ex, NamesOf(r, P, ex), DOMAIN ex \subseteq 0 .. A - 1,
         NEW n \in Nat, \A p \in P : p[1] \in Int /\ p[1] < n,
         NEW x, LabelIn(r, <<n, 1>>) = x, x.addr \in Int,
         NEW y, LabelIn(r, <<n, 2>>) = y, y.addr \in Int,
         NEW new, new = Map!add_symbol(Map!add_symbol(ex, x), y)
  PROVE  NamesOf(r, P \cup {<<n, 1>>, <<n, 2>>}, new) /\ DOMAIN new \subseteq 0 .. A - 1
<1>1. PICK one : one = Map!add_symbol(ex, x) OBVIOUS
<1>2. NamesOf(r, P \cup {<<n, 1>>}, one) /\ DOMAIN one \subseteq 0 .. A - 1
  BY <1>1, AddOne
<1> DEFINE q == <<n, 2>>
           Q == P \cup {<<n, 1>>}
<1>3. q[1] = n /\ q[2] = 2 /\ LabelIn(r, q) = y OBVIOUS
<1>4. ASSUME NEW p \in Q PROVE Earlier(p, q)
  <2>1. CASE p \in P BY <1>3, <2>1 DEF Earlier
  <2>2. CASE p = <<n, 1>>
    <3>1. p[1] = n /\ p[2] = 1 BY <2>2
    <3> QED BY <1>3, <3>1 DEF Earlier
  <2> QED BY <2>1, <2>2
<1>5. NamesOf(r, Q \cup {q}, Map!add_symbol(one, LabelIn(r, q)))
  <2>1. q[1] \in Int /\ q[2] \in Int BY <1>3
  <2> HIDE DEF q, Q
  <2>2. NamesOf(r, Q, one) BY <1>2 DEF Q
  <2> QED BY <1>4, <2>1, <2>2, AddLabel
<1>6. y.addr % A \in 0 .. A - 1 BY MapLinesAssumption, QuotientOf DEF Map!LinesAssumption
<1>7. Q \cup {q} = P \cup {<<n, 1>>, <<n, 2>>} OBVIOUS
<1> QED BY <1>1, <1>2, <1>3, <1>5, <1>6, <1>7 DEF Map!add_symbol

LEMMA MapKeeps == MapInv /\ [Map!Next]_mapVars => MapInv'
<1> SUFFICES ASSUME MapInv, [Map!Next]_mapVars PROVE MapInv'
  OBVIOUS
<1>0. MapTyped /\ HeadersRead /\ NamesOf(read, Map!Places, exports) BY DEF MapInv
<1>1. ASSUME NEW line \in MapLines, Map!Getline(line), Advances(line), UNCHANGED exports,
             part = "EXPORTS_LIST" /\ line.kind # "Imports list" => ~Map!Matches(line)
      PROVE  MapInv'
  <2>1. HeadersRead' /\ part' \in Map!Parts /\ read' \in Seq(MapLines)
    BY <1>0, <1>1, PartsNext, ReadsIs
  <2>2. MapTyped' BY <1>0, <1>1, <2>1 DEF MapTyped
  <2>3. Map!Places' = Map!Places
    BY <1>0, <1>1, PlacesAfter
  <2>4. NamesOf(read', Map!Places, exports) BY <1>0, <1>1, PlacesAfter
  <2> QED BY <1>1, <2>1, <2>2, <2>3, <2>4 DEF MapInv, NamesOf, LabelIn, Earlier
<1>2. CASE Map!ReadHeader
  <2>1. PICK line \in MapLines : Map!Getline(line) /\ Map!BeginsPart(line) /\ UNCHANGED exports
    BY <1>2 DEF Map!ReadHeader
  <2>2. part = "EXPORTS_LIST" => line.kind = "Imports list"
    BY <2>1, FollowsAre DEF Map!BeginsPart
  <2> QED BY <1>1, <2>1, <2>2 DEF Advances
<1>3. CASE Map!SkipLine
  <2>1. PICK line \in MapLines :
          /\ line.kind # Map!Follows[part][1] /\ ~(part = "EXPORTS_LIST" /\ Map!Matches(line))
          /\ Map!Getline(line) /\ UNCHANGED <<part, exports>>
    BY <1>3 DEF Map!SkipLine
  <2> QED BY <1>1, <2>1 DEF Advances
<1>4. CASE Map!ReadExports
  <2>1. PICK line \in MapLines :
          /\ part = "EXPORTS_LIST" /\ Map!Matches(line) /\ Map!Getline(line)
          /\ exports' = IF Len(line.labels) = 1 THEN Map!add_symbol(exports, line.labels[1])
                        ELSE Map!add_symbol(Map!add_symbol(exports, line.labels[1]), line.labels[2])
          /\ UNCHANGED part
    BY <1>4 DEF Map!ReadExports
  <2>2. /\ line.kind = "entry" /\ Len(line.labels) = line.entries /\ line.entries \in {1, 2}
        /\ \A k \in 1 .. Len(line.labels) : line.labels[k].addr \in Int
        /\ Len(line.labels) \in Nat
    BY <2>1, LineIs DEF Map!Matches, Map!Headers
  <2>3. Advances(line)
    <3>1. line.kind # "Imports list" BY <2>2
    <3> QED BY <2>1, <3>1, FollowsAre DEF Advances
  <2>4. HeadersRead' /\ part' \in Map!Parts /\ read' \in Seq(MapLines)
    BY <1>0, <2>1, <2>3, PartsNext, ReadsIs
  <2>5. Reads(line) /\ Num \in Nat BY <1>0, <2>1, ReadsIs
  <2>6. PICK n : n = Num + 1 OBVIOUS
  <2>7. n \in Nat /\ read'[n] = line
    <3>1. read'[Num + 1] = line BY <2>5 DEF Reads
    <3> QED BY <2>5, <2>6, <3>1
  <2>8. PICK P, r : P = Map!Places /\ r = read' OBVIOUS
  <2>9. NamesOf(r, P, exports) /\ \A p \in P : p[1] \in Int /\ p[1] < n
    <3>1. NamesOf(read', Map!Places, exports) /\ \A p \in Map!Places : p[1] \in Int /\ p[1] <= Num
      BY <1>0, <2>1, <2>3, PlacesAfter
    <3> QED BY <2>5, <2>6, <2>8, <3>1
  <2>10. Map!Places' = P \cup {p \in {n} \X {1, 2} : p[2] <= Len(line.labels)}
    <3>1. line.kind # "Imports list" BY <2>2
    <3> QED BY <1>0, <2>1, <2>3, <2>6, <2>8, <3>1, PlacesAfter
  <2>11. PICK new : new = exports' OBVIOUS
  <2>12. NamesOf(r, Map!Places', new) /\ DOMAIN new \subseteq 0 .. A - 1
    <3>1. DOMAIN exports \subseteq 0 .. A - 1 BY <1>0 DEF MapTyped
    <3>2. \A k \in {1, 2} : LabelIn(r, <<n, k>>) = line.labels[k] BY <2>7, <2>8 DEF LabelIn
    <3>3. PICK x, y : x = line.labels[1] /\ y = line.labels[2] OBVIOUS
    <3>4. LabelIn(r, <<n, 1>>) = x /\ LabelIn(r, <<n, 2>>) = y BY <3>2, <3>3
    <3>5. PICK ex : ex = exports OBVIOUS
    <3>6. CASE Len(line.labels) = 1
      <4>1. {p \in {n} \X {1, 2} : p[2] <= Len(line.labels)} = {<<n, 1>>} BY <3>6
      <4>2. new = Map!add_symbol(ex, x) BY <2>1, <2>11, <3>3, <3>5, <3>6
      <4>3. x.addr \in Int BY <2>2, <3>3, <3>6
      <4>4. NamesOf(r, P \cup {<<n, 1>>}, new) /\ DOMAIN new \subseteq 0 .. A - 1
        BY <2>7, <2>9, <3>1, <3>4, <3>5, <4>2, <4>3, AddOne
      <4> QED BY <2>10, <4>1, <4>4
    <3>7. CASE Len(line.labels) = 2
      <4>1. {p \in {n} \X {1, 2} : p[2] <= Len(line.labels)} = {<<n, 1>>, <<n, 2>>} BY <3>7
      <4>2. new = Map!add_symbol(Map!add_symbol(ex, x), y) BY <2>1, <2>11, <3>3, <3>5, <3>7
      <4>3. x.addr \in Int /\ y.addr \in Int BY <2>2, <3>3, <3>7
      <4>4. NamesOf(r, P \cup {<<n, 1>>, <<n, 2>>}, new) /\ DOMAIN new \subseteq 0 .. A - 1
        BY <2>7, <2>9, <3>1, <3>4, <3>5, <4>2, <4>3, AddTwo
      <4> QED BY <2>10, <4>1, <4>4
    <3> QED BY <2>2, <3>6, <3>7
  <2>13. MapTyped' BY <2>4, <2>11, <2>12 DEF MapTyped
  <2>14. NamesOf(read, Map!Places, exports)'
    BY <2>8, <2>11, <2>12 DEF NamesOf, LabelIn, Earlier
  <2> QED BY <2>4, <2>13, <2>14 DEF MapInv
<1>5. CASE UNCHANGED mapVars
  <2>1. part' = part /\ read' = read /\ exports' = exports BY <1>5 DEF mapVars
  <2>2. Num' = Num BY <2>1 DEF Num
  <2>3. \A kind, k : Map!After(kind, k)' = Map!After(kind, k) BY <2>1 DEF Map!After, Map!Min
  <2>4. /\ ModulesAt' = ModulesAt /\ SegmentsAt' = SegmentsAt /\ ExportsAt' = ExportsAt
        /\ ImportsAt' = ImportsAt
    BY <2>1, <2>3 DEF ModulesAt, SegmentsAt, ExportsAt, ImportsAt
  <2>5. HeadersRead' BY <1>0, <2>1, <2>2, <2>4 DEF HeadersRead
  <2>6. Map!Places' = Map!Places BY <2>1, <2>4, PlacesAre, PlacesNext
  <2>7. MapTyped' BY <1>0, <2>1 DEF MapTyped
  <2>8. NamesOf(read, Map!Places, exports)' BY <1>0, <2>1, <2>6 DEF NamesOf, LabelIn, Earlier
  <2> QED BY <2>5, <2>7, <2>8 DEF MapInv
<1> QED BY <1>2, <1>3, <1>4, <1>5 DEF Map!Next

(* What is found in the exports, and that they are those of the map file.  *)
LEMMA PlaceIs ==
  ASSUME MapTyped, NEW p \in Map!Places
  PROVE  LabelIn(read, p).name # "$"
<1>1. read \in Seq(MapLines) BY DEF MapTyped
<1>2. DOMAIN read = 1 .. Num /\ Num \in Nat BY <1>1 DEF Num
<1>3. ExportsAt \in Nat /\ ImportsAt \in Nat /\ ImportsAt <= Num + 1 BY <1>2, HeadersAre
<1>4. /\ p[1] \in ExportsAt + 1 .. ImportsAt - 1 /\ p[2] \in {1, 2}
      /\ Map!Matches(read[p[1]]) /\ p[2] <= Len(read[p[1]].labels)
  BY PlacesAre DEF PlacesIn
<1>5. p[1] \in DOMAIN read BY <1>2, <1>3, <1>4
<1>6. PICK line \in MapLines : line = read[p[1]] BY <1>1, <1>5, ElementOf
<1>7. p[2] \in 1 .. Len(line.labels) BY <1>4, <1>6, LineIs
<1> QED BY <1>6, <1>7, LineIs DEF LabelIn

LEMMA MapInit == Map!Init => MapInv
<1> SUFFICES ASSUME Map!Init PROVE MapInv
  OBVIOUS
<1>1. part = "UNKNOWN" /\ exports = Map!Empty /\ read = <<>> BY DEF Map!Init
<1>2. Num = 0 /\ Num \in Nat /\ DOMAIN exports = {} BY <1>1 DEF Num, Map!Empty
<1>3. MapTyped BY <1>1, <1>2 DEF MapTyped, Map!Parts
<1>4. ModulesAt = Num + 1 /\ ExportsAt \in Nat /\ ImportsAt = 1 /\ ExportsAt = 1
  <2>1. PICK x : x = ModulesAt OBVIOUS
  <2>2. IsAfter("Modules list", 0, x)
    <3>1. PICK z \in Nat : z = 0 /\ z <= Num + 1 BY <1>2
    <3>2. IsAfter("Modules list", z, Map!After("Modules list", z)) BY <1>2, <3>1, AfterIs
    <3> QED BY <2>1, <3>1, <3>2 DEF ModulesAt
  <2>3. x = 1
    <3>1. x \in Nat /\ x <= Num + 1 /\ (x <= Num => x > 0) BY <2>2 DEF IsAfter
    <3> QED BY <1>2, <3>1
  <2>4. ModulesAt = Num + 1 BY <1>2, <2>1, <2>3
  <2> QED BY <1>2, <2>4, HeadersAre
<1>5. HeadersRead BY <1>1, <1>4 DEF HeadersRead
<1>6. Map!Places = {} BY <1>4, PlacesAre, NoPlaces
<1>7. NamesOf(read, Map!Places, exports) BY <1>2, <1>6 DEF NamesOf
<1> QED BY <1>3, <1>5, <1>7 DEF MapInv

LEMMA NearestIsFound ==
  ASSUME MapTyped, NEW m \in Int
  PROVE  \/ Map!Below(m) = {} /\ Map!find_symbol(m) = [name |-> "$", plus |-> m]
         \/ \E a \in DOMAIN exports :
              /\ a <= m % A /\ \A b \in DOMAIN exports : b <= m % A => b <= a
              /\ a \in 0 .. A - 1
              /\ Map!find_symbol(m) = [name |-> exports[a], plus |-> m - a]
<1>1. A \in Nat \ {0} BY MapLinesAssumption DEF Map!LinesAssumption
<1>2. Map!Below(m) = {a \in DOMAIN exports : a <= m % A} BY DEF Map!Below
<1>3. Map!Below(m) \in SUBSET (0 .. A - 1) BY <1>2 DEF MapTyped
<1>4. CASE Map!Below(m) = {} BY <1>4 DEF Map!find_symbol
<1>5. CASE Map!Below(m) # {}
  <2>1. PICK a : a = Map!Max(Map!Below(m)) OBVIOUS
  <2>2. a \in Map!Below(m) /\ \A y \in Map!Below(m) : y <= a
    <3>1. PICK n : n = A - 1 OBVIOUS
    <3>2. n \in Nat BY <1>1, <3>1
    <3> QED BY <1>3, <1>5, <2>1, <3>1, <3>2, MaxIs
  <2>3. Map!find_symbol(m) = [name |-> exports[a], plus |-> m - a]
    BY <1>5, <2>1 DEF Map!find_symbol
  <2> QED BY <1>2, <1>3, <2>2, <2>3
<1> QED BY <1>4, <1>5

LEMMA MapFollows == MapInv => Map!TypeOK /\ Map!SymbolsFollowMap
<1> SUFFICES ASSUME MapInv PROVE Map!TypeOK /\ Map!SymbolsFollowMap
  OBVIOUS
<1>1. MapTyped /\ NamesOf(read, Map!Places, exports) BY DEF MapInv
<1>2. Map!TypeOK BY <1>1 DEF MapTyped, Map!TypeOK
<1>3. A \in Nat \ {0} /\ DOMAIN exports \subseteq 0 .. A - 1
  BY <1>1, MapLinesAssumption DEF Map!LinesAssumption, MapTyped
<1>4. Map!LastNamesOfSection
  BY <1>1 DEF NamesOf, LabelIn, Earlier, Map!LastNamesOfSection, Map!Label, Map!Named, Map!IsLast
<1>5. \A a \in DOMAIN exports : exports[a] # "$"
  BY <1>1, PlaceIs DEF NamesOf
<1>6. ASSUME NEW m \in -A .. 2 * A - 1, Map!find_symbol(m).name # "$"
      PROVE  \E a \in DOMAIN exports :
               exports[a] = Map!find_symbol(m).name /\ a + Map!find_symbol(m).plus = m
  <2>1. m \in Int BY <1>3
  <2>2. PICK a \in DOMAIN exports :
          a \in 0 .. A - 1 /\ Map!find_symbol(m) = [name |-> exports[a], plus |-> m - a]
    BY <1>1, <1>6, <2>1, NearestIsFound
  <2>3. a + (m - a) = m BY <2>1, <2>2
  <2> QED BY <2>2, <2>3
<1>7. ASSUME NEW m \in 0 .. A - 1
      PROVE  IF Map!find_symbol(m).name = "$" THEN DOMAIN exports \cap 0..m = {}
             ELSE /\ Map!find_symbol(m).plus >= 0
                  /\ DOMAIN exports \cap (m - Map!find_symbol(m).plus + 1) .. m = {}
  <2>1. m \in Int /\ m % A = m BY <1>3
  <2>2. CASE Map!Below(m) = {} /\ Map!find_symbol(m) = [name |-> "$", plus |-> m]
    <3>1. \A b \in DOMAIN exports : ~(b <= m) BY <2>1, <2>2 DEF Map!Below
    <3> QED BY <2>2, <3>1
  <2>3. CASE \E a \in DOMAIN exports :
               /\ a <= m % A /\ \A b \in DOMAIN exports : b <= m % A => b <= a
               /\ a \in 0 .. A - 1
               /\ Map!find_symbol(m) = [name |-> exports[a], plus |-> m - a]
    <3>1. PICK a \in DOMAIN exports :
            /\ a <= m /\ \A b \in DOMAIN exports : b <= m => b <= a
            /\ a \in 0 .. A - 1
            /\ Map!find_symbol(m) = [name |-> exports[a], plus |-> m - a]
      BY <2>1, <2>3
    <3>2. Map!find_symbol(m).name # "$" /\ Map!find_symbol(m).plus = m - a BY <1>5, <3>1
    <3>3. m - a >= 0 /\ m - (m - a) + 1 = a + 1 BY <2>1, <3>1
    <3>4. DOMAIN exports \cap (a + 1) .. m = {} BY <1>3, <3>1
    <3> QED BY <3>2, <3>3, <3>4
  <2> QED BY <1>1, <2>1, <2>2, <2>3, NearestIsFound
<1>8. Map!FindsNearest
  <2>1. PICK zero : zero = -A .. 2 * A - 1 OBVIOUS
  <2> QED BY <1>6, <1>7 DEF Map!FindsNearest
<1> QED BY <1>2, <1>4, <1>8 DEF Map!SymbolsFollowMap

-----------------------------------------------------------------------------
(* main and parse_map together.                                            *)
MainInv == LInv /\ MapInv

LEMMA LInit == Init => LInv
<1> SUFFICES ASSUME Init PROVE LInv
  OBVIOUS
<1>1. /\ argv \in CommandLines /\ arg = 1 /\ phase = "parse"
      /\ WholeRam = [a \in 0 .. RAMSIZE - 1 |-> 0] /\ MachineType = 1
      /\ load_addr = 0 /\ exec_addr = -1 /\ trace = FALSE /\ watchpoints = <<>>
      /\ shown = {} /\ told = <<>> /\ instructions = 0
  BY DEF Init
<1>2. DOMAIN argv = 1 .. Len(argv) /\ Len(argv) \in Nat BY <1>1, CommandLinesAssumption
<1>3. Typed
  <2>1. WholeRam \in [0 .. RAMSIZE - 1 -> 0 .. ByteSize - 1]
    <3>1. 0 \in 0 .. ByteSize - 1 BY ByteSizeAssumption
    <3> QED BY <1>1, <3>1
  <2>2. watchpoints \in Seq(RECORDS(Nat)) BY <1>1
  <2>3. arg \in 1 .. Len(argv) + 1 BY <1>1, <1>2
  <2>4. load_addr \in Nat /\ exec_addr \in Int /\ instructions \in Nat BY <1>1
  <2>5. MachineType \in {1, 3} /\ trace \in BOOLEAN /\ told = <<>> BY <1>1
  <2>6. \E T : watchpoints \in Seq(RECORDS(T)) BY <2>2
  <2> QED BY <1>1, <2>1, <2>3, <2>4, <2>5, <2>6 DEF Typed
<1>4. Parsed
  <2>1. \A opt : LastOf(opt, 1) = 0
    <3>1. 1 .. 1 - 1 = {} OBVIOUS
    <3> QED BY <3>1 DEF LastOf
  <2>2. load_addr = LoadedAt(arg) /\ exec_addr = ExecAt(arg) BY <1>1, <2>1 DEF LoadedAt, ExecAt
  <2>3. \A k \in Files : k >= 1 /\ k \in Int BY <1>2 DEF Files
  <2>4. \A a : Cover(arg, a) = {} BY <1>1, <2>3 DEF Cover, Covering
  <2>5. \A a \in DOMAIN WholeRam : WholeRam[a] = LastByte(Cover(arg, a)) BY <1>1, <2>4 DEF LastByte
  <2>6. \A k \in Files : ~(k < arg) BY <1>1, <2>3
  <2> QED BY <1>1, <2>2, <2>5, <2>6 DEF Parsed
<1> QED BY <1>1, <1>3, <1>4 DEF LInv

LEMMA LFollows == LInv => TypeOK /\ MemoryAsAsked
<1> SUFFICES ASSUME LInv PROVE TypeOK /\ MemoryAsAsked
  OBVIOUS
<1>1. DOMAIN told \in {{}, DOMAIN watchpoints}
  <2>1. CASE phase = "run" BY <2>1 DEF LInv, Runs
  <2>2. CASE phase # "run" BY <2>2 DEF LInv, Typed
  <2> QED BY <2>1, <2>2
<1>2. TypeOK BY <1>1 DEF LInv, Typed, TypeOK
<1>3. MemoryAsAsked
  <2>1. CASE phase = "run" BY <2>1 DEF LInv, Runs
  <2>2. CASE phase # "run" BY <2>2 DEF MemoryAsAsked
  <2> QED BY <2>1, <2>2
<1> QED BY <1>2, <1>3

LEMMA MainKeeps == MainInv /\ [MainNext]_mainVars => MainInv' /\ [TellsChange]_vars
<1> SUFFICES ASSUME MainInv, [MainNext]_mainVars PROVE MainInv' /\ [TellsChange]_vars
  OBVIOUS
<1>1. [Next]_vars /\ [Map!Next]_mapVars
  BY DEF MainNext, Main, ParseMap, mainVars
<1>2. LInv' /\ [TellsChange]_vars BY <1>1, LInvStep DEF MainInv
<1>3. MapInv' BY <1>1, MapKeeps DEF MainInv
<1> QED BY <1>2, <1>3 DEF MainInv

LEMMA MainAlways == MainSpec => []MainInv
<1>1. MainInit => MainInv BY LInit, MapInit DEF MainInit, MainInv
<1>2. MainInv /\ [MainNext]_mainVars => MainInv' BY MainKeeps
<1> QED BY <1>1, <1>2, PTL DEF MainSpec

(* Memory, arguments and exports keep their types, whatever the command    *)
(* line and the map file.                                                  *)
THEOREM MainKeepsTypes == MainSpec => []MainTypeOK
<1>1. MainInv => MainTypeOK BY LFollows, MapFollows DEF MainInv, MainTypeOK
<1> QED BY <1>1, MainAlways, PTL

(* The core starts with the bytes of the last file that covers each        *)
(* address, and at the address that the last -e, or else the last -l, has. *)
THEOREM MemoryIsAsAsked == MainSpec => []MemoryAsAsked
<1>1. MainInv => MemoryAsAsked BY LFollows DEF MainInv
<1> QED BY <1>1, MainAlways, PTL

(* A reader of the trace knows the watched memory after each line, which   *)
(* has the changes and nothing else.                                       *)
THEOREM TraceIsComplete == MainSpec => TraceTellsChanges
<1>1. MainInv /\ [MainNext]_mainVars => [TellsChange]_vars BY MainKeeps
<1>2. MainSpec => [][TellsChange]_vars BY <1>1, MainAlways, PTL DEF MainSpec
<1> QED BY <1>2 DEF TellsChange, TraceTellsChanges

(* The exports are the labels of the map file's list, the last name of     *)
(* each address, and find_symbol returns the nearest at or below.          *)
THEOREM NamesAreTheMaps == MainSpec => []SymbolsFollowMap
<1>1. MainInv => SymbolsFollowMap BY MapFollows DEF MainInv, SymbolsFollowMap
<1> QED BY <1>1, MainAlways, PTL
=============================================================================
