# Formal verification of the third-semester projects

The repository holds four student projects. This directory holds TLA+ models of
them, the TLC runs that check the models on small instances, and TLAPS proofs
of what matters most for every value of the constants. `PROJECT.json` lists the
components, the runs, a mutation for every checked property, the source lines
behind every definition, the hazards and the theorems.

| project | programs | modules |
|---|---|---|
| APP6 | producers and consumers over System V shared memory (Java, C) | `ProdCons`, `ProdConsInvariants`, `ProdConsProofs`, `ProdConsFifo`, `Buffer`, `MCProdCons`; `SharedMemory`, `SharedMemoryInvariants`, `SharedMemoryProofs`, `MCSharedMemory`; `SharedMemoryTools`, `SharedMemoryToolsInvariants`, `SharedMemoryToolsProofs`, `MCSharedMemoryTools` |
| APP4 | a TCP chat with two servers and two clients, a UDP chat (C) | `TcpChat`, `TcpChatProofs`, `MCTcpChat`; `UdpChat`, `UdpChatProofs`, `MCUdpChat` |
| APP2 | a lexical analyser and a recursive-descent parser (Java) | `AnalLex`, `DescenteRecursive`, `DescenteRecursiveInvariants`, `DescenteRecursiveProofs`, `DescenteRecursiveTreeProofs`, `MCDescenteRecursive` |
| APP1 | the Walsh and cosine transforms in four C++ versions, the first also in MIPS assembly | `Walsh`, `Cosine`, `Genrand`, `PerfWalshDCT`, `PerfWalshInvariants`, `PerfWalshProofs`, `MCPerfWalshDCT` |

The projects do not call each other. Inside APP6 the processes meet in the
shared segment only; inside APP4 client and server meet in the network only.

## 1. Inventory

### APP6: bounded buffer in shared memory

Each producer and each consumer is a process (`Server.main` with "p" or "c").
They share one System V segment, cut into string slots: a ring of items, the
token of the mutex (slot `size-2`) and the number of items (slot `size-1`).

* `BoundedBuffer`: constructor (writes the two last slots if one of them is
  empty), `insert`, `remove`. Fields of its own in each process: `in`, `out`,
  `count`. It polls: `insert` and `remove` test the count, try to take the
  token, and sleep if either fails.
* `ImpConcurrenceControl`: `acquire` reads the token and then writes "false";
  `release` writes "true".
* `SharedMemory.c`: `alloc`, `write`, `read`, `free`, all byte by byte and
  without a lock.
* `SharedMemoryCreateBuffer`, `SharedMemoryWrite`, `SharedMemoryRead`: the first
  allocates a segment, shows it and frees it at a key; the others, started by hand
  with its handle, write one string to each slot and read each slot.
* `Producer`, `Consumer`: endless loops of sleep and insert or remove. The ids
  of messages start again at 10000.

Hard here: the order of the single reads and writes of several processes; the
count that is tested before the mutex is held; two constructors at a time; a
process killed anywhere, inside the mutex or the constructor included; positions
private to a process; strings half written while they are read.

Correct means: the count stays in range, parses, and no update of it is lost;
one process at a time is in the critical section; the token comes back; items
leave in the order they came in, once each; nobody waits for ever.

### APP4: TCP chat

`macServeurTCP` and `winServerTCP` serve one connection after the other: `recv`,
prompt the operator, `send`. `macClientTCP` and `winClientTCP` prompt, `send`,
`recv`. There are no message boundaries, answers may be longer than what a client asks
for, a `recv` may return less, a peer may leave at any moment with bytes unread.

Any of them may fail while it sets up its socket or connects.

Correct means: no mutual wait, a client that is served is answered, a server
does not stop because a client says goodbye, the end of a connection is
noticed, the queue moves when clients leave.

### APP4: UDP chat

`macClientUDP` sends a line and waits in `recvfrom` with no timeout;
`macListenerUDP` answers to the address it received from last. Datagrams may be lost,
reordered, duplicated, or dropped at a full socket.

Correct means: the answer a client takes belongs to its last line, and a client
waits for ever only because of the network or because the listener stopped.

### APP2: expressions

`AnalLex` is an automaton whose state and position live on between calls.
`DescenteRecursive` builds a tree with three mutually recursive methods and a
counter of open parentheses, then writes the tree and its value.

Correct means: terminals are the pieces of the text; a tree is built exactly for
the expressions and has their shape; the counter is right at every depth; a
value that is written is the right one.

### APP1: Walsh and cosine transforms

The four C++ programs and `wscoeff.s` compute the same coefficients in four
ways (bit products, the same in MIPS, a recursively built Hadamard matrix with
rows permuted, single elements of that matrix), transform a table, transform it
back, do the same with cosines, and repeat that on new numbers for a
measurement. Two programs draw the numbers of their tables from a generator whose
product overflows, two count.

Correct means: the coefficients come in order of sequency, all programs compute
the same transform, each inverse restores its table, the generator goes on
giving new numbers, the repetitions end and are as many as announced.

## 2. The models

### `ProdCons` (APP6)

One producer and one consumer, each with a program counter:

| label | code |
|---|---|
| `off` | not started or killed |
| `ctor_read_count` .. `ctor_write_available` | BoundedBuffer.java:50-55 |
| `run` | Producer.java / Consumer.java loop, with its sleep |
| `check` | the test of the count, BoundedBuffer.java:65 and 92 |
| `test`, `set` | ImpConcurrenceControl.java:40 and 41 |
| `load`, `store` | BoundedBuffer.java:70-72 and 97-99 |
| `access` | the write or read of the item |
| `release` | `mutex.release()` and the advance of the position |

Shared: `memCount`, `memAvailable`, `memItems`. Own: `count`, `index` (`in` or
`out`), `id`, `item`. `unread` is a history variable: the positions that hold an
item nobody removed. Nothing keeps the processes from being switched at any label.
What holds only as long as a test and its set are not torn apart is stated of
the behaviours, or the parts of one, in which that does not happen: `Apart` says
that the two processes are not both between a test and a set, of `acquire` or of
the constructor, `Idle` that both are outside of these and of the critical section,
`Undisturbed` that all of a behaviour is `Apart` and nobody is killed.

*Granularity.* One step is one call of `SharedMemory.read` or `.write`. That a
call may be treated as one step is shown by `SharedMemory` below for what these
calls carry: the token and counts of one digit. Hence `sharedMemorySize <= 11`
and one process of each kind: ten items, or the -1 that two consumers can bring
the count to, take two characters, which a reader without the token could meet
half written (and `Integer.parseInt` throw at). `CountInRange` shows that one
producer and one consumer never leave the one digit, so that the step is
justified in every state of the model. "false" in
`memAvailable` stands for every string that is neither "true" nor empty,
half-written ones included. An item is only read after the count that announces
it was written; an item that is read while it is overwritten is modelled as the old
or the new one. The `synchronized` of the Java methods is left out because every
process has one thread that calls them.

*Kills.* A process in `Mortal` may disappear at any label and be started again
with fresh fields; if it was about to write the token, the write may be cut
short.

### `Buffer`, `ProdConsFifo` (APP6)

`Buffer` is what the interface promises to one producer and one consumer: atomic
insert and remove on a bounded queue of numbered messages. `ProdConsFifo` maps
the segment onto it: an insert takes effect when its item is written, a remove
when it is read, so the count and the positions are corrected for a process that
stands before or after its access. `ImplementsBuffer` is the refinement.

### `SharedMemory` (APP6)

The bytes of the segment. `write` stores one byte per step and a NUL if there is
room; `read` tests a byte and copies it in two steps (the makefile compiles
without optimisation, so both accesses of the C text happen). `latest` and `candidates`
are history variables: the strings a slot held during a read, overlapping and
abandoned writes included. `free` removes the segment, after which `shmat` fails
and the process dies on the address -1.

### `SharedMemoryTools` (APP6)

The three programs on top of `SharedMemory`: `creator` is the place of
`SharedMemoryCreateBuffer`, with a segment that cannot be had or attached;
`place` is the loop index of each writer and reader, whose calls are the actions
of `SharedMemory`. A tool may be started again, and killed in the middle of a
call. `size`, `maxsize` and the strings are those of the programs, not smaller
ones.

### `TcpChat` (APP4)

A stream is the number of its unread bytes. The kernel's part is external: a
close with unread bytes, or a send to a closed peer, leads to an error that is
first pending and then reported, and a write after that kills a program without
a SIGPIPE handler. The server program is chosen in `Init`;
its set-up may fail, and `winServerTCP` does not look at the result of `listen`
("deaf"). `accept` may fail, too: `macServeurTCP` exits, `winServerTCP` goes
round its loop. `macServeurTCP` reads at most BUFFER_LENGTH - 1 bytes,
`winServerTCP` BUFFER_LENGTH, which leaves no room for the NUL (`HearMax`); what
the NUL overwrites behind the buffer is not modelled. A client finds a server that listens, or ends without a connection; `MacClients` and
`WinClients` differ in how much they ask for, in what they do on 0 bytes and on
an error. `winClientTCP` stores a NUL at `text[-1]` on an error; both outcomes
of that are allowed (it goes on, or is aborted).

### `UdpChat` (APP4)

A datagram is its client and whether it belongs to the client's last line. The
network is a set of datagrams. A program whose address or socket cannot be had
has ended in the initial state. Lost datagrams vanish, duplicated ones stay when
they arrive, and any order is possible. A set cannot hold two equal datagrams;
`InStep` shows that without duplicates there is never more than one of a
client. The socket of the listener is a bounded queue. `lost` and `doubled` are
history variables.

### `AnalLex`, `DescenteRecursive` (APP2)

`AnalLex` holds the automaton as an operator on text, position and state (`Scan` is
one turn of its loop), and a reference definition of the pieces of a text, which
numbers the characters by the pieces they belong to. `DescenteRecursive` has both main
programs; the Java call stack is the variable `pile`, the tree is a heap of
nodes, and each step is the part of a method between two calls. Values are ints
from `-IntMax - 1` to `IntMax`. The reference for the tree, `Reading`, is written
without the descent: a span of terminals is split at its first `+` or `-` outside
parentheses, else at its first `*` or `/`, else it is one terminal or loses its
parentheses. `Exact` computes the value of the same splits in the integers.

### `Walsh`, `Cosine`, `Genrand`, `PerfWalshDCT` (APP1)

`Walsh` has the coefficients as pure functions, with a number put together from
its bits as the one number that has them; `PerfWalshDCT` has the five
programs as one machine from `main` to the printed rates: it draws its tables
number by number, fills the coefficients row by row (number by number in MIPS,
with its byte counters; the inner loop of the MIPS transform, whose counter covers the
same range as the outer one's, is the sum it makes), transforms back and forth, and
repeats. Whether the time
reached `Tmax` is a free choice at each repetition, and stays once it has. The
reference `Wal` doubles the number of Walsh functions and shares nothing with
the four ways of the code.

`Genrand` is `genrand_v32` with its overflow, which wraps in the programs as
they are compiled (C++ leaves it open). The width of a word and the multiplier
are constants: the code has 2^16 and 16807, TLC computes with half words of 2^10
and the multiplier 343 = 7^3.

`Cosine` is both directions of the cosine transform with exact numbers instead of
doubles. Every sum of the formulas is a combination of cosines of multiples of
pi/2n with integers, sqrt(2)/2 being one of them, and is held as the vector of
these integers, 8n times the number. What doubles round is not modelled.

## 3. Runs

Every property of a passing run has a mutation of the code in `PROJECT.json`
that breaks it.

| run | instance | shows |
|---|---|---|
| `prodcons_restart` | buffer of 2, 3 ids, kills and restarts at any step | the code as deployed: types, `ParsesAnInteger`, `CountInRange`; a token lost with its holder stays lost; if it is never lost and both run for ever, both work for ever; once both are outside, exclusion and exact updates are back until test-and-sets overlap |
| `prodcons_token` | buffer of 2, 3 ids, no kills | the code as deployed: the token is away only while somebody is going to return it, also after both took it |
| `prodcons_undisturbed` | buffer of 3, 5 ids, `UndisturbedSpec` | free and full positions, refinement of `Buffer` |
| `prodcons_mutex` | buffer of 2, constructors one after the other | **violation** of the comment on `ImpConcurrenceControl` |
| `prodcons_constructor` | buffer of 2 | **violation** of the comment on the constructor |
| `sharedmemory` | 2 processes, 2 slots of 3 bytes, strings of 1 to 4, one process may be killed | no other slot changes; a read that no other string meets is exact; token and one-digit counts are read as they were stored |
| `sharedmemory_tools` | a writer and a reader of 5 slots of 5 bytes, killed and started again at will, and the creator | slots fill in order, a reader sees a beginning of the text and all of it after a complete write, every tool ends |
| `tcp_chat` | one client of each kind, either server | no cross wait, while it serves a server stops on a reset only, liveness of the served client, of the end and of the queue |
| `udp_chat` | 2 clients, socket of 2 datagrams | in step without duplicates, every wait has a reason, an answer comes unless something is dropped |
| `descente_recursive` | all texts of up to 4 characters of nine classes, of up to 5 of the syntax, and 7-character products; ints of 5 bits | pieces, tree, counter, value |
| `perf_walsh` | the five programs, 2x2, 4x4, 8x8 and one size too large, words of 20 bits, maxima of 1 | the transforms are the one in order of sequency, both inverses, the generator, termination |
| `perf_repetitions` | 2x2 | **violation** of the comment on `NwalMax` |

*Why the bounds are enough.* A buffer of two positions is the smallest that can
be partly full; three with five ids lets both positions and the ids wrap at
different times, so that a lost or doubled item shows. No count is cut off.
`UndisturbedSpec` takes the steps of `Next` that kill nobody and lead to `Apart`
states; its behaviours are those of `Undisturbed`, and TLC checks on them what
the theorems say under that assumption. `AfterConstructorsSpec` leaves out overlapping
constructors, so that the violation is `acquire`'s. A slot of three bytes with strings up to four covers shorter, equal and
longer. In `TcpChat` answers of 2 bytes exceed the 1 that `winClientTCP` asks for after a line
of 1, and a `recv` may return less than is there, so bytes of one answer are
taken for the next; streams of 3 bytes hold more than one answer, and all that
`winServerTCP` asks for. In `UdpChat` one duplicate per client puts
it out of step for ever, and two more datagrams than fit overflow the socket.
Five characters hold every pair of operators with parentheses or three operands; ints of 5
bits overflow for products of the constants used. In `sharedmemory_tools` a second
writer would write the same bytes at the same places; `sharedmemory` has two
writers that do not. The numbers that are drawn, and those that are counted, are different in every
place, so that a coefficient at the wrong place shows; 8x8 has all the digits of
a permutation that reversal and Gray code treat differently. A maximum of one
repetition shows the loop at its first and at its last turn.

*Fairness.* APP6: every started process is scheduled and every sleep ends;
nobody is obliged to start or kill a process. A started tool of the shared
memory runs on; starting, killing and the key are the user's. TCP: the programs run, `accept` does not fail for ever
in `winServerTCP`, and whoever is at a prompt types something some time; nobody is obliged to start a program, to connect or
to leave, so that `QueueMoves` promises a client its turn only if the others
leave. UDP: the programs run, the operator
answers, and a datagram in the network arrives or is lost. APP1: the program
runs; time need not pass. APP2 has no fairness.

Deadlock is checked for APP6's producers and consumers. The other programs end.

## 4. What is proved

`ProdConsProofs`, for every size of the segment from 3 to 11, every `MaxId`, kills at
any step (`Mortal` arbitrary) and the two-step `acquire`; what else a theorem
assumes is in its statement:

* `TypeCorrect`, together with `SlotsWritten`, because the count computed in
  `load` is a number only if the slot holds one.
* `CountIsParsed` (`ParsesAnInteger`): not inductive; follows from
  `SlotsWritten`, which says that the token slot is written after the count and
  that every process past its constructor left both written. Without it a
  process in the middle of the constructor could leave a hole.
* `TokenReturns` (`TokenNotLost`), if nobody is killed: holds although the
  mutex is broken.
* `LossIsPermanent` (`TokenLossIsPermanent`): an action property from types and
  `SlotsWritten`.
* `CountStaysInRange` (`CountInRange`): from `CountStays`. What a producer
  learned from its test stays true because the other side only stores smaller
  counts and a late constructor only 0, so the count stays in range without
  mutual exclusion.
* `ExclusionHeals`, `UpdatesHeal` (`ExclusionReturns`, `UpdatesReturn`): from
  `TokenHeld`, which says what the token and the slots hold while somebody is
  between a test and its set. Every state in which both processes are outside
  satisfies it (`IdleTokenHeld`), whatever overlaps and kills came before, and a step to
  an `Apart` state keeps it (`TokenHeldStep`, `NoLostUpdateStep`). So an overlap of
  two test-and-sets is the only way into a broken exclusion, and once both have left,
  nothing of it remains. `prodcons_mutex` shows that overlaps do occur.

Also `ProdConsProofs`, for the behaviours that are `Undisturbed` (the assumption is
of the behaviour, not of the code: it says exactly which schedules break
the buffer), every length of the ring and every `MaxId`:

* `InsertsWhereFree`, `RemovesWhereFull` (`NextPositionFree`,
  `NextPositionFull`) and `BufferImplemented` (`ImplementsBuffer`, the refinement
  of `Buffer`). Neither position says by itself that its place is free or full, so
  none of the three is inductive. `RingInStep` relates what the two processes
  keep to themselves: the positions are `Filled` places apart, where `Filled`
  is the shared count corrected for a process between its update of the count and
  its access, and `unread` is exactly the places between them. It needs
  `TokenHeld` (at most one correction at a time) and `CountStays` (room when the
  producer stores, an item when the consumer does). The refinement then goes
  action by action: the access of an item is a step of `Buffer`, every other step a
  stutter.

`SharedMemoryProofs`, for every number of users, slots and bytes, all strings,
and users killed in the middle of a call:

* `TypeCorrect` and `SlotsAreSeparate` (`WritesInsideSlot`): from `CallsInSlot`,
  which adds that the two header bytes never change (each call computes its
  addresses from them) and that a byte to be copied was tested inside its slot.
* `ExactReads` (`UndisturbedReadIsExact`): from `BytesAccountedFor` and
  `OneStringSoFar`. Each byte of a slot belongs to some write that is still
  in the history, and no writer that has passed the byte is on top of it; so a
  read that has met one string has copied a beginning of that one.
  `HistoryKept` says that the history is true to the writes in progress, and
  `FiniteHistory` that it is finite, without which one candidate would not be
  the only one.
* `KnownStringsWereStored` (`KnownStringWasStored`), if strings of one slot
  differ in their first characters (`FirstCharacterTells`). The code justifies it
  for what it stores: the token is "true" or "false", a count below ten one digit.
  TLC evaluates the same condition in `sharedmemory` (`StringsDiffer`). From
  `FirstByteOffered` and `ShortSlots`: the first character read is that of a
  string the slot held, and a slot of one-character strings has nothing behind it.

`SharedMemoryToolsProofs`, for any number of writers and readers, killed and
started again at will:

* `FillsInOrder` (`FilledInOrder`) and `ReadersGetTheText` (`ReadsTheText`). Every
  step of a tool is a step of the library, so the invariants of
  `SharedMemoryInvariants` carry over. `AtPlace` ties a running call to its
  loop index, `BytesOfText` leaves a byte only two values, `PassedIsFull`
  says that what a writer has passed is in the segment, and `BeginningCopied`
  that a reader holds a beginning of the text.

`TcpChatProofs`, for every number of clients, either server, all lengths:

* `TypeCorrect`; `NobodyCrossWaits` (`NoCrossWait`) and `OnlyResetsStop`
  (`StopsOnReset`; between two clients it allows `macServeurTCP` to stop over a failing
  `accept`), both with the help of `ErrorsOfTheEnded`: an error that the
  server sees comes from a client that has ended. Without it a send that fails would
  swallow the line of a client that still waits.

`UdpChatProofs`, for every number of clients and every size of the socket:

* `TypeCorrect`; `AnswersInStep` (`InStep`) and `WaitsWithReason`
  (`WaitHasAReason`), each inductive together with the types.

`DescenteRecursiveProofs`, for texts of every length and expressions of every depth:

* The automaton is a recursive function of the rest of the text. What a call
  returns (`Reads`, `Cuts`) is proved by the least counterexample: the position
  nearest to the end of the text at which one turn of the loop would return something
  wrong, although the next turn does not (`ScanStep`, `ScanCuts`). That the
  function exists at all (`ScanExists`), and that `LectAST` is a text
  (`LectASTIsText`), is shown in the same way.
* `AnalLexWritesThePieces` (`TerminalsAreThePieces`), from `PiecesRead`: between two
  calls AnalLex stands before a piece in state 0, the file holds the pieces
  before it, and all their characters are sound. That the automaton is back in
  state 0 is what makes the next call start a piece.
* `TypeCorrect`, from `TreeGrows`: the children of a node are older than the
  node, a call that waits for its second operand has its first. `TerminalAtHand`
  ties the terminal to the text before the position.
* `EndIsNeverATerminal` (`EndIsNoTerminal`), from the same two: the end of the
  text gives an empty terminal, which is an operator unless the automaton was left in
  another state. `TerminalAtHand` says that after an operator it is in state
  0, so where an operand is expected the end is none.
* `ParenthesesAreCounted` (`OpenParentheses`): not inductive, because nothing in
  it bounds what a return subtracts. `ParenthesesCounted` adds that
  `mParenthesesOuvertes` is also the number of calls of `T_V` that wait.

`DescenteRecursiveTreeProofs`, for texts of every length, expressions of every depth
and ints of every size:

* `TreeIsReading` (`TreeIsTheReading`) and `WrittenValueExact`
  (`WrittenValueIsExact`), from two invariants on top of the earlier ones.
  `TerminalsRead` numbers the terminal at hand: it is the piece of the text of that
  number, with the type of its first character, and all before it is sound.
  `Descent` describes the stack. There are places `ends`, one for each call that
  waits, that cut the terminals read so far into spans (`Wait`): a waiting
  `T_V` holds one "(", a waiting `T_U` or `T_EXP` an operand that *stands* in its
  span, and its operator. `Returns` says the same of what the call on top has
  read. An operand stands (`Stands`) in a span if its `LectAST` is the reading of the
  span, its `EvalAST` the exact value if there is one, and no operator of the
  kinds that would be split at first stands outside the parentheses of the span.
  The last part is what makes precedence work: joining `a * b` is right only
  because neither side has a `+` or `-` outside its parentheses.
* The references are recursive over spans, whose only usable facts are their
  defining equations. `ReadingsExist` and `ExactsExist` show that the functions
  exist (a span is read from shorter ones), `ReadingsUnfold` and `ExactsUnfold` give
  the equations, and `LectUnfolds`, `EvalUnfolds` those of the tree, whose
  children are older than their parent. `SpanInduction` is induction on the length of
  a span for one fixed set of spans.
* That a refused text has no reading (`NoOperand`, `Misplaced`, a missing ")", the end
  after an operator) does not follow from what was read so far: the rest of the
  text is unknown. `ReadingsAlternate` closes that gap: in a span that has a
  reading, operands and operators take turns, every prefix has at least as many "("
  as ")", and the whole has as many. So the place at which the code throws is
  one at which no reading can exist, whatever follows.
* `ApplyExact`: if the integers have a result that fits an int, the wrapping
  operation gives it. For `/` that needs that a quotient rounded towards 0 is
  the only integer with a remainder of the sign of the dividend (`QuotientExact`).

`PerfWalshProofs`, for every size of the tables and every number of repetitions, and
for the generator for every width of the words and every multiplier that leaves 7 in
the division by 8:

* `GeneratorNeverStuck` (`NeverStuck`): every number drawn leaves 3 or 5 in the
  division by 8, the two taking turns from the seed 99 on. Wrapping changes a
  product by a multiple of 8; the remainder by 2^31 - 1 changes only 2^31 - 1,
  -(2^31 - 1) and -2^31, which leave 7, 1 and 0 and never occur. A number that
  the generator maps to itself would have to leave the same remainder twice.
* `TypeCorrect` (`TypeOK`): no table is read before it is complete and no place outside
  it is written. A table that a loop is filling holds the rows, the numbers or the
  words before the loop's counter; one that a later loop reads is complete. The
  inductive invariant `TablesWritten` says which is which at every place of a program,
  and that the repetitions were measured before the results are printed
  (`Repetitions`: a loop that is left was entered).
  The row that `const_perfWalshDCT_Corrige_2` fills in turn y is
  `reverse_gray_to_binary(y, r)`. Its table is complete after n turns because
  `binary_to_gray_reverse` gives, for every row, the turn it is filled in
  (`RowsPermuted`); `RowInTable` shows that no turn writes beside the table. Both
  come down to the bits: `FromBits` puts them at their places, `Flip` turns them
  round, `GrayToBinary` adds those above; two numbers with equal bits are
  equal (`SameBits`). The code fixes codes of 7 bits, so these lemmas hold for tables
  of up to 64 rows, which is all that `dim_max_2D` lets through (`SizeOfTable`).
  The generator's state stays an int of its width (`GeneratorInWord`).

The invariants named here that are not properties of a run are inductive
strengthenings. They are in the modules `...Invariants`, or in `TcpChatProofs`
beside their proof.

The proofs assume the named ASSUMEs of the modules, which TLC evaluates in the
runs.

Only model-checked:

* liveness in every module: the provers do not handle fairness;
* `TransformOfD`, `InverseRestores` and `CosineInverseRestores` of
  `PerfWalshDCT`: each compares the code with sums over sets and products of
  tables of a size that is a constant, which would need the theory of
  orthogonal matrices first.

## 5. Findings

* `prodcons_mutex`: `acquire` is a read and a write; two processes pass. The
  comment promises one process at a time.
* `prodcons_constructor`: the constructor decides on values read earlier and
  then writes slots that another process has filled in meanwhile.
* `perf_repetitions`: the loops test `it <= NwalMax` from 0 on, so a transform is
  repeated once more than "nombre de fois maximum".

Seen while modelling, with no run of their own:

* A process killed in its critical section takes the token with it and
  everybody else waits for ever (`LossIsPermanent` is the reason).
* A restarted producer or consumer starts at position 0, and two producers do
  not know each other's position: items are overwritten or read at the wrong
  place. The proofs and `ImplementsBuffer` are for one producer and one
  consumer.
* Operators of one kind group from the right: `7-2-2` is 7. A constant that
  does not fit an int counts as 0.
* The product of the generator overflows, so it is not the generator of the
  cited book; the remainder by 2^31 - 1 never changes a number.
* `winServerTCP` loops for ever if `listen` fails. It asks `recv` for as many bytes
  as its buffer has and then stores a NUL behind them.
* `macServeurTCP` exits if `accept` fails.
* Slots are read and written without a lock: a count of two digits, which takes
  a buffer of ten, could be read half written.
* `macServeurTCP` exits when the connection it serves is reset.
* After one duplicated datagram a UDP client reads every answer one line late.

## 6. Not modelled

* The rounding of doubles in the cosine transform and in the rates.
* `const_perfWalshDCT.cpp`, which does not compile; `SharedMemoryold.c`, which is
  not compiled.
* Several producers or several consumers, and buffers of ten and more: the count
  may then have two characters, and an access to it is no longer one step.
* The byte behind the buffer of `winServerTCP`; `add` in `wscoeff.s`, which traps
  where C++ wraps, without effect on sums as small as those here.
* The contents of buffers, printing, errors of files.
* `size` and `maxsize` above 127 in the header of the segment (the comment of
  `alloc` forbids them).
* Logs, binaries, the class diagram.

## 7. Plan

Order of work, most important first:

1. done: `ProdCons`, its invariants, runs and proofs; `Buffer` and the refinement;
   `SharedMemory`.
2. done: `TcpChat`, `UdpChat` and their proofs; `DescenteRecursive`;
   `PerfWalshDCT`.
3. done: kills and restarts with liveness in `ProdCons`; the tools of the shared
   memory; set-up, connection and the queue in `TcpChat`; the cosine transform,
   the generator and the measurements of APP1 with a first proof.
4. done, proofs: the positions and the refinement of the ring buffer; the byte-wise
   library and its tools; types of both chats; the lexical analyser, the counter of
   parentheses, the tree and its value for every text; the generator and the tables of
   APP1.
5. left, proofs: the orthogonality of the Walsh functions, for `InverseRestores`.
