--------------------------- MODULE AsyncEngineProofs ---------------------------
(***************************************************************************)
(* Proof that transfers are exact in whatever order their commands         *)
(* complete, for any number of threads, LBAs, chunks and failures.         *)
(***************************************************************************)
EXTENDS AsyncEngine, FiniteSetTheorems, TLAPS

(* Types.                                                                  *)

Images == UNION {[S -> Contents] : S \in SUBSET Cells}

CallRecords ==
    [id : Ids, op : {"none", "read", "write"}, at : {"idle", "fill", "submit", "return"},
     lbas : SUBSET Lbas, cells : SUBSET Cells, first : Int, left : 0 .. LbaCount, sent : Nat,
     set : SUBSET Nat, buffer : Images, before : Images, failed : BOOLEAN]

Commands == [id : Ids, nr : Nat, op : {"none", "read", "write"}, lbas : SUBSET Lbas,
             done : BOOLEAN]

Types ==
    /\ media \in [Cells -> Contents]
    /\ call \in [Threads -> CallRecords]
    /\ queue \in [Threads -> SUBSET Commands]
    /\ contexts \in [Threads -> 0 .. QueueDepth]
    /\ calls \in Ids
    /\ failures \in [device : Nat, submit : Nat]
    /\ undefined \in BOOLEAN
    /\ engine \in {"async", "sync"}

-----------------------------------------------------------------------------
(* The inductive invariant.                                                *)

Own(t) == {cmd \in queue[t] : Alive(t, cmd)}

\* The LBAs of a call that are not submitted yet.
Rest(t) == call[t].first .. call[t].first + call[t].left - 1

\* Those that are not transferred yet.
Pending(t, lba) ==
    /\ call[t].at = "submit"
    /\ lba \in Rest(t) \/ \E cmd \in Own(t) : ~cmd.done /\ lba \in cmd.lbas

CellsOfCall(t) == call[t].lbas \X Parts

CallIsSound(t) ==
    /\ call[t].cells \subseteq CellsOfCall(t)
    /\ call[t].buffer \in [CellsOfCall(t) -> Contents]
    /\ call[t].before \in [CellsOfCall(t) -> Contents]
    /\ call[t].set \subseteq 0 .. call[t].sent - 1
    /\ Rest(t) \subseteq call[t].lbas
    /\ call[t].left > 0 => call[t].set = {}
    /\ call[t].at # "idle" => call[t].op \in {"read", "write"} /\ call[t].id \in 1 .. calls
    /\ call[t].at = "fill" => call[t].op = "write" /\ call[t].lbas \subseteq Rest(t)
    /\ call[t].at \in {"idle", "fill"} => call[t].sent = 0
    /\ call[t].at = "idle" => call[t] = NoCall

\* A command that outlives its call is of an earlier one; those of the call have
\* a promise each that is not set yet.
CommandsAreSound(t) ==
    /\ \A cmd \in queue[t] : cmd.id \in 1 .. calls
    /\ \A cmd \in Own(t) :
        /\ call[t].at = "submit"
        /\ cmd.nr \in 0 .. call[t].sent - 1 /\ cmd.nr \notin call[t].set
        /\ cmd.lbas \subseteq call[t].lbas
    /\ \A cmd, other \in Own(t) : cmd.nr = other.nr => cmd = other
    /\ engine = "sync" => queue[t] = {} /\ ~call[t].failed

\* Buffer and device agree where a command has been executed; the buffer of a
\* write is its data, over what was there before.
DataIsSound(t) ==
    /\ call[t].at \in {"submit", "return"} /\ ~call[t].failed =>
        \A c \in CellsOfCall(t) : Pending(t, c[1]) \/ call[t].buffer[c] = media[c]
    /\ call[t].at = "fill" => \A c \in CellsOfCall(t) : call[t].before[c] = media[c]
    /\ call[t].op = "write" /\ call[t].at \in {"submit", "return"} =>
        \A c \in CellsOfCall(t) :
            call[t].buffer[c] = IF c \in call[t].cells THEN call[t].id ELSE call[t].before[c]

\* Every context is in the queue or with a command that has not been polled.
QueueIsSound(t) ==
    /\ IsFiniteSet(queue[t])
    /\ Cardinality(queue[t]) <= QueueDepth - contexts[t]

ThreadInv(t) == CallIsSound(t) /\ CommandsAreSound(t) /\ DataIsSound(t) /\ QueueIsSound(t)

\* What Apart asks of a new call holds of those under way.
CallsAreApart ==
    \A t, u \in Threads : t # u /\ call[t].lbas \cap call[u].lbas # {} =>
        call[t].op = "read" /\ call[u].op = "read"

IInv == Types /\ CallsAreApart /\ \A t \in Threads : ThreadInv(t)

-----------------------------------------------------------------------------
(* What holds as long as no submission has been refused, of transfers that *)
(* a queue has contexts for.                                               *)

AllAccountedFor(t) ==
    /\ Own(t) = queue[t]
    /\ Cardinality(queue[t]) = QueueDepth - contexts[t]
    /\ Cardinality(queue[t]) <= call[t].sent
    /\ call[t].left > 0 => call[t].sent * MaxLbas + call[t].left <= MaxTransfer

NothingIsLost == failures.submit = 0 => ~undefined /\ \A t \in Threads : AllAccountedFor(t)

-----------------------------------------------------------------------------
(* A step of one thread.                                                   *)

\* Other threads, whose LBAs a step does not write.
LEMMA OthersKeep ==
    ASSUME NEW u \in Threads, ThreadInv(u),
           call'[u] = call[u], queue'[u] = queue[u], contexts'[u] = contexts[u],
           calls \in Nat, calls' \in Nat, calls <= calls', engine' = engine,
           \A c \in CellsOfCall(u) : media'[c] = media[c]
    PROVE  ThreadInv(u)'
<1>1. CallIsSound(u)'
  BY DEF ThreadInv, CallIsSound, CellsOfCall, Rest
<1>2. Own(u)' = Own(u)
  BY DEF Own, Alive
<1>3. CommandsAreSound(u)'
  BY <1>2 DEF ThreadInv, CommandsAreSound
<1>4. \A lba : Pending(u, lba)' <=> Pending(u, lba)
  BY <1>2 DEF Pending, Rest
<1>5. CellsOfCall(u)' = CellsOfCall(u)
  BY DEF CellsOfCall
<1>6. DataIsSound(u)'
  BY <1>4, <1>5 DEF ThreadInv, DataIsSound
<1>7. QueueIsSound(u)'
  BY DEF ThreadInv, QueueIsSound
<1>8. QED
  BY <1>1, <1>3, <1>6, <1>7 DEF ThreadInv

LEMMA OneThreadSteps ==
    ASSUME IInv, Types', NEW t \in Threads, ThreadInv(t)',
           \A u \in Threads \ {t} :
                /\ call'[u] = call[u] /\ queue'[u] = queue[u] /\ contexts'[u] = contexts[u]
                /\ \A c \in CellsOfCall(u) : media'[c] = media[c],
           calls <= calls', engine' = engine,
           \/ call'[t].lbas = call[t].lbas /\ call'[t].op = call[t].op
           \/ call'[t].lbas = {}
           \/ Apart(call'[t].lbas, call'[t].op)
    PROVE  IInv'
<1>1. calls \in Nat /\ calls' \in Nat
  BY EngineAssumption DEF IInv, Types, Ids
<1>2. \A u \in Threads \ {t} : ThreadInv(u)'
  BY <1>1, OthersKeep DEF IInv
<1>3. CallsAreApart'
  <2>1. ASSUME NEW u \in Threads \ {t}, call'[t].lbas \cap call[u].lbas # {}
        PROVE  call'[t].op = "read" /\ call[u].op = "read"
    BY <2>1 DEF IInv, CallsAreApart, Apart
  <2>2. \A u \in Threads \ {t} : call'[u] = call[u]
    OBVIOUS
  <2>3. QED
    BY <2>1, <2>2 DEF IInv, CallsAreApart
<1>4. QED
  BY <1>2, <1>3 DEF IInv

\* What a command of one call transfers is not in any other, unless both read.
LEMMA WritesStayApart ==
    ASSUME IInv, NEW t \in Threads, NEW S \in SUBSET call[t].lbas, media' = MediaAfter(t, S)
    PROVE  /\ media' \in [Cells -> Contents]
           /\ \A u \in Threads \ {t} : \A c \in CellsOfCall(u) : media'[c] = media[c]
           /\ \A c \in CellsOfCall(t) :
                media'[c] = IF call[t].op # "read" /\ c[1] \in S THEN call[t].buffer[c]
                            ELSE media[c]
<1>1. /\ media \in [Cells -> Contents]
      /\ call[t].buffer \in [CellsOfCall(t) -> Contents]
      /\ \A u \in Threads : call[u].lbas \subseteq Lbas
  BY DEF IInv, Types, ThreadInv, CallIsSound, CallRecords
<1>2. \A c \in Cells : c[1] \in S => c \in CellsOfCall(t)
  BY DEF Cells, CellsOfCall
<1>3. \A u \in Threads : CellsOfCall(u) \subseteq Cells
  BY <1>1 DEF Cells, CellsOfCall
<1>4. media' \in [Cells -> Contents]
  BY <1>1, <1>2 DEF MediaAfter
<1>5. \A c \in Cells :
        media'[c] = IF call[t].op # "read" /\ c[1] \in S THEN call[t].buffer[c] ELSE media[c]
  BY DEF MediaAfter
<1>6. ASSUME NEW u \in Threads \ {t}, NEW c \in CellsOfCall(u)
      PROVE  media'[c] = media[c]
  <2>1. c[1] \in call[u].lbas /\ c \in Cells
    BY <1>3 DEF CellsOfCall
  <2>2. c[1] \in S => call[t].op = "read"
    BY <2>1 DEF IInv, CallsAreApart
  <2>3. QED
    BY <1>5, <2>1, <2>2
<1>7. QED
  BY <1>3, <1>4, <1>5, <1>6

\* The fields of a call are in its record.
LEMMA BufferTypes ==
    ASSUME NEW S \in SUBSET Cells, NEW b \in [S -> Contents]
    PROVE  b \in Images
BY DEF Images

LEMMA Idling ==
    /\ NoCall \in CallRecords
    /\ NoCall.at = "idle" /\ NoCall.lbas = {} /\ NoCall.left = 0 /\ NoCall.id = 0
    /\ NoCall.sent = 0 /\ NoCall.op = "none" /\ NoCall.failed = FALSE
    /\ NoCall.cells = {} /\ NoCall.set = {} /\ NoCall.first = 0
    /\ NoCall.buffer = <<>> /\ NoCall.before = <<>>
<1>1. <<>> \in [{} -> Contents]
  OBVIOUS
<1>2. <<>> \in Images
  BY <1>1, BufferTypes
<1>3. 0 \in Ids /\ 0 \in 0 .. LbaCount
  BY EngineAssumption DEF Ids
<1>4. QED
  BY <1>2, <1>3 DEF NoCall, CallRecords

LEMMA CallBecomes ==
    ASSUME Types, NEW t \in Threads, NEW c \in CallRecords, call' = [call EXCEPT ![t] = c]
    PROVE  /\ call' \in [Threads -> CallRecords]
           /\ call'[t] = c
           /\ \A u \in Threads \ {t} : call'[u] = call[u]
BY DEF Types

LEMMA Initially == Init => IInv
<1> SUFFICES ASSUME Init PROVE IInv
  OBVIOUS
<1>1. 0 \in Ids /\ 0 \in Contents /\ QueueDepth \in 0 .. QueueDepth
  BY EngineAssumption DEF Ids, Contents
<1>2. Types
  BY <1>1, Idling DEF Init, Types
<1>3. CallsAreApart
  BY Idling DEF Init, CallsAreApart
<1>4. ASSUME NEW t \in Threads PROVE ThreadInv(t)
  <2>1. call[t] = NoCall /\ queue[t] = {} /\ contexts[t] = QueueDepth
    BY DEF Init
  <2>2. CallIsSound(t)
    BY <2>1, Idling DEF CallIsSound, CellsOfCall, Rest
  <2>3. CommandsAreSound(t) /\ DataIsSound(t)
    BY <2>1, Idling DEF CommandsAreSound, DataIsSound, Own
  <2>4. QueueIsSound(t)
    BY <2>1, FS_EmptySet, EngineAssumption DEF QueueIsSound
  <2>5. QED
    BY <2>2, <2>3, <2>4 DEF ThreadInv
<1>5. QED
  BY <1>2, <1>3, <1>4 DEF IInv

\* The call is over, and commands it may leave behind are not those of the next.
LEMMA ThrowKeeps ==
    ASSUME IInv, NEW t \in Threads, Throw(t), UNCHANGED <<media, queue, calls, undefined, engine>>,
           failures' \in [device : Nat, submit : Nat],
           \/ UNCHANGED contexts
           \/ contexts[t] > 0 /\ contexts' = [contexts EXCEPT ![t] = @ - 1]
    PROVE  IInv'
<1>1. /\ call' \in [Threads -> CallRecords]
      /\ call'[t] = NoCall
      /\ \A u \in Threads \ {t} : call'[u] = call[u]
  BY CallBecomes, Idling DEF IInv, Throw
<1>2. /\ contexts' \in [Threads -> 0 .. QueueDepth]
      /\ contexts'[t] <= contexts[t]
      /\ \A u \in Threads \ {t} : contexts'[u] = contexts[u]
  BY EngineAssumption DEF IInv, Types
<1>3. Types'
  BY <1>1, <1>2 DEF IInv, Types
<1>4. CallIsSound(t)'
  BY <1>1, Idling DEF CallIsSound, CellsOfCall, Rest
<1>5. CommandsAreSound(t)'
  <2>1. Own(t)' = {}
    BY <1>1, Idling DEF IInv, ThreadInv, CommandsAreSound, Own, Alive
  <2>2. QED
    BY <1>1, <2>1, Idling DEF IInv, ThreadInv, CommandsAreSound
<1>6. DataIsSound(t)'
  BY <1>1, Idling DEF DataIsSound
<1>7. QueueIsSound(t)'
  <2>1. IsFiniteSet(queue[t]) /\ Cardinality(queue[t]) <= QueueDepth - contexts[t]
    BY DEF IInv, ThreadInv, QueueIsSound
  <2>2. Cardinality(queue[t]) \in Nat /\ contexts[t] \in Int /\ contexts'[t] \in Int
    BY <1>2, <2>1, FS_CardinalityType DEF IInv, Types
  <2>3. QED
    BY <1>2, <2>1, <2>2, EngineAssumption DEF QueueIsSound
<1>8. ThreadInv(t)'
  BY <1>4, <1>5, <1>6, <1>7 DEF ThreadInv
<1>9. QED
  BY <1>1, <1>2, <1>3, <1>8, Idling, OneThreadSteps DEF IInv, Types, Ids

LEMMA FailuresCount ==
    ASSUME Types
    PROVE  /\ [failures EXCEPT !.device = @ + 1] \in [device : Nat, submit : Nat]
           /\ [failures EXCEPT !.submit = @ + 1] \in [device : Nat, submit : Nat]
           /\ [failures EXCEPT !.submit = @ + 1].submit > 0
           /\ [failures EXCEPT !.device = @ + 1].submit = failures.submit
           /\ failures \in [device : Nat, submit : Nat]
BY DEF Types

LEMMA CallsThrow ==
    ASSUME IInv, NEW t \in Threads, UNCHANGED engine,
           FillFails(t) \/ SubmitRefused(t) \/ TransferSyncFails(t) \/ Return(t)
    PROVE  IInv'
BY ThrowKeeps, FailuresCount DEF IInv, FillFails, SubmitRefused, TransferSyncFails, Return

LEMMA BeginKeeps ==
    ASSUME IInv, NEW t \in Threads, UNCHANGED engine, NEW op \in {"read", "write"},
           NEW lba \in Lbas, NEW nr_lbas \in 1 .. MaxTransfer,
           NEW cells \in SUBSET ((lba .. lba + nr_lbas - 1) \X Parts),
           Begin(t, op, lba, nr_lbas, cells)
    PROVE  IInv'
<1> DEFINE lbas == lba .. lba + nr_lbas - 1
           c == [id |-> calls + 1, op |-> op, at |-> IF op = "read" THEN "submit" ELSE "fill",
                 lbas |-> lbas, cells |-> cells, first |-> lba, left |-> nr_lbas, sent |-> 0,
                 set |-> {}, buffer |-> [d \in lbas \X Parts |-> Garbage],
                 before |-> [d \in lbas \X Parts |-> media[d]], failed |-> FALSE]
<1>1. call[t] = NoCall /\ lbas \subseteq Lbas /\ Apart(lbas, op) /\ call' = [call EXCEPT ![t] = c]
      /\ calls' = calls + 1 /\ UNCHANGED <<media, queue, contexts, failures, undefined, engine>>
  BY DEF Begin
<1>2. lbas \X Parts \subseteq Cells /\ cells \subseteq lbas \X Parts
  BY <1>1 DEF Cells
<1>3. /\ c.buffer \in [lbas \X Parts -> Contents] /\ c.before \in [lbas \X Parts -> Contents]
      /\ \A d \in lbas \X Parts : c.before[d] = media[d]
  BY <1>2 DEF IInv, Types, Contents
<1>4. calls \in Nat /\ calls + 1 \in Ids
  BY EngineAssumption DEF IInv, Types, Ids, Begin
<1>5. nr_lbas \in 0 .. LbaCount
  <2>1. lba + nr_lbas - 1 \in lbas /\ nr_lbas \in Nat /\ lba \in Nat
    BY EngineAssumption DEF Lbas
  <2>2. QED
    BY <1>1, <2>1, EngineAssumption DEF Lbas
<1>6. c.buffer \in Images /\ c.before \in Images
  BY <1>2, <1>3, BufferTypes
<1>7. c \in CallRecords
  BY <1>1, <1>2, <1>4, <1>5, <1>6 DEF CallRecords, Lbas
<1>8. /\ c.id = calls + 1 /\ c.op = op /\ c.lbas = lbas /\ c.cells = cells
      /\ c.at = IF op = "read" THEN "submit" ELSE "fill"
      /\ c.first = lba /\ c.left = nr_lbas /\ c.sent = 0 /\ c.set = {} /\ c.failed = FALSE
  OBVIOUS
<1> HIDE DEF c
<1>9. /\ call' \in [Threads -> CallRecords]
      /\ call'[t] = c
      /\ \A u \in Threads \ {t} : call'[u] = call[u]
  BY <1>1, <1>7, CallBecomes DEF IInv
<1>10. Types'
  BY <1>1, <1>4, <1>9 DEF IInv, Types
<1>11. CellsOfCall(t)' = lbas \X Parts /\ Rest(t)' = lbas
  BY <1>8, <1>9 DEF CellsOfCall, Rest
<1>12. CallIsSound(t)'
  <2>1. /\ call'[t].cells \subseteq CellsOfCall(t)'
        /\ call'[t].buffer \in [CellsOfCall(t)' -> Contents]
        /\ call'[t].before \in [CellsOfCall(t)' -> Contents]
        /\ Rest(t)' = call'[t].lbas
    BY <1>2, <1>3, <1>8, <1>9, <1>11
  <2>2. call'[t].set = {} /\ call'[t].at \in {"submit", "fill"} /\ call'[t].sent = 0
        /\ call'[t].op = op /\ call'[t].id \in 1 .. calls'
        /\ (call'[t].at = "fill" => op = "write")
    BY <1>1, <1>4, <1>8, <1>9
  <2>3. QED
    BY <2>1, <2>2 DEF CallIsSound
<1>13. CommandsAreSound(t)'
  <2>1. \A cmd \in queue[t] : cmd.id \in 1 .. calls
    BY DEF IInv, ThreadInv, CommandsAreSound
  <2>2. Own(t)' = {}
    BY <1>1, <1>4, <1>8, <1>9, <2>1 DEF Own, Alive
  <2>3. QED
    BY <1>1, <1>4, <1>8, <1>9, <2>1, <2>2 DEF IInv, ThreadInv, CommandsAreSound
<1>14. DataIsSound(t)'
  <2>1. op = "read" => \A d \in lbas \X Parts : Pending(t, d[1])'
    BY <1>8, <1>9, <1>11 DEF Pending
  <2>2. QED
    BY <1>1, <1>3, <1>8, <1>9, <1>11, <2>1 DEF DataIsSound
<1>15. QueueIsSound(t)'
  BY <1>1 DEF IInv, ThreadInv, QueueIsSound
<1>16. ThreadInv(t)'
  BY <1>12, <1>13, <1>14, <1>15 DEF ThreadInv
<1>17. QED
  BY <1>1, <1>4, <1>8, <1>9, <1>10, <1>16, OneThreadSteps DEF IInv, Types

-----------------------------------------------------------------------------
(* Steps of a call that goes on.                                           *)

\* The fields that a call keeps.
Continues(c, d) ==
    /\ d \in CallRecords
    /\ d.id = c.id /\ d.op = c.op /\ d.lbas = c.lbas /\ d.cells = c.cells /\ d.before = c.before

LEMMA CallTypes ==
    ASSUME IInv, NEW t \in Threads
    PROVE  /\ call[t] \in CallRecords
           /\ CellsOfCall(t) \subseteq Cells
           /\ call[t].id \in Ids /\ call[t].lbas \subseteq Lbas /\ call[t].first \in Int
           /\ call[t].left \in 0 .. LbaCount /\ call[t].sent \in Nat /\ call[t].set \subseteq Nat
           /\ call[t].op \in {"none", "read", "write"}
           /\ CallIsSound(t) /\ CommandsAreSound(t) /\ DataIsSound(t) /\ QueueIsSound(t)
BY DEF IInv, Types, CallRecords, ThreadInv, CellsOfCall, Cells

LEMMA FillKeeps ==
    ASSUME IInv, NEW t \in Threads, UNCHANGED engine, Fill(t)
    PROVE  IInv'
<1> DEFINE b == [c \in DOMAIN call[t].buffer |-> IF c \in call[t].cells THEN call[t].id ELSE media[c]]
           d == [call[t] EXCEPT !.at = "submit", !.buffer = b]
<1>1. /\ call[t].at = "fill" /\ call' = [call EXCEPT ![t] = d]
      /\ UNCHANGED <<media, queue, contexts, calls, failures, undefined, engine>>
  BY DEF Fill
<1>2. b \in [CellsOfCall(t) -> Contents]
      /\ \A c \in CellsOfCall(t) : b[c] = IF c \in call[t].cells THEN call[t].id ELSE media[c]
  BY CallTypes DEF CallIsSound, IInv, Types, Contents
<1>3. b \in Images
  BY <1>2, BufferTypes, CallTypes
<1> HIDE DEF b
<1>4. /\ Continues(call[t], d) /\ d.at = "submit" /\ d.buffer = b /\ d.first = call[t].first
      /\ d.left = call[t].left /\ d.sent = call[t].sent /\ d.set = call[t].set
      /\ d.failed = call[t].failed
  BY <1>3, CallTypes DEF Continues, CallRecords
<1> HIDE DEF d
<1>5. /\ call' \in [Threads -> CallRecords]
      /\ call'[t] = d
      /\ \A u \in Threads \ {t} : call'[u] = call[u]
  BY <1>1, <1>4, CallBecomes DEF IInv, Continues
<1>6. Types'
  BY <1>1, <1>5 DEF IInv, Types
<1>7. CellsOfCall(t)' = CellsOfCall(t) /\ Rest(t)' = Rest(t) /\ Own(t)' = Own(t)
  BY <1>1, <1>4, <1>5 DEF CellsOfCall, Rest, Own, Alive, Continues
<1>8. CallIsSound(t)'
  BY <1>1, <1>2, <1>4, <1>5, <1>7, CallTypes DEF CallIsSound, Continues
<1>9. CommandsAreSound(t)'
  BY <1>1, <1>4, <1>5, <1>7, CallTypes DEF CommandsAreSound, Continues
<1>10. DataIsSound(t)'
  <2>1. call[t].op = "write" /\ \A c \in CellsOfCall(t) : call[t].before[c] = media[c]
    BY <1>1, CallTypes DEF CallIsSound, DataIsSound
  <2>2. \A c \in CellsOfCall(t) : b[c] = IF c \in d.cells THEN d.id ELSE d.before[c]
    BY <1>2, <1>4, <2>1 DEF Continues
  <2>3. \A c \in CellsOfCall(t) : Pending(t, c[1])'
    <3>1. call[t].lbas \subseteq Rest(t)
      BY <1>1, CallTypes DEF CallIsSound
    <3>2. QED
      BY <1>4, <1>5, <1>7, <3>1 DEF Pending, CellsOfCall
  <2>4. QED
    BY <1>4, <1>5, <1>7, <2>2, <2>3 DEF DataIsSound
<1>11. QueueIsSound(t)'
  BY <1>1, CallTypes DEF QueueIsSound
<1>12. ThreadInv(t)'
  BY <1>8, <1>9, <1>10, <1>11 DEF ThreadInv
<1>13. QED
  BY <1>1, <1>4, <1>5, <1>6, <1>12, OneThreadSteps DEF IInv, Types, Ids, Continues

LEMMA SplitInterval ==
    ASSUME NEW a \in Int, NEW n \in Nat, NEW k \in Nat, k <= n
    PROVE  a .. a + n - 1 = (a .. a + k - 1) \cup (a + k .. a + k + (n - k) - 1)
OBVIOUS

LEMMA OneMore ==
    ASSUME NEW S, NEW x, NEW T, IsFiniteSet(S), T = S \cup {x}
    PROVE  /\ IsFiniteSet(T) /\ Cardinality(S) \in Nat /\ Cardinality(T) \in Nat
           /\ Cardinality(T) <= Cardinality(S) + 1
           /\ x \notin S => Cardinality(T) = Cardinality(S) + 1
<1>1. Cardinality(S) \in Nat
  BY FS_CardinalityType
<1>2. IsFiniteSet(T) /\ Cardinality(T) = IF x \in S THEN Cardinality(S) ELSE Cardinality(S) + 1
  BY FS_AddElement
<1>3. QED
  BY <1>1, <1>2

LEMMA OneLess ==
    ASSUME NEW S, NEW x \in S, NEW T, IsFiniteSet(S), T = S \ {x}
    PROVE  /\ IsFiniteSet(T) /\ Cardinality(S) \in Nat /\ Cardinality(T) \in Nat
           /\ Cardinality(T) = Cardinality(S) - 1
<1>1. Cardinality(S) \in Nat
  BY FS_CardinalityType
<1>2. IsFiniteSet(T) /\ Cardinality(T) = Cardinality(S) - 1
  BY FS_RemoveElement
<1>3. Cardinality(T) \in Nat
  BY <1>2, FS_CardinalityType
<1>4. QED
  BY <1>1, <1>2, <1>3

\* What a call has still to submit is the next chunk and what is left after it.
LEMMA NextChunk ==
    ASSUME IInv, NEW t \in Threads, call[t].left > 0,
           NEW step, step = IF call[t].left > MaxLbas THEN MaxLbas ELSE call[t].left
    PROVE  /\ step \in Nat \ {0} /\ step <= call[t].left /\ step <= MaxLbas
           /\ Chunk(t) = call[t].first .. call[t].first + step - 1
           /\ Rest(t) = Chunk(t) \cup (call[t].first + step
                                        .. call[t].first + step + (call[t].left - step) - 1)
           /\ Chunk(t) \subseteq call[t].lbas
<1>1. call[t].left \in Nat /\ call[t].first \in Int /\ MaxLbas \in Nat \ {0}
  BY CallTypes, EngineAssumption
<1>2. step \in Nat \ {0} /\ step <= call[t].left /\ step <= MaxLbas
  BY <1>1
<1>3. Chunk(t) = call[t].first .. call[t].first + step - 1
  BY DEF Chunk
<1>4. Rest(t) = Chunk(t) \cup (call[t].first + step
                               .. call[t].first + step + (call[t].left - step) - 1)
  <2>1. PICK a \in Int, n \in Nat : a = call[t].first /\ n = call[t].left
    BY <1>1
  <2>2. a .. a + n - 1 = (a .. a + step - 1) \cup (a + step .. a + step + (n - step) - 1)
    BY <1>2, <2>1, SplitInterval
  <2>3. QED
    BY <1>3, <2>1, <2>2 DEF Rest
<1>5. Rest(t) \subseteq call[t].lbas
  BY CallTypes DEF CallIsSound
<1>6. QED
  BY <1>2, <1>3, <1>4, <1>5

LEMMA SubmitKeeps ==
    ASSUME IInv, NEW t \in Threads, UNCHANGED engine, Submit(t)
    PROVE  IInv'
<1>1. PICK step : step = IF call[t].left > MaxLbas THEN MaxLbas ELSE call[t].left
  OBVIOUS
<1> DEFINE d == [call[t] EXCEPT !.first = @ + step, !.left = @ - step, !.sent = @ + 1]
           cmd == Command(t)
<1>2. /\ engine = "async" /\ call[t].at = "submit" /\ call[t].left > 0 /\ contexts[t] > 0
      /\ call' = [call EXCEPT ![t] = d]
      /\ queue' = [queue EXCEPT ![t] = @ \cup {cmd}]
      /\ contexts' = [contexts EXCEPT ![t] = @ - 1]
      /\ UNCHANGED <<media, calls, failures, undefined, engine>>
  BY <1>1 DEF Submit, Submitting
<1>3. /\ step \in Nat \ {0} /\ step <= call[t].left
      /\ Rest(t) = Chunk(t) \cup (call[t].first + step
                                   .. call[t].first + step + (call[t].left - step) - 1)
      /\ Chunk(t) \subseteq call[t].lbas
  BY <1>1, <1>2, NextChunk
<1>4. /\ cmd \in Commands /\ cmd.id = call[t].id /\ cmd.nr = call[t].sent
      /\ cmd.lbas = Chunk(t) /\ ~cmd.done
  BY <1>3, CallTypes DEF Command, Commands
<1> HIDE DEF cmd
<1>5. call[t].left - step \in 0 .. LbaCount /\ call[t].first + step \in Int
      /\ call[t].sent + 1 \in Nat
  BY <1>3, CallTypes, EngineAssumption
<1>6. /\ Continues(call[t], d) /\ d.at = "submit" /\ d.buffer = call[t].buffer
      /\ d.first = call[t].first + step /\ d.left = call[t].left - step
      /\ d.sent = call[t].sent + 1 /\ d.set = call[t].set /\ d.failed = call[t].failed
  BY <1>2, <1>5, CallTypes DEF Continues, CallRecords
<1> HIDE DEF d
<1>7. /\ call' \in [Threads -> CallRecords]
      /\ call'[t] = d
      /\ \A u \in Threads \ {t} : call'[u] = call[u]
  BY <1>2, <1>6, CallBecomes DEF IInv, Continues
<1>8. /\ queue' \in [Threads -> SUBSET Commands]
      /\ queue'[t] = queue[t] \cup {cmd}
      /\ contexts' \in [Threads -> 0 .. QueueDepth]
      /\ contexts'[t] = contexts[t] - 1
      /\ \A u \in Threads \ {t} : queue'[u] = queue[u] /\ contexts'[u] = contexts[u]
  BY <1>2, <1>4, EngineAssumption DEF IInv, Types
<1>9. Types'
  BY <1>2, <1>7, <1>8 DEF IInv, Types
<1>10. /\ CellsOfCall(t)' = CellsOfCall(t)
       /\ Rest(t) = Chunk(t) \cup Rest(t)'
       /\ Own(t)' = Own(t) \cup {cmd}
  BY <1>3, <1>4, <1>6, <1>7, <1>8 DEF CellsOfCall, Rest, Own, Alive, Continues
<1>11. CallIsSound(t)'
  <2>1. call[t].set = {} /\ Rest(t)' \subseteq call[t].lbas
        /\ call[t].id \in 1 .. calls /\ call[t].op \in {"read", "write"}
    BY <1>2, <1>10, CallTypes DEF CallIsSound
  <2>2. QED
    BY <1>2, <1>6, <1>7, <1>10, <2>1, CallTypes DEF CallIsSound, Continues
<1>12. CommandsAreSound(t)'
  <2>1. call[t].set = {} /\ call[t].id \in 1 .. calls
    BY <1>2, CallTypes DEF CallIsSound
  <2>2. \A c \in Own(t) : /\ c.nr \in 0 .. call[t].sent - 1 /\ c.nr # cmd.nr
                          /\ c.lbas \subseteq call[t].lbas
    BY <1>4, CallTypes DEF CommandsAreSound
  <2>3. \A c \in Own(t) : c.nr \in 0 .. d.sent - 1
    BY <1>6, <2>2, CallTypes
  <2>4. cmd.nr \in 0 .. d.sent - 1
    BY <1>4, <1>6, CallTypes
  <2>5. \A c \in queue'[t] : c.id \in 1 .. calls'
    BY <1>2, <1>4, <1>8, <2>1, CallTypes DEF CommandsAreSound
  <2>6. \A c, e \in Own(t)' : c.nr = e.nr => c = e
    BY <1>10, <2>2, CallTypes DEF CommandsAreSound
  <2>7. QED
    BY <1>2, <1>3, <1>4, <1>6, <1>7, <1>10, <2>1, <2>2, <2>3, <2>4, <2>5, <2>6
       DEF CommandsAreSound, Continues
<1>13. DataIsSound(t)'
  <2>1. \A lba : Pending(t, lba) => Pending(t, lba)'
    BY <1>2, <1>4, <1>6, <1>7, <1>10 DEF Pending
  <2>2. QED
    BY <1>2, <1>6, <1>7, <1>10, <2>1, CallTypes DEF DataIsSound, Continues
<1>14. QueueIsSound(t)'
  <2>1. IsFiniteSet(queue[t]) /\ Cardinality(queue[t]) \in Nat
        /\ Cardinality(queue[t]) <= QueueDepth - contexts[t] /\ contexts[t] \in Nat
    BY CallTypes, FS_CardinalityType, EngineAssumption DEF QueueIsSound, IInv, Types
  <2>2. IsFiniteSet(queue'[t]) /\ Cardinality(queue'[t]) \in Nat
        /\ Cardinality(queue'[t]) <= Cardinality(queue[t]) + 1
    BY <1>8, <2>1, OneMore
  <2>3. QED
    BY <1>8, <2>1, <2>2, EngineAssumption DEF QueueIsSound
<1>15. ThreadInv(t)'
  BY <1>11, <1>12, <1>13, <1>14 DEF ThreadInv
<1>16. QED
  BY <1>2, <1>6, <1>7, <1>8, <1>9, <1>15, OneThreadSteps DEF IInv, Types, Ids, Continues

-----------------------------------------------------------------------------
(* The device executes a command, or fails it.                             *)

Completed(cmd) == [cmd EXCEPT !.done = TRUE]

LEMMA CompletedFields ==
    ASSUME NEW cmd \in Commands
    PROVE  /\ Completed(cmd) \in Commands /\ Completed(cmd).id = cmd.id
           /\ Completed(cmd).nr = cmd.nr /\ Completed(cmd).lbas = cmd.lbas /\ Completed(cmd).done
BY DEF Completed, Commands

\* What becomes of the queue and of the commands in it.
LEMMA CompletionKeeps ==
    ASSUME IInv, NEW t \in Threads, NEW cmd \in queue[t], Alive(t, cmd),
           UNCHANGED <<contexts, calls, engine>>,
           queue' = [queue EXCEPT ![t] = (@ \ {cmd}) \cup {Completed(cmd)}],
           Continues(call[t], call'[t]), call'[t].at = call[t].at, call'[t].sent = call[t].sent,
           call'[t].set = call[t].set
    PROVE  /\ queue' \in [Threads -> SUBSET Commands]
           /\ \A u \in Threads \ {t} : queue'[u] = queue[u]
           /\ Own(t)' = (Own(t) \ {cmd}) \cup {Completed(cmd)}
           /\ cmd \in Own(t) /\ cmd \in Commands /\ cmd.lbas \subseteq call[t].lbas
           /\ call[t].at = "submit" /\ call[t].op \in {"read", "write"} /\ engine = "async"
           /\ CommandsAreSound(t)' /\ QueueIsSound(t)'
<1> DEFINE fin == Completed(cmd)
<1>1. cmd \in Commands /\ queue[t] \subseteq Commands
  BY DEF IInv, Types
<1>2. fin \in Commands /\ fin.id = cmd.id /\ fin.nr = cmd.nr /\ fin.lbas = cmd.lbas
  BY <1>1, CompletedFields
<1> HIDE DEF fin
<1>3. queue' \in [Threads -> SUBSET Commands] /\ queue'[t] = (queue[t] \ {cmd}) \cup {fin}
      /\ \A u \in Threads \ {t} : queue'[u] = queue[u]
  BY <1>2 DEF IInv, Types, fin
<1>4. cmd \in Own(t) /\ call'[t].id = call[t].id /\ call'[t].lbas = call[t].lbas
  BY DEF Own, Continues
<1>5. Own(t)' = (Own(t) \ {cmd}) \cup {fin}
  BY <1>2, <1>3, <1>4 DEF Own, Alive
<1>6. call[t].at = "submit" /\ cmd.lbas \subseteq call[t].lbas /\ engine # "sync"
  BY <1>4, CallTypes DEF CommandsAreSound
<1>7. call[t].op \in {"read", "write"} /\ engine = "async"
  BY <1>6, CallTypes DEF CallIsSound, IInv, Types
<1>8. CommandsAreSound(t)'
  <2>1. CommandsAreSound(t)
    BY CallTypes
  <2>2. \A c \in queue'[t] : c.id \in 1 .. calls'
    BY <1>2, <1>3, <2>1 DEF CommandsAreSound
  <2>3. \A c \in Own(t)' :
          /\ call'[t].at = "submit"
          /\ c.nr \in 0 .. call'[t].sent - 1 /\ c.nr \notin call'[t].set
          /\ c.lbas \subseteq call'[t].lbas
    BY <1>2, <1>4, <1>5, <2>1 DEF CommandsAreSound
  <2>4. \A c, e \in Own(t)' : c.nr = e.nr => c = e
    BY <1>2, <1>4, <1>5, <2>1 DEF CommandsAreSound
  <2>5. QED
    BY <1>6, <2>2, <2>3, <2>4 DEF CommandsAreSound
<1>9. QueueIsSound(t)'
  <2>1. PICK rest : rest = queue[t] \ {cmd}
    OBVIOUS
  <2>2. QueueIsSound(t) /\ contexts[t] \in Int
    BY CallTypes, EngineAssumption DEF IInv, Types
  <2>3. IsFiniteSet(rest) /\ Cardinality(rest) = Cardinality(queue[t]) - 1
        /\ Cardinality(queue[t]) \in Nat
    BY <2>1, <2>2, OneLess DEF QueueIsSound
  <2>4. IsFiniteSet(queue'[t]) /\ Cardinality(queue'[t]) <= Cardinality(rest) + 1
        /\ Cardinality(queue'[t]) \in Nat
    BY <1>3, <2>1, <2>3, OneMore
  <2>5. QED
    BY <2>2, <2>3, <2>4, EngineAssumption DEF QueueIsSound
<1>10. QED
  BY <1>1, <1>3, <1>4, <1>5, <1>6, <1>7, <1>8, <1>9 DEF fin

LEMMA ExecuteKeeps ==
    ASSUME IInv, NEW t \in Threads, NEW cmd \in queue[t], UNCHANGED engine, Execute(t, cmd)
    PROVE  IInv'
<1> DEFINE b == BufferAfter(t, cmd.lbas)
           d == [call[t] EXCEPT !.buffer = b]
<1>1. /\ ~cmd.done /\ Alive(t, cmd)
      /\ queue' = [queue EXCEPT ![t] = (@ \ {cmd}) \cup {Completed(cmd)}]
      /\ media' = MediaAfter(t, cmd.lbas)
      /\ call' = [call EXCEPT ![t] = d]
      /\ UNCHANGED <<contexts, calls, failures, undefined, engine>>
  BY DEF Execute, Completed
<1>2. b \in [CellsOfCall(t) -> Contents]
      /\ \A c \in CellsOfCall(t) :
            b[c] = IF call[t].op # "write" /\ c[1] \in cmd.lbas THEN media[c] ELSE call[t].buffer[c]
  <2>1. call[t].buffer \in [CellsOfCall(t) -> Contents] /\ media \in [Cells -> Contents]
        /\ CellsOfCall(t) \subseteq Cells
    BY CallTypes DEF CallIsSound, IInv, Types
  <2>2. QED
    BY <2>1 DEF BufferAfter
<1>3. b \in Images
  BY <1>2, BufferTypes, CallTypes
<1> HIDE DEF b
<1>4. /\ Continues(call[t], d) /\ d.at = call[t].at /\ d.buffer = b /\ d.first = call[t].first
      /\ d.left = call[t].left /\ d.sent = call[t].sent /\ d.set = call[t].set
      /\ d.failed = call[t].failed
  BY <1>3, CallTypes DEF Continues, CallRecords
<1> HIDE DEF d
<1>5. /\ call' \in [Threads -> CallRecords]
      /\ call'[t] = d
      /\ \A u \in Threads \ {t} : call'[u] = call[u]
  BY <1>1, <1>4, CallBecomes DEF IInv, Continues
<1>6. /\ queue' \in [Threads -> SUBSET Commands]
      /\ \A u \in Threads \ {t} : queue'[u] = queue[u]
      /\ Own(t)' = (Own(t) \ {cmd}) \cup {Completed(cmd)}
      /\ cmd \in Own(t) /\ cmd \in Commands /\ cmd.lbas \subseteq call[t].lbas
      /\ call[t].at = "submit" /\ call[t].op \in {"read", "write"}
      /\ CommandsAreSound(t)' /\ QueueIsSound(t)'
  BY <1>1, <1>4, <1>5, CompletionKeeps
<1>7. /\ media' \in [Cells -> Contents]
      /\ \A u \in Threads \ {t} : \A c \in CellsOfCall(u) : media'[c] = media[c]
      /\ \A c \in CellsOfCall(t) :
            media'[c] = IF call[t].op # "read" /\ c[1] \in cmd.lbas THEN call[t].buffer[c]
                        ELSE media[c]
  BY <1>1, <1>6, WritesStayApart
<1>8. Types'
  BY <1>1, <1>5, <1>6, <1>7 DEF IInv, Types
<1>9. CellsOfCall(t)' = CellsOfCall(t) /\ Rest(t)' = Rest(t)
  BY <1>4, <1>5 DEF CellsOfCall, Rest, Continues
<1>10. CallIsSound(t)'
  BY <1>1, <1>2, <1>4, <1>5, <1>6, <1>9, CallTypes DEF CallIsSound, Continues
<1>11. DataIsSound(t)'
  <2>1. \A lba : Pending(t, lba) /\ lba \notin cmd.lbas => Pending(t, lba)'
    BY <1>4, <1>5, <1>6, <1>9 DEF Pending
  <2>2. ASSUME ~call[t].failed, NEW c \in CellsOfCall(t), ~Pending(t, c[1])'
        PROVE  b[c] = media'[c]
    <3>1. CASE c[1] \in cmd.lbas
      BY <1>2, <1>6, <1>7, <3>1
    <3>2. CASE c[1] \notin cmd.lbas
      <4>1. call[t].buffer[c] = media[c]
        BY <1>6, <2>1, <2>2, <3>2, CallTypes DEF DataIsSound
      <4>2. QED
        BY <1>2, <1>7, <3>2, <4>1
    <3>3. QED
      BY <3>1, <3>2
  <2>3. ASSUME call[t].op = "write", NEW c \in CellsOfCall(t)
        PROVE  b[c] = IF c \in call[t].cells THEN call[t].id ELSE call[t].before[c]
    BY <1>2, <1>6, <2>3, CallTypes DEF DataIsSound
  <2>4. QED
    BY <1>4, <1>5, <1>6, <1>9, <2>2, <2>3 DEF DataIsSound, Continues
<1>12. ThreadInv(t)'
  BY <1>6, <1>10, <1>11 DEF ThreadInv
<1>13. QED
  BY <1>1, <1>4, <1>5, <1>6, <1>7, <1>8, <1>12, OneThreadSteps DEF IInv, Types, Ids, Continues

LEMMA ExecuteFailsKeeps ==
    ASSUME IInv, NEW t \in Threads, NEW cmd \in queue[t], UNCHANGED engine, ExecuteFails(t, cmd)
    PROVE  IInv'
<1> DEFINE d == [call[t] EXCEPT !.failed = TRUE]
<1>1. /\ Alive(t, cmd)
      /\ queue' = [queue EXCEPT ![t] = (@ \ {cmd}) \cup {Completed(cmd)}]
      /\ call' = [call EXCEPT ![t] = d]
      /\ failures' = [failures EXCEPT !.device = @ + 1]
      /\ UNCHANGED <<media, contexts, calls, undefined, engine>>
  BY DEF ExecuteFails, Completed
<1>2. /\ Continues(call[t], d) /\ d.at = call[t].at /\ d.buffer = call[t].buffer
      /\ d.first = call[t].first /\ d.left = call[t].left /\ d.sent = call[t].sent
      /\ d.set = call[t].set /\ d.failed = TRUE
  BY CallTypes DEF Continues, CallRecords
<1> HIDE DEF d
<1>3. /\ call' \in [Threads -> CallRecords]
      /\ call'[t] = d
      /\ \A u \in Threads \ {t} : call'[u] = call[u]
  BY <1>1, <1>2, CallBecomes DEF IInv, Continues
<1>4. /\ queue' \in [Threads -> SUBSET Commands]
      /\ \A u \in Threads \ {t} : queue'[u] = queue[u]
      /\ call[t].at = "submit" /\ CommandsAreSound(t)' /\ QueueIsSound(t)'
  BY <1>1, <1>2, <1>3, CompletionKeeps
<1>5. Types'
  BY <1>1, <1>3, <1>4, FailuresCount DEF IInv, Types
<1>6. CellsOfCall(t)' = CellsOfCall(t) /\ Rest(t)' = Rest(t)
  BY <1>2, <1>3 DEF CellsOfCall, Rest, Continues
<1>7. CallIsSound(t)'
  BY <1>1, <1>2, <1>3, <1>4, <1>6, CallTypes DEF CallIsSound, Continues
<1>8. DataIsSound(t)'
  BY <1>2, <1>3, <1>4, <1>6, CallTypes DEF DataIsSound, Continues
<1>9. ThreadInv(t)'
  BY <1>4, <1>7, <1>8 DEF ThreadInv
<1>10. QED
  BY <1>1, <1>2, <1>3, <1>4, <1>5, <1>9, OneThreadSteps DEF IInv, Types, Ids, Continues

-----------------------------------------------------------------------------
(* Completions, and the end of a call.                                     *)

LEMMA CommandCallbackKeeps ==
    ASSUME IInv, NEW t \in Threads, NEW cmd \in queue[t], UNCHANGED engine, CommandCallback(t, cmd)
    PROVE  IInv'
<1> DEFINE d == [call[t] EXCEPT !.set = @ \cup {cmd.nr}]
<1>1. /\ call[t].at = "submit" /\ call[t].left = 0 /\ cmd.done /\ Alive(t, cmd)
      /\ queue' = [queue EXCEPT ![t] = @ \ {cmd}]
      /\ contexts' = [contexts EXCEPT ![t] = @ + 1]
      /\ call' = [call EXCEPT ![t] = d]
      /\ UNCHANGED <<media, calls, failures, undefined, engine>>
  BY DEF CommandCallback
<1>2. cmd \in Commands /\ cmd \in Own(t) /\ cmd.nr \in 0 .. call[t].sent - 1
  BY <1>1, CallTypes DEF IInv, Types, Own, CommandsAreSound
<1>3. /\ Continues(call[t], d) /\ d.at = call[t].at /\ d.buffer = call[t].buffer
      /\ d.first = call[t].first /\ d.left = call[t].left /\ d.sent = call[t].sent
      /\ d.set = call[t].set \cup {cmd.nr} /\ d.failed = call[t].failed
  <2>1. call[t].set \cup {cmd.nr} \in SUBSET Nat
    BY <1>2, CallTypes DEF Commands
  <2>2. QED
    BY <2>1, CallTypes DEF Continues, CallRecords
<1> HIDE DEF d
<1>4. /\ call' \in [Threads -> CallRecords]
      /\ call'[t] = d
      /\ \A u \in Threads \ {t} : call'[u] = call[u]
  BY <1>1, <1>3, CallBecomes DEF IInv, Continues
<1>5. QueueIsSound(t)' /\ contexts'[t] \in 0 .. QueueDepth
  <2>1. QueueIsSound(t) /\ contexts[t] \in 0 .. QueueDepth
    BY CallTypes DEF IInv, Types
  <2>2. queue'[t] = queue[t] \ {cmd} /\ contexts'[t] = contexts[t] + 1
    BY <1>1 DEF IInv, Types
  <2>3. IsFiniteSet(queue'[t]) /\ Cardinality(queue'[t]) = Cardinality(queue[t]) - 1
        /\ Cardinality(queue'[t]) \in Nat /\ Cardinality(queue[t]) \in Nat
    BY <2>1, <2>2, OneLess DEF QueueIsSound
  <2>4. QED
    BY <2>1, <2>2, <2>3, EngineAssumption DEF QueueIsSound
<1>6. /\ queue' \in [Threads -> SUBSET Commands]
      /\ queue'[t] = queue[t] \ {cmd}
      /\ contexts' \in [Threads -> 0 .. QueueDepth]
      /\ \A u \in Threads \ {t} : queue'[u] = queue[u] /\ contexts'[u] = contexts[u]
  BY <1>1, <1>5 DEF IInv, Types
<1>7. Types'
  BY <1>1, <1>4, <1>6 DEF IInv, Types
<1>8. CellsOfCall(t)' = CellsOfCall(t) /\ Rest(t)' = Rest(t) /\ Own(t)' = Own(t) \ {cmd}
  BY <1>3, <1>4, <1>6 DEF CellsOfCall, Rest, Own, Alive, Continues
<1>9. CallIsSound(t)'
  BY <1>1, <1>2, <1>3, <1>4, <1>8, CallTypes DEF CallIsSound, Continues
<1>10. CommandsAreSound(t)'
  <2>1. CommandsAreSound(t)
    BY CallTypes
  <2>2. \A c \in queue'[t] : c.id \in 1 .. calls'
    BY <1>1, <1>6, <2>1 DEF CommandsAreSound
  <2>3. \A c \in Own(t)' : c \in Own(t) /\ c.nr # cmd.nr
    BY <1>2, <1>8, <2>1 DEF CommandsAreSound
  <2>4. \A c \in Own(t)' :
          /\ d.at = "submit"
          /\ c.nr \in 0 .. d.sent - 1 /\ c.nr \notin d.set
          /\ c.lbas \subseteq d.lbas
    BY <1>3, <2>1, <2>3 DEF CommandsAreSound, Continues
  <2>5. engine = "sync" => FALSE
    BY <1>2, <2>1 DEF CommandsAreSound, Own
  <2>6. \A c, e \in Own(t)' : c.nr = e.nr => c = e
    BY <2>1, <2>3 DEF CommandsAreSound
  <2>7. QED
    BY <1>1, <1>4, <2>2, <2>4, <2>5, <2>6 DEF CommandsAreSound
<1>11. DataIsSound(t)'
  <2>1. \A lba : Pending(t, lba) => Pending(t, lba)'
    BY <1>1, <1>3, <1>4, <1>8 DEF Pending
  <2>2. QED
    BY <1>1, <1>3, <1>4, <1>8, <2>1, CallTypes DEF DataIsSound, Continues
<1>12. ThreadInv(t)'
  BY <1>5, <1>9, <1>10, <1>11 DEF ThreadInv
<1>13. QED
  BY <1>1, <1>3, <1>4, <1>6, <1>7, <1>12, OneThreadSteps DEF IInv, Types, Ids, Continues

\* When every promise is set, no command of the call is left.
LEMMA ReadyMeansDone ==
    ASSUME IInv, NEW t \in Threads, AllReady(t)
    PROVE  Own(t) = {} /\ \A lba : ~Pending(t, lba)
<1>1. call[t].set \subseteq 0 .. call[t].sent - 1 /\ call[t].sent \in Nat
  BY CallTypes DEF CallIsSound
<1>2. IsFiniteSet(0 .. call[t].sent - 1) /\ Cardinality(0 .. call[t].sent - 1) = call[t].sent
  <2>1. PICK n \in Nat : n = call[t].sent
    BY <1>1
  <2>2. IsFiniteSet(0 .. n - 1) /\ Cardinality(0 .. n - 1) = n
    BY FS_Interval
  <2>3. QED
    BY <2>1, <2>2
<1>3. call[t].set = 0 .. call[t].sent - 1
  BY <1>1, <1>2, FS_Subset DEF AllReady
<1>4. Own(t) = {}
  BY <1>3, CallTypes DEF CommandsAreSound
<1>5. Rest(t) = {}
  BY CallTypes DEF AllReady, Rest
<1>6. QED
  BY <1>4, <1>5 DEF Pending

LEMMA FinishKeeps ==
    ASSUME IInv, NEW t \in Threads, UNCHANGED engine, Finish(t)
    PROVE  IInv'
<1> DEFINE d == [call[t] EXCEPT !.at = "return"]
<1>1. /\ AllReady(t) /\ call[t].at = "submit" /\ call' = [call EXCEPT ![t] = d]
      /\ UNCHANGED <<media, queue, contexts, calls, failures, undefined, engine>>
  BY DEF Finish, AllReady
<1>2. /\ Continues(call[t], d) /\ d.at = "return" /\ d.buffer = call[t].buffer
      /\ d.first = call[t].first /\ d.left = call[t].left /\ d.sent = call[t].sent
      /\ d.set = call[t].set /\ d.failed = call[t].failed
  BY CallTypes DEF Continues, CallRecords
<1> HIDE DEF d
<1>3. /\ call' \in [Threads -> CallRecords]
      /\ call'[t] = d
      /\ \A u \in Threads \ {t} : call'[u] = call[u]
  BY <1>1, <1>2, CallBecomes DEF IInv, Continues
<1>4. Types'
  BY <1>1, <1>3 DEF IInv, Types
<1>5. CellsOfCall(t)' = CellsOfCall(t) /\ Rest(t)' = Rest(t) /\ Own(t)' = Own(t)
  BY <1>1, <1>2, <1>3 DEF CellsOfCall, Rest, Own, Alive, Continues
<1>6. Own(t) = {} /\ \A lba : ~Pending(t, lba)
  BY <1>1, ReadyMeansDone
<1>7. CallIsSound(t)'
  BY <1>1, <1>2, <1>3, <1>5, CallTypes DEF CallIsSound, Continues
<1>8. CommandsAreSound(t)'
  BY <1>1, <1>2, <1>3, <1>5, <1>6, CallTypes DEF CommandsAreSound, Continues
<1>9. DataIsSound(t)'
  BY <1>1, <1>2, <1>3, <1>5, <1>6, CallTypes DEF DataIsSound, Continues
<1>10. QueueIsSound(t)'
  BY <1>1, CallTypes DEF QueueIsSound
<1>11. ThreadInv(t)'
  BY <1>7, <1>8, <1>9, <1>10 DEF ThreadInv
<1>12. QED
  BY <1>1, <1>2, <1>3, <1>4, <1>11, OneThreadSteps DEF IInv, Types, Ids, Continues

LEMMA TransferSyncKeeps ==
    ASSUME IInv, NEW t \in Threads, UNCHANGED engine, TransferSync(t)
    PROVE  IInv'
<1> DEFINE b == BufferAfter(t, call[t].lbas)
           d == [call[t] EXCEPT !.at = "return", !.buffer = b]
<1>1. /\ engine = "sync" /\ call[t].at = "submit"
      /\ media' = MediaAfter(t, call[t].lbas)
      /\ call' = [call EXCEPT ![t] = d]
      /\ UNCHANGED <<queue, contexts, calls, failures, undefined, engine>>
  BY DEF TransferSync
<1>2. b \in [CellsOfCall(t) -> Contents]
      /\ \A c \in CellsOfCall(t) :
            b[c] = IF call[t].op # "write" THEN media[c] ELSE call[t].buffer[c]
  <2>1. call[t].buffer \in [CellsOfCall(t) -> Contents] /\ media \in [Cells -> Contents]
        /\ CellsOfCall(t) \subseteq Cells
    BY CallTypes DEF CallIsSound, IInv, Types
  <2>2. QED
    BY <2>1 DEF BufferAfter, CellsOfCall
<1>3. b \in Images
  BY <1>2, BufferTypes, CallTypes
<1> HIDE DEF b
<1>4. /\ Continues(call[t], d) /\ d.at = "return" /\ d.buffer = b /\ d.first = call[t].first
      /\ d.left = call[t].left /\ d.sent = call[t].sent /\ d.set = call[t].set
      /\ d.failed = call[t].failed
  BY <1>3, CallTypes DEF Continues, CallRecords
<1> HIDE DEF d
<1>5. /\ call' \in [Threads -> CallRecords]
      /\ call'[t] = d
      /\ \A u \in Threads \ {t} : call'[u] = call[u]
  BY <1>1, <1>4, CallBecomes DEF IInv, Continues
<1>6. /\ media' \in [Cells -> Contents]
      /\ \A u \in Threads \ {t} : \A c \in CellsOfCall(u) : media'[c] = media[c]
      /\ \A c \in CellsOfCall(t) :
            media'[c] = IF call[t].op # "read" THEN call[t].buffer[c] ELSE media[c]
  BY <1>1, WritesStayApart DEF CellsOfCall
<1>7. Types'
  BY <1>1, <1>5, <1>6 DEF IInv, Types
<1>8. CellsOfCall(t)' = CellsOfCall(t) /\ Rest(t)' = Rest(t) /\ Own(t)' = Own(t) /\ Own(t) = {}
  BY <1>1, <1>4, <1>5, CallTypes DEF CellsOfCall, Rest, Own, Alive, Continues, CommandsAreSound
<1>9. CallIsSound(t)'
  BY <1>1, <1>2, <1>4, <1>5, <1>8, CallTypes DEF CallIsSound, Continues
<1>10. CommandsAreSound(t)'
  BY <1>1, <1>4, <1>5, <1>8, CallTypes DEF CommandsAreSound, Continues
<1>11. DataIsSound(t)'
  <2>1. call[t].op \in {"read", "write"}
    BY <1>1, CallTypes DEF CallIsSound
  <2>2. \A c \in CellsOfCall(t) : b[c] = media'[c]
    BY <1>2, <1>6, <2>1
  <2>3. call[t].op = "write" => \A c \in CellsOfCall(t) :
            b[c] = IF c \in call[t].cells THEN call[t].id ELSE call[t].before[c]
    BY <1>1, <1>2, CallTypes DEF DataIsSound
  <2>4. QED
    BY <1>4, <1>5, <1>8, <2>2, <2>3 DEF DataIsSound, Continues
<1>12. QueueIsSound(t)'
  BY <1>1, CallTypes DEF QueueIsSound
<1>13. ThreadInv(t)'
  BY <1>9, <1>10, <1>11, <1>12 DEF ThreadInv
<1>14. QED
  BY <1>1, <1>4, <1>5, <1>6, <1>7, <1>13, OneThreadSteps DEF IInv, Types, Ids, Continues

LEMMA UndefinedKeeps ==
    ASSUME IInv, NEW t \in Threads, UNCHANGED engine,
           NoContext(t) \/ \E cmd \in queue[t] : UseAfterFree(t, cmd)
    PROVE  IInv'
<1>1. undefined' = TRUE
      /\ UNCHANGED <<media, call, queue, contexts, calls, failures, engine>>
  BY DEF NoContext, UseAfterFree
<1>2. Types'
  BY <1>1 DEF IInv, Types
<1>3. calls \in Nat
  BY EngineAssumption DEF IInv, Types, Ids
<1>4. \A u \in Threads : ThreadInv(u)'
  BY <1>1, <1>3, OthersKeep DEF IInv
<1>5. QED
  BY <1>1, <1>2, <1>4 DEF IInv, CallsAreApart

LEMMA StutterKeeps ==
    ASSUME IInv, UNCHANGED vars
    PROVE  IInv'
<1>1. Types'
  BY DEF IInv, Types, vars
<1>2. calls \in Nat
  BY EngineAssumption DEF IInv, Types, Ids
<1>3. \A u \in Threads : ThreadInv(u)'
  BY <1>2, OthersKeep DEF IInv, vars
<1>4. QED
  BY <1>1, <1>3 DEF IInv, CallsAreApart, vars

LEMMA CallKeeps ==
    ASSUME IInv, NEW t \in Threads, UNCHANGED engine, Call(t)
    PROVE  IInv'
<1>1. PICK lba \in Lbas, nr_lbas \in 1 .. MaxTransfer :
        \/ Begin(t, "read", lba, nr_lbas, (lba .. lba + nr_lbas - 1) \X Parts)
        \/ \E cells \in CellsOf(lba, nr_lbas) : Begin(t, "write", lba, nr_lbas, cells)
  BY DEF Call
<1>2. CellsOf(lba, nr_lbas) \subseteq SUBSET ((lba .. lba + nr_lbas - 1) \X Parts)
  BY DEF CellsOf
<1>3. CASE Begin(t, "read", lba, nr_lbas, (lba .. lba + nr_lbas - 1) \X Parts)
  BY <1>3, BeginKeeps
<1>4. CASE \E cells \in CellsOf(lba, nr_lbas) : Begin(t, "write", lba, nr_lbas, cells)
  BY <1>2, <1>4, BeginKeeps
<1>5. QED
  BY <1>1, <1>3, <1>4

LEMMA StepKeeps == IInv /\ [Next]_vars => IInv'
<1> SUFFICES ASSUME IInv, [Next]_vars PROVE IInv'
  OBVIOUS
<1>1. CASE UNCHANGED vars
  BY <1>1, StutterKeeps
<1>2. ASSUME NEW t \in Threads, UNCHANGED engine, Call(t) \/ Step(t) \/ Device(t)
      PROVE  IInv'
  <2>1. CASE Call(t)
    BY <1>2, <2>1, CallKeeps
  <2>2. CASE Step(t)
    BY <1>2, <2>2, FillKeeps, CallsThrow, SubmitKeeps, UndefinedKeeps, TransferSyncKeeps,
       CommandCallbackKeeps, FinishKeeps DEF Step, Poll
  <2>3. CASE Device(t)
    BY <1>2, <2>3, ExecuteKeeps, ExecuteFailsKeeps, UndefinedKeeps DEF Device
  <2>4. QED
    BY <1>2, <2>1, <2>2, <2>3
<1>3. QED
  BY <1>1, <1>2 DEF Next, Goes

LEMMA Invariance == Spec => []IInv
BY Initially, StepKeeps, PTL DEF Spec

-----------------------------------------------------------------------------
(* What every call returns.                                                *)

\* The state of the engine keeps its types, and no queue holds more commands than
\* XNVME_QUEUE_DEPTH contexts allow, for any number of threads and any transfer.
THEOREM TypeCorrect == Spec => []TypeOK
<1>1. IInv => TypeOK
  <2> SUFFICES ASSUME IInv PROVE TypeOK
    OBVIOUS
  <2>1. ASSUME NEW t \in Threads
        PROVE  /\ call[t].id \in Ids
               /\ call[t].at \in {"idle", "fill", "submit", "return"}
               /\ call[t].lbas \subseteq Lbas
               /\ call[t].cells \subseteq call[t].lbas \X Parts
               /\ call[t].left \in 0 .. LbaCount
               /\ call[t].set \subseteq 0 .. call[t].sent - 1
               /\ call[t].buffer \in [call[t].lbas \X Parts -> Contents]
               /\ contexts[t] \in 0 .. QueueDepth
               /\ Cardinality(queue[t]) <= QueueDepth - contexts[t]
    BY CallTypes DEF CallIsSound, QueueIsSound, CellsOfCall, CallRecords, IInv, Types
  <2>2. QED
    BY <2>1 DEF TypeOK, IInv, Types
<1>2. QED
  BY <1>1, Invariance, PTL

\* A read returns the LBAs as they are on the device, whatever the order in which
\* the device executes the chunks of all threads: NvmeAsyncIOEngine::Read copies
\* its buffer when every future is ready (nvme_async_io_engine.hpp:83).
THEOREM ChunksMakeUpTheRead == Spec => []ReadsAreExact
<1>1. IInv => ReadsAreExact
  <2> SUFFICES ASSUME IInv, NEW t \in Threads, Returns(t, "read"), ~call[t].failed,
                      NEW c \in call[t].cells
               PROVE  call[t].buffer[c] = media[c]
    BY DEF ReadsAreExact
  <2>1. c \in CellsOfCall(t) /\ ~Pending(t, c[1])
    BY CallTypes DEF CallIsSound, Pending, Returns
  <2>2. QED
    BY <2>1, CallTypes DEF DataIsSound, Returns
<1>2. QED
  BY <1>1, Invariance, PTL

\* What a write leaves on the device when it returns, if no command has failed.
LEMMA ReturnedWrites ==
    ASSUME IInv, NEW t \in Threads, Returns(t, "write"), ~call[t].failed
    PROVE  Written(t)
<1> SUFFICES ASSUME NEW c \in CellsOfCall(t)
             PROVE  media[c] = IF c \in call[t].cells THEN call[t].id ELSE call[t].before[c]
  BY DEF Written, CellsOfCall
<1>1. ~Pending(t, c[1])
  BY DEF Pending, Returns
<1>2. QED
  BY <1>1, CallTypes DEF DataIsSound, Returns

\* A write that returns has put its data, and nothing else, on the device, also if
\* its first and last LBA are not its own and were read first
\* (nvme_async_io_engine.hpp:115): no call under way changes them meanwhile.
THEOREM PartialWritesPreserveData == Spec => []WritesAreExact
<1>1. IInv => WritesAreExact
  BY ReturnedWrites DEF WritesAreExact
<1>2. QED
  BY <1>1, Invariance, PTL

\* With the synchronous engine that holds whatever fails: NvmeSyncIOEngine::Write
\* throws if its command does (nvme_sync_io_engine.hpp:71), so no call that returns
\* has had a command that failed.
THEOREM SyncErrorsAreThrown == Spec => []SyncWritesReachTheDevice
<1>1. IInv => SyncWritesReachTheDevice
  <2> SUFFICES ASSUME IInv, engine = "sync", NEW t \in Threads, Returns(t, "write")
               PROVE  Written(t)
    BY DEF SyncWritesReachTheDevice, WritesReachTheDevice
  <2>1. ~call[t].failed
    BY CallTypes DEF CommandsAreSound
  <2>2. QED
    BY <2>1, ReturnedWrites
<1>2. QED
  BY <1>1, Invariance, PTL

-----------------------------------------------------------------------------
(* What commands and contexts cannot be lost to.                           *)

\* A queue has a context for each chunk of a transfer.
TransfersFit == MaxTransfer <= MaxLbas * QueueDepth

LEMMA OneThreadAccounts ==
    ASSUME IInv, NothingIsLost, NEW t \in Threads,
           failures.submit = 0 => AllAccountedFor(t)' /\ ~undefined',
           failures'.submit = failures.submit,
           \A u \in Threads \ {t} :
                call'[u] = call[u] /\ queue'[u] = queue[u] /\ contexts'[u] = contexts[u]
    PROVE  NothingIsLost'
<1>1. ASSUME NEW u \in Threads \ {t}, AllAccountedFor(u)
      PROVE  AllAccountedFor(u)'
  BY <1>1 DEF AllAccountedFor, Own, Alive
<1>2. QED
  BY <1>1 DEF NothingIsLost

\* A call that ends has no command left, unless a submission was refused.
LEMMA NothingLeftBehind ==
    ASSUME IInv, NEW t \in Threads, AllAccountedFor(t), call[t].at # "submit" \/ engine = "sync"
    PROVE  queue[t] = {} /\ contexts[t] = QueueDepth
<1>1. queue[t] = {}
  BY CallTypes DEF AllAccountedFor, CommandsAreSound
<1>2. Cardinality(queue[t]) = 0
  BY <1>1, FS_EmptySet
<1>3. contexts[t] \in Int /\ QueueDepth \in Int /\ 0 = QueueDepth - contexts[t]
  BY <1>2, EngineAssumption DEF AllAccountedFor, IInv, Types
<1>4. QED
  BY <1>1, <1>3

LEMMA CallsEndCleanly ==
    ASSUME IInv, NothingIsLost, NEW t \in Threads, UNCHANGED engine,
           FillFails(t) \/ TransferSyncFails(t) \/ Return(t)
    PROVE  NothingIsLost'
<1>1. /\ Throw(t) /\ UNCHANGED <<queue, contexts, undefined>>
      /\ failures'.submit = failures.submit
      /\ call[t].at # "submit" \/ engine = "sync"
  BY FailuresCount DEF IInv, FillFails, TransferSyncFails, Return
<1>2. call'[t] = NoCall /\ \A u \in Threads \ {t} : call'[u] = call[u]
  BY <1>1, CallBecomes, Idling DEF IInv, Throw
<1>3. ASSUME failures.submit = 0
      PROVE  AllAccountedFor(t)' /\ ~undefined'
  <2>1. queue[t] = {} /\ contexts[t] = QueueDepth
    BY <1>1, <1>3, NothingLeftBehind DEF NothingIsLost
  <2>2. Cardinality(queue'[t]) = 0 /\ Own(t)' = {} /\ QueueDepth \in Int
    BY <1>1, <2>1, FS_EmptySet, EngineAssumption DEF Own
  <2>3. QED
    BY <1>1, <1>2, <1>3, <2>1, <2>2, Idling DEF AllAccountedFor, NothingIsLost
<1>4. QED
  BY <1>1, <1>2, <1>3, OneThreadAccounts

LEMMA BeginAccounts ==
    ASSUME IInv, NothingIsLost, NEW t \in Threads, UNCHANGED engine, Call(t)
    PROVE  NothingIsLost'
<1>1. PICK nr_lbas \in 1 .. MaxTransfer :
        /\ call[t] = NoCall
        /\ call'[t].id = calls + 1 /\ call'[t].sent = 0 /\ call'[t].left = nr_lbas
        /\ \A u \in Threads \ {t} : call'[u] = call[u]
        /\ UNCHANGED <<queue, contexts, failures, undefined>>
  <2>1. ASSUME NEW op, NEW lba, NEW nr_lbas, NEW cells, Begin(t, op, lba, nr_lbas, cells)
        PROVE  /\ call[t] = NoCall
               /\ call'[t].id = calls + 1 /\ call'[t].sent = 0 /\ call'[t].left = nr_lbas
               /\ \A u \in Threads \ {t} : call'[u] = call[u]
               /\ UNCHANGED <<queue, contexts, failures, undefined>>
    BY <2>1 DEF Begin, IInv, Types
  <2>2. QED
    BY <2>1 DEF Call
<1>2. ASSUME failures.submit = 0
      PROVE  AllAccountedFor(t)' /\ ~undefined'
  <2>1. AllAccountedFor(t) /\ call[t].at # "submit"
    BY <1>1, <1>2, Idling DEF NothingIsLost
  <2>2. queue[t] = {} /\ contexts[t] = QueueDepth
    BY <2>1, NothingLeftBehind
  <2>3. Cardinality(queue'[t]) = 0 /\ Own(t)' = {} /\ QueueDepth \in Int
    BY <1>1, <2>2, FS_EmptySet, EngineAssumption DEF Own
  <2>4. call'[t].sent * MaxLbas + call'[t].left <= MaxTransfer
    BY <1>1, EngineAssumption
  <2>5. QED
    BY <1>1, <1>2, <2>2, <2>3, <2>4 DEF AllAccountedFor, NothingIsLost
<1>3. QED
  BY <1>1, <1>2, OneThreadAccounts

\* Steps that neither add nor remove a command.
LEMMA SameQueueAccounts ==
    ASSUME IInv, NothingIsLost, NEW t \in Threads, UNCHANGED engine,
           Fill(t) \/ Finish(t) \/ TransferSync(t)
    PROVE  NothingIsLost'
<1>1. /\ UNCHANGED <<queue, contexts, failures, undefined>>
      /\ call'[t].id = call[t].id /\ call'[t].sent = call[t].sent
      /\ call'[t].left = call[t].left
      /\ \A u \in Threads \ {t} : call'[u] = call[u]
  BY CallTypes DEF Fill, Finish, TransferSync, IInv, Types, CallRecords
<1>2. ASSUME failures.submit = 0
      PROVE  AllAccountedFor(t)' /\ ~undefined'
  BY <1>1, <1>2 DEF NothingIsLost, AllAccountedFor, Own, Alive
<1>3. QED
  BY <1>1, <1>2, OneThreadAccounts

\* The device keeps a command in the queue until it is polled.
LEMMA CompletionAccounts ==
    ASSUME IInv, NothingIsLost, NEW t \in Threads, NEW cmd \in queue[t], UNCHANGED engine,
           Execute(t, cmd) \/ ExecuteFails(t, cmd)
    PROVE  NothingIsLost'
<1>1. /\ Alive(t, cmd) /\ ~cmd.done
      /\ queue' = [queue EXCEPT ![t] = (@ \ {cmd}) \cup {Completed(cmd)}]
      /\ failures'.submit = failures.submit
      /\ UNCHANGED <<contexts, calls, undefined>>
      /\ call'[t].id = call[t].id /\ call'[t].sent = call[t].sent
      /\ call'[t].left = call[t].left
      /\ \A u \in Threads \ {t} : call'[u] = call[u]
  BY CallTypes, FailuresCount DEF Execute, ExecuteFails, Completed, IInv, Types, CallRecords
<1>2. /\ cmd \in Commands /\ Completed(cmd) \in Commands
      /\ Completed(cmd).id = cmd.id /\ Completed(cmd).nr = cmd.nr /\ Completed(cmd).done
  BY CompletedFields DEF IInv, Types
<1>3. /\ queue'[t] = (queue[t] \ {cmd}) \cup {Completed(cmd)}
      /\ \A u \in Threads \ {t} : queue'[u] = queue[u]
  BY <1>1 DEF IInv, Types
<1>4. ASSUME failures.submit = 0
      PROVE  AllAccountedFor(t)' /\ ~undefined'
  <2>1. Own(t) = queue[t] /\ cmd \in Own(t)
    BY <1>1, <1>4 DEF NothingIsLost, AllAccountedFor, Own
  <2>2. PICK rest : rest = queue[t] \ {cmd}
    OBVIOUS
  <2>3. Completed(cmd) \notin rest
    BY <1>1, <1>2, <2>1, <2>2, CallTypes DEF CommandsAreSound
  <2>4. IsFiniteSet(rest) /\ Cardinality(rest) = Cardinality(queue[t]) - 1
        /\ Cardinality(queue[t]) \in Nat
    BY <2>2, CallTypes, OneLess DEF QueueIsSound
  <2>5. Cardinality(queue'[t]) = Cardinality(rest) + 1
    BY <1>3, <2>2, <2>3, <2>4, OneMore
  <2>6. Cardinality(queue'[t]) = Cardinality(queue[t])
    BY <2>4, <2>5
  <2>7. Own(t)' = queue'[t]
    BY <1>1, <1>2, <1>3, <2>1 DEF Own, Alive
  <2>8. QED
    BY <1>1, <1>4, <2>6, <2>7 DEF NothingIsLost, AllAccountedFor
<1>5. QED
  BY <1>1, <1>3, <1>4, OneThreadAccounts

LEMMA CommandCallbackAccounts ==
    ASSUME IInv, NothingIsLost, NEW t \in Threads, NEW cmd \in queue[t], UNCHANGED engine,
           CommandCallback(t, cmd)
    PROVE  NothingIsLost'
<1>1. /\ call[t].left = 0
      /\ queue' = [queue EXCEPT ![t] = @ \ {cmd}]
      /\ contexts' = [contexts EXCEPT ![t] = @ + 1]
      /\ UNCHANGED <<failures, undefined>>
      /\ call'[t].id = call[t].id /\ call'[t].sent = call[t].sent
      /\ call'[t].left = call[t].left
      /\ \A u \in Threads \ {t} : call'[u] = call[u]
  BY CallTypes DEF CommandCallback, IInv, Types, CallRecords
<1>2. /\ queue'[t] = queue[t] \ {cmd} /\ contexts'[t] = contexts[t] + 1
      /\ contexts[t] \in Int /\ QueueDepth \in Int /\ call[t].sent \in Nat
      /\ \A u \in Threads \ {t} : queue'[u] = queue[u] /\ contexts'[u] = contexts[u]
  BY <1>1, CallTypes, EngineAssumption DEF IInv, Types
<1>3. ASSUME failures.submit = 0
      PROVE  AllAccountedFor(t)' /\ ~undefined'
  <2>1. AllAccountedFor(t) /\ ~undefined
    BY <1>3 DEF NothingIsLost
  <2>2. Cardinality(queue'[t]) = Cardinality(queue[t]) - 1 /\ Cardinality(queue[t]) \in Nat
    BY <1>2, CallTypes, OneLess DEF QueueIsSound
  <2>3. Own(t)' = queue'[t]
    BY <1>1, <1>2, <2>1 DEF AllAccountedFor, Own, Alive
  <2>4. /\ Cardinality(queue'[t]) = QueueDepth - contexts'[t]
        /\ Cardinality(queue'[t]) <= call'[t].sent
    BY <1>1, <1>2, <2>1, <2>2 DEF AllAccountedFor
  <2>5. QED
    BY <1>1, <2>1, <2>3, <2>4 DEF AllAccountedFor
<1>4. QED
  BY <1>1, <1>2, <1>3, OneThreadAccounts

LEMMA SubmitAccounts ==
    ASSUME IInv, NothingIsLost, NEW t \in Threads, UNCHANGED engine, Submit(t)
    PROVE  NothingIsLost'
<1>1. PICK step : step = IF call[t].left > MaxLbas THEN MaxLbas ELSE call[t].left
  OBVIOUS
<1> DEFINE cmd == Command(t)
<1>2. /\ call[t].left > 0 /\ contexts[t] > 0
      /\ queue' = [queue EXCEPT ![t] = @ \cup {cmd}]
      /\ contexts' = [contexts EXCEPT ![t] = @ - 1]
      /\ UNCHANGED <<failures, undefined>>
      /\ call'[t].id = call[t].id /\ call'[t].sent = call[t].sent + 1
      /\ call'[t].left = call[t].left - step
      /\ \A u \in Threads \ {t} : call'[u] = call[u]
  BY <1>1, CallTypes DEF Submit, Submitting, IInv, Types, CallRecords
<1>3. cmd.id = call[t].id /\ cmd.nr = call[t].sent
  BY DEF Command
<1> HIDE DEF cmd
<1>4. /\ queue'[t] = queue[t] \cup {cmd} /\ contexts'[t] = contexts[t] - 1
      /\ contexts[t] \in Int /\ QueueDepth \in Int /\ call[t].sent \in Nat
      /\ call[t].left \in Nat /\ MaxLbas \in Nat /\ MaxTransfer \in Nat
      /\ \A u \in Threads \ {t} : queue'[u] = queue[u] /\ contexts'[u] = contexts[u]
  BY <1>2, CallTypes, EngineAssumption DEF IInv, Types
<1>5. ASSUME failures.submit = 0
      PROVE  AllAccountedFor(t)' /\ ~undefined'
  <2>1. AllAccountedFor(t) /\ ~undefined
    BY <1>5 DEF NothingIsLost
  <2>2. cmd \notin queue[t]
    <3>1. \A c \in queue[t] : c.nr \in 0 .. call[t].sent - 1
      BY <2>1, CallTypes DEF AllAccountedFor, CommandsAreSound
    <3>2. QED
      BY <1>3, <1>4, <3>1
  <2>3. Cardinality(queue'[t]) = Cardinality(queue[t]) + 1 /\ Cardinality(queue[t]) \in Nat
    BY <1>4, <2>2, CallTypes, OneMore DEF QueueIsSound
  <2>4. Own(t)' = queue'[t]
    BY <1>2, <1>3, <1>4, <2>1 DEF AllAccountedFor, Own, Alive
  <2>5. /\ Cardinality(queue'[t]) = QueueDepth - contexts'[t]
        /\ Cardinality(queue'[t]) <= call'[t].sent
    BY <1>2, <1>4, <2>1, <2>3 DEF AllAccountedFor
  <2>6. ASSUME call'[t].left > 0
        PROVE  call'[t].sent * MaxLbas + call'[t].left <= MaxTransfer
    <3>1. step = MaxLbas
      BY <1>1, <1>2, <1>4, <2>6
    <3>2. (call[t].sent + 1) * MaxLbas = call[t].sent * MaxLbas + MaxLbas
          /\ call[t].sent * MaxLbas \in Nat
      BY <1>4
    <3>3. call[t].sent * MaxLbas + call[t].left <= MaxTransfer
      BY <1>2, <2>1 DEF AllAccountedFor
    <3>4. QED
      BY <1>2, <1>4, <3>1, <3>2, <3>3
  <2>7. QED
    BY <1>2, <2>1, <2>4, <2>5, <2>6 DEF AllAccountedFor
<1>6. QED
  BY <1>2, <1>4, <1>5, OneThreadAccounts

LEMMA Scaled ==
    ASSUME NEW m \in Nat, NEW s \in Nat, NEW q \in Nat, s * m < m * q
    PROVE  s < q
<1> SUFFICES ASSUME s >= q PROVE FALSE
  OBVIOUS
<1>1. PICK k \in Nat : s = q + k
  OBVIOUS
<1>2. s * m = m * q + k * m /\ k * m \in Nat /\ m * q \in Nat
  BY <1>1
<1>3. QED
  BY <1>2

\* The queue has a context for every chunk.
LEMMA NoContextIsMissing ==
    ASSUME TransfersFit, IInv, NothingIsLost, failures.submit = 0, NEW t \in Threads,
           NoContext(t)
    PROVE  FALSE
<1>1. call[t].left > 0 /\ contexts[t] = 0 /\ AllAccountedFor(t)
  BY DEF NoContext, Submitting, NothingIsLost
<1>2. /\ call[t].sent \in Nat /\ call[t].left \in Nat /\ MaxLbas \in Nat
      /\ QueueDepth \in Nat /\ MaxTransfer \in Nat
  BY CallTypes, EngineAssumption
<1>3. call[t].sent * MaxLbas < MaxLbas * QueueDepth
  <2>1. call[t].sent * MaxLbas \in Nat /\ MaxLbas * QueueDepth \in Nat
    BY <1>2
  <2>2. call[t].sent * MaxLbas + call[t].left <= MaxTransfer
    BY <1>1 DEF AllAccountedFor
  <2>3. QED
    BY <1>1, <1>2, <2>1, <2>2 DEF TransfersFit
<1>4. call[t].sent < QueueDepth
  BY <1>2, <1>3, Scaled
<1>5. Cardinality(queue[t]) = QueueDepth /\ Cardinality(queue[t]) <= call[t].sent
  BY <1>1, <1>2 DEF AllAccountedFor
<1>6. QED
  BY <1>2, <1>4, <1>5

LEMMA StepAccounts ==
    ASSUME TransfersFit, IInv, NothingIsLost, [Next]_vars
    PROVE  NothingIsLost'
<1>1. CASE UNCHANGED vars
  BY <1>1 DEF vars, NothingIsLost, AllAccountedFor, Own, Alive
<1>2. ASSUME NEW t \in Threads, UNCHANGED engine, Call(t) \/ Step(t) \/ Device(t)
      PROVE  NothingIsLost'
  <2>1. CASE Call(t)
    BY <1>2, <2>1, BeginAccounts
  <2>2. CASE Fill(t) \/ Finish(t) \/ TransferSync(t)
    BY <1>2, <2>2, SameQueueAccounts
  <2>3. CASE FillFails(t) \/ TransferSyncFails(t) \/ Return(t)
    BY <1>2, <2>3, CallsEndCleanly
  <2>4. CASE Submit(t)
    BY <1>2, <2>4, SubmitAccounts
  <2>5. CASE SubmitRefused(t)
    <3>1. failures'.submit > 0
      BY <2>5, FailuresCount DEF SubmitRefused, IInv
    <3>2. QED
      BY <3>1 DEF NothingIsLost
  <2>6. CASE NoContext(t)
    <3>1. failures.submit # 0 /\ failures' = failures
      BY <2>6, NoContextIsMissing DEF NoContext
    <3>2. QED
      BY <3>1 DEF NothingIsLost
  <2>7. CASE Poll(t)
    BY <1>2, <2>7, CommandCallbackAccounts DEF Poll
  <2>8. ASSUME NEW cmd \in queue[t], UseAfterFree(t, cmd)
        PROVE  NothingIsLost'
    <3>1. failures.submit # 0 /\ failures' = failures
      BY <2>8 DEF UseAfterFree, NothingIsLost, AllAccountedFor, Own
    <3>2. QED
      BY <3>1 DEF NothingIsLost
  <2>9. CASE Device(t)
    BY <1>2, <2>8, <2>9, CompletionAccounts DEF Device
  <2>10. QED
    BY <1>2, <2>1, <2>2, <2>3, <2>4, <2>5, <2>6, <2>7, <2>9 DEF Step
<1>3. QED
  BY <1>1, <1>2 DEF Next, Goes

\* NvmeAsyncIOEngine frees a call's buffer and promises only when no command uses
\* them, and XNVME_QUEUE_DEPTH contexts are enough for a transfer of as many chunks,
\* whatever fails on the device: only a refused submission, which throws with the
\* chunks before it under way (nvme_async_io_engine.hpp:70), can be the end of that.
THEOREM OnlyRefusalsLoseCommands ==
    ASSUME TransfersFit
    PROVE  Spec => []UndefinedOnlyAfterRefusal
<1>1. Init => NothingIsLost
  <2> SUFFICES ASSUME Init, NEW t \in Threads PROVE AllAccountedFor(t)
    BY DEF Init, NothingIsLost
  <2>1. Cardinality(queue[t]) = 0 /\ QueueDepth \in Int
    BY FS_EmptySet, EngineAssumption DEF Init
  <2>2. QED
    BY <2>1, Idling DEF Init, AllAccountedFor, Own
<1>2. IInv /\ NothingIsLost /\ [Next]_vars => NothingIsLost'
  BY StepAccounts
<1>3. IInv /\ NothingIsLost => UndefinedOnlyAfterRefusal
  <2> SUFFICES ASSUME IInv, NothingIsLost, undefined PROVE failures.submit > 0
    BY DEF UndefinedOnlyAfterRefusal
  <2>1. failures.submit \in Nat /\ failures.submit # 0
    BY DEF IInv, Types, NothingIsLost
  <2>2. QED
    BY <2>1
<1>4. QED
  BY <1>1, <1>2, <1>3, Invariance, PTL DEF Spec

=============================================================================
