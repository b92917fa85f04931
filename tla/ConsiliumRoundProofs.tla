------------------------- MODULE ConsiliumRoundProofs --------------------------
(* The rounds of a loop: one worker per loop across instances, and what      *)
(* follows for its rounds; the cap on rounds and what a merge ships, at one  *)
(* instance.                                                                 *)
EXTENDS ConsiliumLoopProofs

(* One worker per loop, across instances.  Where reviews run in process, the *)
(* grace window covers their workers and nothing resumes a throttled loop,   *)
(* at most one call or run works for a loop, and the row says which.         *)

Tending == RunnerMode = TRUE /\ GraceCovers = TRUE /\ AutoResume = FALSE /\ "retry" \notin Commands

(* The orchestrator's iterations and the resumes do not occur.               *)
PlainRow(row) == row.iter = 0 /\ (row.state = "none" => ~row.old)
Plain(call) ==
  /\ call.row.iter = 0 /\ call.job # "relaunch" /\ (call.pc = "reenter" => call.job = "review")
  /\ call.pc \notin {"claimed", "orphan", "resume", "retry"}
ByRunner == (\A l \in Loops : PlainRow(loop[l])) /\ \A t \in Threads : Plain(th[t])

(* The states that nothing leaves.                                           *)
Closed == {"cancelled", "stopped", "failed"}

Reviews(call) == call.pc = "write" \/ (call.pc = "effect" /\ call.job = "review")
Settles(call) == call.pc = "effect" /\ call.job = "settled"
Works(t, l) == th[t].on = l /\ (Reviews(th[t]) \/ HandsOff(th[t]))

(* A review entry a tick of its instance would take the result of, and a     *)
(* coder's entry likewise.                                                   *)
Usable(i, l) ==
  /\ review[i][l].round > 0 /\ review[i][l].round = loop[l].round
  /\ \A t \in Threads : t[1] = i /\ th[t].on = l => ~Settles(th[t])
Marked(i, l) == sdlc[i][l].round > 0 /\ sdlc[i][l].round = loop[l].round

OneWorker(l) == \A s, t \in Threads : Works(s, l) /\ Works(t, l) => s = t
OneCoder(l) ==
  /\ \A i, j \in Instances : Live(sdlc[i][l]) /\ Live(sdlc[j][l]) => i = j
  /\ \A i, j \in Instances : StrayCoders(i, l) > 0 /\ StrayCoders(j, l) > 0 => i = j
  /\ \A i, j \in Instances : StrayCoders(i, l) > 0 => StrayCoders(i, l) = 1 /\ ~Live(sdlc[j][l])
  /\ \A t \in Threads : th[t].on = l /\ HandsOff(th[t]) =>
       \A i \in Instances : ~Live(sdlc[i][l]) /\ StrayCoders(i, l) = 0

(* Rounds: a worker's is the row's, or the one it is about to write.         *)
WorkedRound(l) == \A t \in Threads : Works(t, l) =>
  th[t].row.round = loop[l].round + IF th[t].pc = "write" THEN 1 ELSE 0
WrittenRound(l) == \A t \in Threads : th[t].on = l /\ th[t].pc = "write" =>
  review[t[1]][l].round = th[t].row.round
PastRounds(l) ==
  /\ \A i \in Instances : sdlc[i][l].round <= loop[l].round
  /\ \A x \in rounds[l] : x.round <= loop[l].round
  /\ \A t \in Threads : th[t].on = l /\ th[t].pc \in {"tick", "effect", "plan"} =>
       th[t].row.round <= loop[l].round
SettlesOwn(l) == \A t \in Threads : th[t].on = l /\ Settles(th[t]) =>
  OwnReview(t[1], l, th[t].row) /\ review[t[1]][l].done

(* What the state of a loop says of its workers and entries.                 *)
WorkersPlace(l) == \A t \in Threads : Works(t, l) =>
  loop[l].state = IF HandsOff(th[t]) THEN "developing" ELSE "reviewing"
EntriesAhead(l) == \A i \in Instances : review[i][l].round > loop[l].round =>
  \E t \in Threads : t[1] = i /\ th[t].on = l /\ th[t].pc = "write"
UsableOnly(l) == \A i \in Instances : Usable(i, l) =>
  /\ loop[l].state = "reviewing"
  /\ \A j \in Instances : Usable(j, l) => i = j
  /\ \A t \in Threads : ~Works(t, l)
UsableAhead(l) == \A i \in Instances : Usable(i, l) =>
  /\ \A j \in Instances : sdlc[j][l].round < loop[l].round
  /\ \A x \in rounds[l] : x.round < loop[l].round
  /\ \A t \in Threads : th[t].on = l /\ (th[t].pc = "effect" \/ (th[t].pc = "tick" /\ th[t].row.state = "deciding")) =>
       th[t].row.round < loop[l].round
CodersPlace(l) == \A i \in Instances :
  /\ Live(sdlc[i][l]) => loop[l].state = "developing" /\ Marked(i, l)
  /\ StrayCoders(i, l) > 0 => loop[l].state = "developing"
MarksPlace(l) == \A i \in Instances : Marked(i, l) =>
  /\ loop[l].state \in {"developing", "throttled", "building_context", "reviewing"}
  /\ \A j \in Instances : (Marked(j, l) => i = j) /\ StrayCoders(j, l) = 0
  /\ \A t \in Threads : th[t].on = l => ~HandsOff(th[t])
OldUnattended(l) == loop[l].old /\ loop[l].state \in {"reviewing", "developing"} =>
  /\ \A t \in Threads : ~Works(t, l)
  /\ \A i \in Instances : ~Usable(i, l)
  /\ loop[l].state = "developing" => \A i \in Instances : ~Marked(i, l) /\ StrayCoders(i, l) = 0
TicksKnow(l) == \A t \in Threads : th[t].on = l /\ th[t].pc = "tick" =>
  /\ th[t].row.state = "reviewing" /\ OwnReview(t[1], l, th[t].row) =>
       loop[l].state = "reviewing" /\ loop[l].round = th[t].row.round
  /\ th[t].row.state = "developing" /\ OwnCoder(t[1], l, th[t].row) =>
       loop[l].state = "developing" /\ loop[l].round = th[t].row.round

Placed(l) ==
  /\ WorkersPlace(l) /\ EntriesAhead(l) /\ UsableOnly(l) /\ UsableAhead(l)
  /\ CodersPlace(l) /\ MarksPlace(l) /\ OldUnattended(l) /\ TicksKnow(l)
Tended(l) ==
  /\ OneWorker(l) /\ OneCoder(l)
  /\ WorkedRound(l) /\ WrittenRound(l) /\ PastRounds(l) /\ SettlesOwn(l)
  /\ loop[l].state \notin Closed => Placed(l)
TendInv == \A l \in Loops : Tended(l)

-----------------------------------------------------------------------------
(* What a step can do to a loop and those who work for it.                   *)

Frame(t, l) ==
  /\ Others(t)
  /\ th[t].on = l \/ th[t].pc = "idle"
  /\ th'[t].on = l \/ th'[t].pc = "idle"
  /\ \A m \in Loops \ {l} : loop'[m] = loop[m] /\ rounds'[m] = rounds[m]
  /\ \A i \in Instances, m \in Loops : i # t[1] \/ m # l =>
       sdlc'[i][m] = sdlc[i][m] /\ review'[i][m] = review[i][m] /\ stray'[i][m] = stray[i][m]
Off(call) == call.pc \notin {"tick", "effect", "plan", "write"}
Light(call) == call.pc # "write" /\ ~Settles(call)
Lands(l) == loop'[l].round = loop[l].round /\ ~loop'[l].old
KeepsRow(l) ==
  loop'[l].state = loop[l].state /\ loop'[l].round = loop[l].round /\ (loop'[l].old => loop[l].old)
AddsRound(l, r) == \A x \in rounds'[l] : x \in rounds[l] \/ x.round = r
SameRuns == UNCHANGED <<sdlc, stray>>
Drops(t, l) == SameRuns \/ DropCoder(t[1], l)

(* A call leaves the row as it is, or closes it.                             *)
Leaves(t, l) ==
  /\ Frame(t, l) /\ Light(th[t]) /\ Off(th'[t])
  /\ KeepsRow(l) \/ (Lands(l) /\ loop'[l].state \in Closed)
  /\ UNCHANGED review /\ rounds'[l] = rounds[l] /\ Drops(t, l)
(* A tick reads the row.                                                     *)
Begins(t, l) ==
  /\ Frame(t, l) /\ UNCHANGED <<loop, rounds, registry>>
  /\ Light(th[t]) /\ th'[t].pc = "tick" /\ th'[t].row = loop[l]
(* A claim is won, and its side effect begins.                               *)
Wins(t, l) ==
  /\ Frame(t, l) /\ Light(th[t]) /\ UNCHANGED registry /\ rounds'[l] = rounds[l] /\ Lands(l)
  /\ \/ loop[l].state = "building_context" /\ loop'[l].state = "reviewing"
     \/ /\ loop[l].state \in {"deciding", "stopped_cap", "converged", "escalated"}
        /\ loop'[l].state = "developing"
     \/ /\ loop[l].state \in {"reviewing", "developing"} /\ loop[l].old
        /\ loop'[l].state = loop[l].state
  /\ th'[t].pc = "effect" /\ th'[t].row = loop'[l]
  /\ th'[t].job = IF loop'[l].state = "reviewing" THEN "review" ELSE "handoff"
(* A row nobody works for moves on.                                          *)
Moves(t, l) ==
  /\ Frame(t, l) /\ Light(th[t]) /\ UNCHANGED review /\ rounds'[l] = rounds[l] /\ Lands(l)
  /\ loop[l].state \in {"none", "pending", "deciding", "awaiting_merge"}
  /\ loop'[l].state \notin {"reviewing", "developing"} \union Closed
  /\ Drops(t, l)
  /\ Off(th'[t]) \/ (th'[t].pc = "effect" /\ th'[t].job = "audit" /\ th'[t].row = loop'[l])
(* A tick takes the result of the review, or of the coder, it has here.      *)
Delivers(t, l) ==
  /\ Frame(t, l) /\ UNCHANGED registry /\ rounds'[l] = rounds[l] /\ Lands(l)
  /\ th[t].pc = "tick" /\ th[t].on = l /\ th[t].row.state = "reviewing" /\ loop[l].state = "reviewing"
  /\ OwnReview(t[1], l, th[t].row) /\ review[t[1]][l].done
  /\ loop'[l].state \in {"deciding", "throttled", "failed"}
  /\ Settles(th'[t]) /\ th'[t].row = loop'[l]
Ends(t, l) ==
  /\ Frame(t, l) /\ UNCHANGED review /\ rounds'[l] = rounds[l] /\ Lands(l)
  /\ th[t].pc = "tick" /\ th[t].on = l /\ th[t].row.state = "developing" /\ loop[l].state = "developing"
  /\ OwnCoder(t[1], l, th[t].row) /\ sdlc[t[1]][l].done
  /\ loop'[l].state \in {"throttled", "building_context", "awaiting_merge"}
  /\ IF loop'[l].state = "awaiting_merge" THEN DropCoder(t[1], l) ELSE SameRuns
  /\ Off(th'[t])
(* The side effects.                                                         *)
Dispatches(t, l) ==
  /\ Frame(t, l) /\ UNCHANGED <<loop, rounds>> /\ SameRuns
  /\ th[t].on = l /\ th[t].pc = "effect" /\ th[t].job = "review"
  /\ review'[t[1]][l].round = th[t].row.round + 1
  /\ th'[t].on = l /\ th'[t].pc = "write" /\ th'[t].row.round = th[t].row.round + 1
Writes(t, l) ==
  /\ Frame(t, l) /\ UNCHANGED <<rounds, registry>>
  /\ th[t].on = l /\ th[t].pc = "write" /\ Off(th'[t])
  /\ loop'[l].state = loop[l].state /\ loop'[l].round = th[t].row.round /\ ~loop'[l].old
HandsOver(t, l) ==
  /\ Frame(t, l) /\ UNCHANGED <<loop, registry>> /\ AddsRound(l, th[t].row.round)
  /\ th[t].on = l /\ th[t].pc = "effect" /\ th[t].job = "handoff"
  /\ th'[t].pc = "plan" /\ th'[t].row = th[t].row
Registers(t, l) ==
  /\ Frame(t, l) /\ UNCHANGED <<loop, rounds, review>>
  /\ th[t].on = l /\ th[t].pc = "plan" /\ Off(th'[t])
  /\ SetCoder(t[1], l, sdlc'[t[1]][l]) /\ sdlc'[t[1]][l].round = th[t].row.round
Clears(t, l) ==
  /\ Frame(t, l) /\ UNCHANGED loop /\ SameRuns /\ AddsRound(l, th[t].row.round)
  /\ th[t].on = l /\ Settles(th[t]) /\ Off(th'[t])
  /\ OwnReview(t[1], l, th[t].row) /\ review[t[1]][l].done => review'[t[1]][l] = NoReview
Audits(t, l) ==
  /\ Frame(t, l) /\ UNCHANGED <<loop, registry>> /\ AddsRound(l, th[t].row.round)
  /\ th[t].on = l /\ Off(th'[t])
  /\ (th[t].pc = "tick" /\ th[t].row.state = "deciding") \/ (th[t].pc = "effect" /\ th[t].job = "audit")

WorkStep(t, l) ==
  \/ Leaves(t, l) \/ Begins(t, l) \/ Wins(t, l) \/ Moves(t, l) \/ Delivers(t, l) \/ Ends(t, l)
  \/ Dispatches(t, l) \/ Writes(t, l) \/ HandsOver(t, l) \/ Registers(t, l) \/ Clears(t, l) \/ Audits(t, l)

-----------------------------------------------------------------------------
(* What every step of a call has to show.                                    *)

(* Rounds are numbers.                                                       *)
Numbers(l) ==
  /\ loop[l].round \in Nat
  /\ \A i \in Instances : sdlc[i][l].round \in Nat /\ review[i][l].round \in Nat /\ StrayCoders(i, l) \in Nat
  /\ \A x \in rounds[l] : x.round \in Nat
  /\ \A t \in Threads : th[t].row.round \in Nat /\ t[1] \in Instances

(* The coders an instance has without an entry, by kind.                     *)
LEMMA StraysAdd ==
  ASSUME IInv, NEW i \in Instances, NEW l \in Loops
  PROVE  stray[i][l][TRUE] \in Nat /\ stray[i][l][FALSE] \in Nat
<1>1. \A b \in BOOLEAN : stray[i][l][b] \in Nat
  BY DEF IInv, TypeOK, RegistryOK
<1>2. TRUE \in BOOLEAN /\ FALSE \in BOOLEAN
  OBVIOUS
<1> QED  BY <1>1, <1>2, Zenon

LEMMA RoundsAreNumbers ==
  ASSUME IInv, NEW l \in Loops
  PROVE  Numbers(l)
<1>1. ASSUME NEW i \in Instances PROVE StrayCoders(i, l) \in Nat
  <2> DEFINE x == stray[i][l][TRUE]   y == stray[i][l][FALSE]
  <2>1. x \in Nat /\ y \in Nat /\ StrayCoders(i, l) = x + y
    BY StraysAdd DEF StrayCoders
  <2> HIDE DEF x, y
  <2> QED  BY <2>1
<1> QED  BY <1>1 DEF IInv, TypeOK, LoopsOK, RegistryOK, RoundsOK, ThreadsOK, Row, CoderRun, ReviewRun, Thread,
                     Threads, Numbers

(* The entry a call writes or deletes, and the coder it leaves behind.       *)
LEMMA CoderSet ==
  ASSUME IInv, NEW i \in Instances, NEW l \in Loops, NEW run, SetCoder(i, l, run)
  PROVE  /\ sdlc'[i][l] = run
         /\ \A j \in Instances \ {i} : sdlc'[j][l] = sdlc[j][l] /\ StrayCoders(j, l)' = StrayCoders(j, l)
         /\ StrayCoders(i, l)' = StrayCoders(i, l) + IF Live(sdlc[i][l]) THEN 1 ELSE 0
<1>1. /\ sdlc \in [Instances -> [Loops -> CoderRun]]
      /\ stray \in [Instances -> [Loops -> [BOOLEAN -> Nat]]]
  BY DEF IInv, TypeOK, RegistryOK
<1>2. sdlc' = [sdlc EXCEPT ![i][l] = run]
  BY DEF SetCoder
<1>3. sdlc'[i][l] = run /\ \A j \in Instances \ {i} : sdlc'[j][l] = sdlc[j][l]
  BY <1>1, <1>2
<1> DEFINE x == stray[i][l][TRUE]   y == stray[i][l][FALSE]
<1>4. CASE Live(sdlc[i][l])
  <2>1. sdlc[i][l].via \in BOOLEAN
    BY <1>1 DEF CoderRun
  <2>2. stray' = [stray EXCEPT ![i][l][sdlc[i][l].via] = stray[i][l][sdlc[i][l].via] + 1]
    BY <1>1, <1>4, <2>1 DEF SetCoder
  <2>3. \A j \in Instances \ {i} : stray'[j][l] = stray[j][l]
    BY <1>1, <2>1, <2>2
  <2>4. \A j \in Instances \ {i} : StrayCoders(j, l)' = StrayCoders(j, l)
    BY <2>3 DEF StrayCoders
  <2>5. stray'[i][l] = [stray[i][l] EXCEPT ![sdlc[i][l].via] = stray[i][l][sdlc[i][l].via] + 1]
    BY <1>1, <2>1, <2>2
  <2>a. \A b \in BOOLEAN :
          stray'[i][l][b] = IF b = sdlc[i][l].via THEN stray[i][l][sdlc[i][l].via] + 1 ELSE stray[i][l][b]
    BY <1>1, <2>1, <2>5
  <2>b. TRUE \in BOOLEAN /\ FALSE \in BOOLEAN /\ TRUE # FALSE
    OBVIOUS
  <2>6. CASE sdlc[i][l].via = TRUE
    <3>1. stray'[i][l][TRUE] = x + 1 /\ stray'[i][l][FALSE] = y
      BY <2>a, <2>b, <2>6, Zenon
    <3>2. x \in Nat /\ y \in Nat
      BY StraysAdd
    <3>3. StrayCoders(i, l)' = (x + 1) + y /\ StrayCoders(i, l) = x + y
      BY <3>1 DEF StrayCoders
    <3> HIDE DEF x, y
    <3> QED  BY <1>3, <1>4, <2>4, <3>2, <3>3
  <2>7. CASE sdlc[i][l].via = FALSE
    <3>1. stray'[i][l][TRUE] = x /\ stray'[i][l][FALSE] = y + 1
      BY <2>a, <2>b, <2>7, Zenon
    <3>2. x \in Nat /\ y \in Nat
      BY StraysAdd
    <3>3. StrayCoders(i, l)' = x + (y + 1) /\ StrayCoders(i, l) = x + y
      BY <3>1 DEF StrayCoders
    <3> HIDE DEF x, y
    <3> QED  BY <1>3, <1>4, <2>4, <3>2, <3>3
  <2> QED  BY <2>1, <2>6, <2>7
<1>5. CASE ~Live(sdlc[i][l])
  <2>1. stray' = stray
    BY <1>5 DEF SetCoder
  <2>2. x \in Nat /\ y \in Nat
    BY StraysAdd
  <2>3. StrayCoders(i, l)' = x + y /\ StrayCoders(i, l) = x + y
    BY <2>1 DEF StrayCoders
  <2>4. \A j \in Instances \ {i} : StrayCoders(j, l)' = StrayCoders(j, l)
    BY <2>1 DEF StrayCoders
  <2> HIDE DEF x, y
  <2> QED  BY <1>3, <1>5, <2>2, <2>3, <2>4
<1> QED  BY <1>4, <1>5

(* The other loops do not notice.                                            *)
LEMMA OtherLoops ==
  ASSUME IInv, NEW t \in Threads, NEW l \in Loops, Frame(t, l), NEW m \in Loops \ {l}, Tended(m)
  PROVE  Tended(m)'
<1>1. /\ loop'[m] = loop[m] /\ rounds'[m] = rounds[m]
      /\ \A i \in Instances : sdlc'[i][m] = sdlc[i][m] /\ review'[i][m] = review[i][m]
                              /\ StrayCoders(i, m)' = StrayCoders(i, m)
  BY DEF Frame, StrayCoders
<1>2. \A s \in Threads : (th[s].on = m /\ th[s].pc # "idle") \/ (th'[s].on = m /\ th'[s].pc # "idle") => th'[s] = th[s]
  BY DEF Frame, Others
<1>3. \A s \in Threads : /\ th'[s].on = m /\ HandsOff(th'[s]) <=> th[s].on = m /\ HandsOff(th[s])
                         /\ th'[s].on = m /\ Settles(th'[s]) <=> th[s].on = m /\ Settles(th[s])
                         /\ Works(s, m)' <=> Works(s, m)
                         /\ Works(s, m) => th'[s] = th[s]
  BY <1>2 DEF HandsOff, Settles, Works, Reviews
<1>4. \A i \in Instances : (Usable(i, m)' <=> Usable(i, m)) /\ (Marked(i, m)' <=> Marked(i, m))
  BY <1>1, <1>3 DEF Usable, Marked
<1>5. OneWorker(m)' /\ OneCoder(m)'
  BY <1>1, <1>3 DEF Tended, OneWorker, OneCoder
<1>6. WorkedRound(m)'
  BY <1>1, <1>3 DEF Tended, WorkedRound
<1>a. WrittenRound(m)'
  BY <1>1, <1>2, OwnRow DEF Tended, WrittenRound
<1>7. PastRounds(m)' /\ SettlesOwn(m)'
  BY <1>1, <1>2, <1>3, OwnRow DEF Tended, PastRounds, SettlesOwn, OwnReview, Settles
<1>8. ASSUME loop[m].state \notin Closed PROVE Placed(m)'
  <2>1. Placed(m)
    BY <1>8 DEF Tended
  <2>2. WorkersPlace(m)' /\ EntriesAhead(m)'
    BY <1>1, <1>2, <1>3, <2>1 DEF Placed, WorkersPlace, EntriesAhead, Works, Reviews, HandsOff
  <2>3. UsableOnly(m)' /\ UsableAhead(m)'
    BY <1>1, <1>2, <1>3, <1>4, <2>1 DEF Placed, UsableOnly, UsableAhead
  <2>4. CodersPlace(m)' /\ MarksPlace(m)' /\ OldUnattended(m)'
    BY <1>1, <1>3, <1>4, <2>1 DEF Placed, CodersPlace, MarksPlace, OldUnattended
  <2>5. TicksKnow(m)'
    BY <1>1, <1>2, <2>1, OwnRow DEF Placed, TicksKnow, OwnReview, OwnCoder
  <2> QED  BY <2>2, <2>3, <2>4, <2>5 DEF Placed
<1> QED  BY <1>1, <1>5, <1>6, <1>a, <1>7, <1>8 DEF Tended
(* A step that keeps the coders' entries, or deletes the one of its instance. *)
Keeps(i, l) == sdlc'[i][l] = sdlc[i][l] /\ StrayCoders(i, l)' = StrayCoders(i, l)
Loses(i, l) ==
  sdlc'[i][l] = NoCoder /\ StrayCoders(i, l)' = StrayCoders(i, l) + IF Live(sdlc[i][l]) THEN 1 ELSE 0
KeepsOrLoses(i, l) ==
  /\ \A j \in Instances \ {i} : Keeps(j, l)
  /\ Keeps(i, l) \/ Loses(i, l)

LEMMA DropsRun ==
  ASSUME IInv, NEW t \in Threads, NEW l \in Loops, Drops(t, l)
  PROVE  KeepsOrLoses(t[1], l)
<1>1. CASE SameRuns
  BY <1>1 DEF SameRuns, KeepsOrLoses, Keeps, StrayCoders
<1>2. CASE DropCoder(t[1], l)
  <2>1. t[1] \in Instances /\ SetCoder(t[1], l, NoCoder)
    BY <1>2, OwnRow DEF DropCoder
  <2> QED  BY <2>1, CoderSet DEF KeepsOrLoses, Keeps, Loses
<1> QED  BY <1>1, <1>2 DEF Drops

LEMMA DropsOneCoder ==
  ASSUME NEW l \in Loops, OneCoder(l), Numbers(l), NEW i \in Instances, KeepsOrLoses(i, l),
         \A s \in Threads : th'[s].on = l /\ HandsOff(th'[s]) => th[s].on = l /\ HandsOff(th[s])
  PROVE  OneCoder(l)'
<1>1. NoCoder.round = 0
  BY DEF NoCoder
<1>2. CASE \A j \in Instances : Keeps(j, l)
  BY <1>2 DEF OneCoder, Keeps
<1>3. CASE Loses(i, l) /\ ~Live(sdlc[i][l])
  <2>1. \A j \in Instances : StrayCoders(j, l)' = StrayCoders(j, l) /\ (Live(sdlc[j][l])' => Live(sdlc[j][l]))
    BY <1>1, <1>3 DEF KeepsOrLoses, Keeps, Loses, Live, Numbers
  <2> QED  BY <2>1 DEF OneCoder
<1>4. CASE Loses(i, l) /\ Live(sdlc[i][l])
  <2>1. \A j \in Instances : ~Live(sdlc'[j][l])
    BY <1>1, <1>4 DEF OneCoder, KeepsOrLoses, Keeps, Loses, Live
  <2>2. \A j \in Instances : StrayCoders(j, l) = 0
    BY <1>4 DEF OneCoder, Numbers
  <2>3. \A j \in Instances : StrayCoders(j, l)' = IF j = i THEN 1 ELSE 0
    BY <1>4, <2>2 DEF KeepsOrLoses, Keeps, Loses
  <2>4. \A s \in Threads : ~(th'[s].on = l /\ HandsOff(th'[s]))
    BY <1>4 DEF OneCoder
  <2> QED  BY <2>1, <2>3, <2>4 DEF OneCoder
<1> QED  BY <1>2, <1>3, <1>4 DEF KeepsOrLoses

(* The marks that are left, and the coders behind them.                      *)
LEMMA DropsMarks ==
  ASSUME NEW l \in Loops, Placed(l), Numbers(l), NEW i \in Instances, KeepsOrLoses(i, l),
         loop'[l].round = loop[l].round, loop'[l].state = loop[l].state
  PROVE  /\ CodersPlace(l)'
         /\ \A j \in Instances : Marked(j, l)' =>
              /\ Marked(j, l)
              /\ \A k \in Instances : (Marked(k, l)' => j = k) /\ StrayCoders(k, l)' = 0
<1>1. NoCoder.round = 0
  BY DEF NoCoder
<1>2. \A j \in Instances : (Marked(j, l)' => Marked(j, l) /\ Keeps(j, l)) /\ (Live(sdlc[j][l])' => Live(sdlc[j][l]) /\ Keeps(j, l))
  BY <1>1 DEF Marked, KeepsOrLoses, Keeps, Loses, Live, Numbers
<1>3. \A j \in Instances : StrayCoders(j, l)' = StrayCoders(j, l) \/ (Live(sdlc[j][l]) /\ Marked(j, l) /\ j = i /\ ~Keeps(i, l) /\ loop[l].state = "developing")
  BY <1>1 DEF KeepsOrLoses, Keeps, Loses, Placed, CodersPlace, Live, Numbers
<1>4. CodersPlace(l)'
  BY <1>2, <1>3 DEF Placed, CodersPlace, Keeps, Marked
<1>5. ASSUME NEW j \in Instances, Marked(j, l)', NEW k \in Instances
      PROVE  (Marked(k, l)' => j = k) /\ StrayCoders(k, l)' = 0
  <2>1. Marked(j, l) /\ Keeps(j, l) /\ (Marked(k, l) => j = k) /\ StrayCoders(k, l) = 0
    BY <1>2, <1>5 DEF Placed, MarksPlace
  <2> QED  BY <1>2, <1>3, <2>1
<1> QED  BY <1>2, <1>4, <1>5

(* A call that leaves the row, or closes it.                                 *)
LEMMA LeavesTended ==
  ASSUME IInv, NEW t \in Threads, NEW l \in Loops, Tended(l), Leaves(t, l)
  PROVE  Tended(l)'
<1>n. Numbers(l) /\ t[1] \in Instances
  BY RoundsAreNumbers, OwnRow
<1>1. /\ \A s \in Threads \ {t} : th'[s] = th[s]
      /\ ~Works(t, l)' /\ ~(th'[t].on = l /\ HandsOff(th'[t])) /\ ~Settles(th[t]) /\ ~Settles(th'[t])
      /\ Off(th'[t]) /\ th[t].pc # "write" /\ loop'[l].round = loop[l].round
      /\ \A i \in Instances : review'[i][l] = review[i][l]
      /\ rounds'[l] = rounds[l]
  BY DEF Leaves, Frame, Others, Light, Off, Works, Reviews, HandsOff, Settles, KeepsRow, Lands
<1>2. KeepsOrLoses(t[1], l) /\ NoCoder.round = 0
  BY DropsRun DEF Leaves, NoCoder
<1>3. \A s \in Threads : Works(s, l)' => s # t /\ Works(s, l)
  BY <1>1 DEF Works
<1>4. OneWorker(l)' /\ WorkedRound(l)'
  BY <1>1, <1>3 DEF Tended, OneWorker, WorkedRound
<1>5. OneCoder(l)'
  BY <1>n, <1>1, <1>2, DropsOneCoder DEF Tended
<1>6. WrittenRound(l)' /\ SettlesOwn(l)'
  BY <1>1, OwnRow DEF Tended, WrittenRound, SettlesOwn, OwnReview, Off
<1>7. PastRounds(l)'
  BY <1>n, <1>1, <1>2 DEF Tended, PastRounds, Off, Numbers, KeepsOrLoses, Keeps, Loses
<1>8. ASSUME loop'[l].state \notin Closed PROVE Placed(l)'
  <2>1. Placed(l) /\ KeepsRow(l)
    BY <1>8 DEF Tended, Leaves, KeepsRow
  <2>2. \A i \in Instances : Usable(i, l)' <=> Usable(i, l)
    BY <1>1 DEF Usable, Light, Off, Settles
  <2>3. WorkersPlace(l)' /\ EntriesAhead(l)'
    BY <1>1, <1>3, <2>1 DEF Placed, WorkersPlace, EntriesAhead, KeepsRow
  <2>4. UsableOnly(l)' /\ UsableAhead(l)'
    BY <1>n, <1>1, <1>2, <1>3, <2>1, <2>2
       DEF Placed, UsableOnly, UsableAhead, KeepsRow, Off, Numbers, KeepsOrLoses, Keeps, Loses
  <2>5. CodersPlace(l)' /\ \A j \in Instances : Marked(j, l)' =>
          Marked(j, l) /\ \A k \in Instances : (Marked(k, l)' => j = k) /\ StrayCoders(k, l)' = 0
    BY <1>n, <1>1, <1>2, <2>1, DropsMarks DEF KeepsRow
  <2>6. MarksPlace(l)'
    BY <1>1, <2>1, <2>5 DEF Placed, MarksPlace, KeepsRow
  <2>7. OldUnattended(l)'
    BY <1>n, <1>1, <1>2, <1>3, <2>1, <2>2, <2>5
       DEF Placed, OldUnattended, KeepsRow, Numbers, CodersPlace, KeepsOrLoses, Keeps, Loses
  <2>8. TicksKnow(l)'
    <3>1. \A i \in Instances : sdlc'[i][l] = sdlc[i][l] \/ sdlc'[i][l].round = 0
      BY <1>2 DEF KeepsOrLoses, Keeps, Loses
    <3> SUFFICES ASSUME NEW s \in Threads, th'[s].on = l, th'[s].pc = "tick"
                 PROVE  /\ th'[s].row.state = "reviewing" /\ OwnReview(s[1], l, th[s].row)' =>
                             loop'[l].state = "reviewing" /\ loop'[l].round = th'[s].row.round
                        /\ th'[s].row.state = "developing" /\ OwnCoder(s[1], l, th[s].row)' =>
                             loop'[l].state = "developing" /\ loop'[l].round = th'[s].row.round
      BY DEF TicksKnow
    <3>2. s # t /\ th'[s] = th[s] /\ s[1] \in Instances
      BY <1>1, OwnRow DEF Off
    <3>3. OwnReview(s[1], l, th[s].row)' => OwnReview(s[1], l, th[s].row)
      BY <1>1, <3>2 DEF OwnReview
    <3>4. OwnCoder(s[1], l, th[s].row)' => OwnCoder(s[1], l, th[s].row)
      BY <3>1, <3>2 DEF OwnCoder
    <3> QED  BY <2>1, <3>2, <3>3, <3>4 DEF Placed, TicksKnow, KeepsRow
  <2> QED  BY <2>3, <2>4, <2>5, <2>6, <2>7, <2>8 DEF Placed
<1> QED  BY <1>4, <1>5, <1>6, <1>7, <1>8 DEF Tended
(* A tick reads the row: an entry for its round is one whose result it may   *)
(* take, since nobody settles the loop here and no coder works elsewhere.    *)
LEMMA BeginsTended ==
  ASSUME IInv, NEW t \in Threads, NEW l \in Loops, Tended(l), Begins(t, l)
  PROVE  Tended(l)'
<1>n. Numbers(l) /\ t[1] \in Instances
  BY RoundsAreNumbers, OwnRow
<1>1. /\ \A s \in Threads \ {t} : th'[s] = th[s]
      /\ ~Works(t, l)' /\ ~HandsOff(th'[t]) /\ ~Settles(th[t]) /\ ~Settles(th'[t])
      /\ th'[t].pc = "tick" /\ th[t].pc # "write" /\ th'[t].row = loop[l] /\ loop'[l] = loop[l]
      /\ \A i \in Instances : review'[i][l] = review[i][l] /\ sdlc'[i][l] = sdlc[i][l]
                              /\ StrayCoders(i, l)' = StrayCoders(i, l)
      /\ rounds'[l] = rounds[l]
  BY DEF Begins, Frame, Others, Light, Works, Reviews, HandsOff, Settles, StrayCoders, registry
<1>3. \A s \in Threads : Works(s, l)' => s # t /\ Works(s, l)
  BY <1>1 DEF Works
<1>4. OneWorker(l)' /\ WorkedRound(l)'
  BY <1>1, <1>3 DEF Tended, OneWorker, WorkedRound
<1>5. OneCoder(l)'
  BY <1>n, <1>1 DEF Tended, OneCoder
<1>6. WrittenRound(l)' /\ SettlesOwn(l)'
  BY <1>1, OwnRow DEF Tended, WrittenRound, SettlesOwn, OwnReview
<1>7. PastRounds(l)'
  BY <1>n, <1>1 DEF Tended, PastRounds, Numbers
<1>8. ASSUME loop'[l].state \notin Closed PROVE Placed(l)'
  <2>1. Placed(l)
    BY <1>1, <1>8 DEF Tended
  <2>2. \A i \in Instances : (Usable(i, l)' <=> Usable(i, l)) /\ (Marked(i, l)' <=> Marked(i, l))
    BY <1>1 DEF Usable, Marked
  <2>3. WorkersPlace(l)' /\ EntriesAhead(l)'
    BY <1>1, <1>3, <2>1 DEF Placed, WorkersPlace, EntriesAhead
  <2>4. UsableOnly(l)'
    BY <1>1, <1>3, <2>1, <2>2 DEF Placed, UsableOnly
  <2>5. UsableAhead(l)'
    BY <1>1, <1>3, <2>1, <2>2 DEF Placed, UsableOnly, UsableAhead
  <2>6. CodersPlace(l)' /\ MarksPlace(l)' /\ OldUnattended(l)'
    BY <1>1, <1>3, <2>1, <2>2 DEF Placed, CodersPlace, MarksPlace, OldUnattended
  <2>8. TicksKnow(l)'
    BY <1>n, <1>1, <2>1 DEF Placed, TicksKnow, OwnReview, OwnCoder, Numbers
  <2> QED  BY <2>3, <2>4, <2>5, <2>6, <2>8 DEF Placed
<1> QED  BY <1>4, <1>5, <1>6, <1>7, <1>8 DEF Tended

(* An audit row is written for a round that no review is ahead of.           *)
LEMMA AuditsTended ==
  ASSUME IInv, NEW t \in Threads, NEW l \in Loops, Tended(l), Audits(t, l)
  PROVE  Tended(l)'
<1>n. Numbers(l) /\ t[1] \in Instances
  BY RoundsAreNumbers, OwnRow
<1>1. /\ \A s \in Threads \ {t} : th'[s] = th[s]
      /\ ~Works(t, l)' /\ ~HandsOff(th'[t]) /\ ~Settles(th[t]) /\ ~Settles(th'[t])
      /\ Off(th'[t]) /\ th[t].pc \in {"tick", "effect"} /\ th[t].on = l /\ loop'[l] = loop[l]
      /\ \A i \in Instances : review'[i][l] = review[i][l] /\ sdlc'[i][l] = sdlc[i][l]
                              /\ StrayCoders(i, l)' = StrayCoders(i, l)
      /\ \A x \in rounds'[l] : x \in rounds[l] \/ x.round = th[t].row.round
  BY DEF Audits, AddsRound, Frame, Others, Off, Works, Reviews, HandsOff, Settles, StrayCoders, registry
<1>3. \A s \in Threads : Works(s, l)' => s # t /\ Works(s, l)
  BY <1>1 DEF Works
<1>4. OneWorker(l)' /\ WorkedRound(l)'
  BY <1>1, <1>3 DEF Tended, OneWorker, WorkedRound
<1>5. OneCoder(l)'
  BY <1>n, <1>1 DEF Tended, OneCoder
<1>6. WrittenRound(l)' /\ SettlesOwn(l)'
  BY <1>1, OwnRow DEF Tended, WrittenRound, SettlesOwn, OwnReview, Off
<1>7. PastRounds(l)'
  BY <1>n, <1>1 DEF Tended, PastRounds, Numbers, Off
<1>8. ASSUME loop'[l].state \notin Closed PROVE Placed(l)'
  <2>1. Placed(l)
    BY <1>1, <1>8 DEF Tended
  <2>2. \A i \in Instances : (Usable(i, l)' <=> Usable(i, l)) /\ (Marked(i, l)' <=> Marked(i, l))
    BY <1>1 DEF Usable, Marked
  <2>3. WorkersPlace(l)' /\ EntriesAhead(l)'
    BY <1>1, <1>3, <2>1 DEF Placed, WorkersPlace, EntriesAhead
  <2>4. UsableOnly(l)'
    BY <1>1, <1>3, <2>1, <2>2 DEF Placed, UsableOnly
  <2>5. \A i \in Instances : Usable(i, l) => th[t].row.round < loop[l].round
    BY <1>1, <2>1 DEF Placed, UsableAhead, Audits
  <2>6. UsableAhead(l)'
    BY <1>1, <2>1, <2>2, <2>5 DEF Placed, UsableAhead, Off
  <2>7. CodersPlace(l)' /\ MarksPlace(l)' /\ OldUnattended(l)'
    BY <1>1, <1>3, <2>1, <2>2 DEF Placed, CodersPlace, MarksPlace, OldUnattended
  <2>8. TicksKnow(l)'
    BY <1>n, <1>1, <2>1 DEF Placed, TicksKnow, OwnReview, OwnCoder, Numbers, Off
  <2> QED  BY <2>3, <2>4, <2>6, <2>7, <2>8 DEF Placed
<1> QED  BY <1>4, <1>5, <1>6, <1>7, <1>8 DEF Tended
(* A loop at rest, or one past the grace window, has nobody working for it.  *)
LEMMA Unattended ==
  ASSUME NEW l \in Loops, Placed(l), OneCoder(l), Numbers(l),
         \/ loop[l].state \in {"none", "pending", "deciding", "awaiting_merge", "stopped_cap", "converged", "escalated"}
         \/ loop[l].state = "building_context"
         \/ loop[l].state \in {"reviewing", "developing"} /\ loop[l].old
  PROVE  /\ \A s \in Threads : ~Works(s, l)
         /\ \A i \in Instances : ~Usable(i, l) /\ ~Live(sdlc[i][l]) /\ StrayCoders(i, l) = 0
         /\ loop[l].state \notin {"building_context", "reviewing"} => \A i \in Instances : ~Marked(i, l)
<1>1. CASE loop[l].old /\ loop[l].state \in {"reviewing", "developing"}
  <2>1. /\ \A s \in Threads : ~Works(s, l)
        /\ \A i \in Instances : ~Usable(i, l)
        /\ loop[l].state = "developing" => \A i \in Instances : ~Marked(i, l) /\ StrayCoders(i, l) = 0
    BY <1>1 DEF Placed, OldUnattended
  <2>2. \A i \in Instances : ~Live(sdlc[i][l]) /\ StrayCoders(i, l) = 0
    BY <1>1, <2>1 DEF Placed, CodersPlace, Numbers
  <2> QED  BY <1>1, <2>1, <2>2
<1>2. CASE loop[l].state \notin {"reviewing", "developing"}
  <2>1. \A s \in Threads : ~Works(s, l)
    BY <1>2 DEF Placed, WorkersPlace
  <2>2. \A i \in Instances : ~Usable(i, l) /\ ~Live(sdlc[i][l]) /\ StrayCoders(i, l) = 0
    BY <1>2 DEF Placed, UsableOnly, CodersPlace, Numbers
  <2>3. loop[l].state # "building_context" => \A i \in Instances : ~Marked(i, l)
    BY <1>2 DEF Placed, MarksPlace
  <2> QED  BY <2>1, <2>2, <2>3
<1> QED  BY <1>1, <1>2

(* A won claim: its winner is the loop's only worker.                        *)
LEMMA WinsTended ==
  ASSUME IInv, NEW t \in Threads, NEW l \in Loops, Tended(l), Wins(t, l)
  PROVE  Tended(l)'
<1>n. Numbers(l) /\ t[1] \in Instances
  BY RoundsAreNumbers, OwnRow
<1>1. /\ \A s \in Threads \ {t} : th'[s] = th[s]
      /\ ~Settles(th[t]) /\ ~Settles(th'[t]) /\ th'[t].pc = "effect" /\ th[t].pc # "write"
      /\ th'[t].row = loop'[l] /\ loop'[l].round = loop[l].round /\ ~loop'[l].old
      /\ loop'[l].state = (IF HandsOff(th'[t]) THEN "developing" ELSE "reviewing")
      /\ \A i \in Instances : review'[i][l] = review[i][l] /\ sdlc'[i][l] = sdlc[i][l]
                              /\ StrayCoders(i, l)' = StrayCoders(i, l)
      /\ rounds'[l] = rounds[l]
  BY DEF Wins, Frame, Others, Light, Lands, HandsOff, Settles, StrayCoders, registry
<1>p. Placed(l) /\ OneCoder(l) /\ loop'[l].state \in {"reviewing", "developing"}
  BY DEF Wins, Tended, Closed
<1>2. /\ \A s \in Threads : ~Works(s, l)
      /\ \A i \in Instances : ~Usable(i, l) /\ ~Live(sdlc[i][l]) /\ StrayCoders(i, l) = 0
      /\ loop'[l].state = "developing" => \A i \in Instances : ~Marked(i, l)
  BY <1>n, <1>p, Unattended DEF Wins
<1>3. \A s \in Threads : Works(s, l)' => s = t
  BY <1>1, <1>2 DEF Works
<1>4. OneWorker(l)' /\ WorkedRound(l)'
  BY <1>n, <1>1, <1>3 DEF Tended, OneWorker, WorkedRound, Numbers
<1>5. OneCoder(l)'
  BY <1>n, <1>1, <1>2 DEF Tended, OneCoder
<1>6. WrittenRound(l)' /\ SettlesOwn(l)'
  BY <1>n, <1>1, OwnRow DEF Tended, WrittenRound, SettlesOwn, OwnReview, Numbers
<1>7. PastRounds(l)'
  BY <1>n, <1>1 DEF Tended, PastRounds, Numbers
<1>a. \A i \in Instances : ~Usable(i, l)' /\ (Marked(i, l)' <=> Marked(i, l))
  BY <1>1, <1>2 DEF Usable, Marked
<1>b. WorkersPlace(l)' /\ EntriesAhead(l)'
  BY <1>1, <1>3, <1>p DEF Placed, WorkersPlace, EntriesAhead
<1>c. UsableOnly(l)' /\ UsableAhead(l)'
  BY <1>a DEF UsableOnly, UsableAhead
<1>d. CodersPlace(l)' /\ OldUnattended(l)'
  BY <1>n, <1>1, <1>2 DEF CodersPlace, OldUnattended, Numbers
<1>e. MarksPlace(l)'
  BY <1>1, <1>2, <1>3, <1>a, <1>p DEF Placed, MarksPlace, Works
<1>f. TicksKnow(l)'
  <2>1. ASSUME NEW s \in Threads, th'[s].on = l, th'[s].pc = "tick"
        PROVE  /\ s # t /\ th'[s] = th[s] /\ s[1] \in Instances
               /\ (OwnReview(s[1], l, th[s].row)' <=> OwnReview(s[1], l, th[s].row))
               /\ (OwnCoder(s[1], l, th[s].row)' <=> OwnCoder(s[1], l, th[s].row))
    BY <1>n, <1>1, <2>1 DEF OwnReview, OwnCoder, Numbers
  <2>2. loop[l].state \in {"reviewing", "developing"} => loop'[l].state = loop[l].state
    BY DEF Wins
  <2> QED  BY <1>1, <1>p, <2>1, <2>2 DEF TicksKnow, Placed
<1> QED  BY <1>4, <1>5, <1>6, <1>7, <1>b, <1>c, <1>d, <1>e, <1>f DEF Tended, Placed
(* A row nobody works for moves on, to a state that nobody works in.         *)
LEMMA MovesTended ==
  ASSUME IInv, NEW t \in Threads, NEW l \in Loops, Tended(l), Moves(t, l)
  PROVE  Tended(l)'
<1>n. Numbers(l) /\ t[1] \in Instances
  BY RoundsAreNumbers, OwnRow
<1>1. /\ \A s \in Threads \ {t} : th'[s] = th[s]
      /\ ~Works(t, l)' /\ ~HandsOff(th'[t]) /\ ~Settles(th[t]) /\ ~Settles(th'[t]) /\ th[t].pc # "write"
      /\ loop'[l].round = loop[l].round /\ ~loop'[l].old
      /\ Off(th'[t]) \/ (th'[t].pc = "effect" /\ th'[t].row = loop'[l])
      /\ \A i \in Instances : review'[i][l] = review[i][l]
      /\ rounds'[l] = rounds[l]
  BY DEF Moves, Frame, Others, Light, Lands, Off, Works, Reviews, HandsOff, Settles
<1>p. Placed(l) /\ OneCoder(l) /\ loop'[l].state \notin {"reviewing", "developing"}
  BY DEF Moves, Tended, Closed
<1>2. /\ \A s \in Threads : ~Works(s, l)
      /\ \A i \in Instances : ~Usable(i, l) /\ ~Live(sdlc[i][l]) /\ StrayCoders(i, l) = 0 /\ ~Marked(i, l)
  <2>1. loop[l].state \in {"none", "pending", "deciding", "awaiting_merge"}
    BY DEF Moves
  <2> QED  BY <1>n, <1>p, <2>1, Unattended
<1>a. KeepsOrLoses(t[1], l) /\ NoCoder.round = 0
  BY DropsRun DEF Moves, NoCoder
<1>3. \A s \in Threads : ~Works(s, l)'
  BY <1>1, <1>2 DEF Works
<1>4. OneWorker(l)' /\ WorkedRound(l)'
  BY <1>3 DEF OneWorker, WorkedRound
<1>b. \A i \in Instances : ~Live(sdlc'[i][l]) /\ StrayCoders(i, l)' = 0 /\ (sdlc'[i][l] = sdlc[i][l] \/ sdlc'[i][l].round = 0)
  BY <1>n, <1>2, <1>a DEF KeepsOrLoses, Keeps, Loses, Live, Numbers
<1>5. OneCoder(l)'
  BY <1>b DEF OneCoder
<1>6. WrittenRound(l)' /\ SettlesOwn(l)'
  <2>1. WrittenRound(l)'
    BY <1>1, OwnRow DEF Tended, WrittenRound, Off
  <2>2. SettlesOwn(l)'
    BY <1>1, OwnRow DEF Tended, SettlesOwn, OwnReview
  <2> QED  BY <2>1, <2>2
<1>7. PastRounds(l)'
  BY <1>n, <1>1, <1>b DEF Tended, PastRounds, Numbers, Off
<1>c. \A i \in Instances : ~Usable(i, l)' /\ ~Marked(i, l)'
  BY <1>n, <1>1, <1>2, <1>b DEF Usable, Marked, Numbers
<1>d. WorkersPlace(l)' /\ EntriesAhead(l)'
  BY <1>1, <1>3, <1>p DEF Placed, WorkersPlace, EntriesAhead
<1>e. UsableOnly(l)' /\ UsableAhead(l)' /\ MarksPlace(l)'
  BY <1>c DEF UsableOnly, UsableAhead, MarksPlace
<1>f. CodersPlace(l)' /\ OldUnattended(l)'
  BY <1>1, <1>b DEF CodersPlace, OldUnattended
<1>g. TicksKnow(l)'
  <2>1. ASSUME NEW s \in Threads, th'[s].on = l, th'[s].pc = "tick"
        PROVE  /\ s # t /\ th'[s] = th[s] /\ s[1] \in Instances
               /\ (OwnReview(s[1], l, th[s].row)' => OwnReview(s[1], l, th[s].row))
               /\ (OwnCoder(s[1], l, th[s].row)' => OwnCoder(s[1], l, th[s].row))
    BY <1>n, <1>1, <1>b, <2>1 DEF OwnReview, OwnCoder, Numbers, Off
  <2>2. loop[l].state \notin {"reviewing", "developing"}
    BY DEF Moves
  <2> QED  BY <1>p, <2>1, <2>2 DEF TicksKnow, Placed
<1> QED  BY <1>4, <1>5, <1>6, <1>7, <1>d, <1>e, <1>f, <1>g DEF Tended, Placed
(* A call that holds the loop is the only one at its instance.               *)
LEMMA OneAtInstance ==
  ASSUME LockInv, NEW s \in Threads, NEW t \in Threads, s[1] = t[1], th[s].on = th[t].on,
         th[s].pc \in Claimed, th[t].pc \in Claimed
  PROVE  s = t
  BY DEF LockInv, LockHeld, LockOnce

(* A tick that would take the result of a review has a usable entry, and one *)
(* that would take a coder's has the mark.                                   *)
LEMMA TickUsable ==
  ASSUME LockInv, NEW l \in Loops, Placed(l), NEW s \in Threads, th[s].on = l, th[s].pc = "tick"
  PROVE  /\ th[s].row.state = "reviewing" /\ OwnReview(s[1], l, th[s].row) => Usable(s[1], l)
         /\ th[s].row.state = "developing" /\ OwnCoder(s[1], l, th[s].row) => Marked(s[1], l)
<1>1. \A t \in Threads : t[1] = s[1] /\ th[t].on = l => ~Settles(th[t])
  BY OneAtInstance DEF Claimed, Settles
<1> QED  BY <1>1 DEF Placed, TicksKnow, OwnReview, OwnCoder, Usable, Marked

(* A tick takes the result of a review.                                      *)
LEMMA DeliversTended ==
  ASSUME IInv, LockInv, NEW t \in Threads, NEW l \in Loops, Tended(l), Delivers(t, l)
  PROVE  Tended(l)'
<1>n. Numbers(l) /\ t[1] \in Instances
  BY RoundsAreNumbers, OwnRow
<1>1. /\ \A s \in Threads \ {t} : th'[s] = th[s]
      /\ ~Works(t, l)' /\ ~HandsOff(th'[t]) /\ Settles(th'[t]) /\ th'[t].pc = "effect" /\ th[t].pc = "tick"
      /\ th'[t].row = loop'[l] /\ loop'[l].round = loop[l].round /\ ~loop'[l].old /\ th'[t].on = l
      /\ loop[l].state = "reviewing" /\ loop'[l].state \notin {"reviewing", "developing"}
      /\ \A i \in Instances : review'[i][l] = review[i][l] /\ sdlc'[i][l] = sdlc[i][l]
                              /\ StrayCoders(i, l)' = StrayCoders(i, l)
      /\ rounds'[l] = rounds[l] /\ review[t[1]][l].done
  BY DEF Delivers, Frame, Others, Lands, Works, Reviews, HandsOff, Settles, StrayCoders, registry
<1>p. Placed(l) /\ OneCoder(l)
  BY <1>1 DEF Tended, Closed
<1>2. Usable(t[1], l)
  BY <1>p, TickUsable DEF Delivers
<1>3. /\ \A s \in Threads : ~Works(s, l)
      /\ \A j \in Instances : Usable(j, l) => j = t[1]
      /\ \A j \in Instances : sdlc[j][l].round < loop[l].round
  BY <1>n, <1>p, <1>2 DEF Placed, UsableOnly, UsableAhead
<1>4. \A s \in Threads : ~Works(s, l)'
  BY <1>1, <1>3 DEF Works
<1>5. OneWorker(l)' /\ WorkedRound(l)'
  BY <1>4 DEF OneWorker, WorkedRound
<1>6. OneCoder(l)'
  BY <1>n, <1>1, <1>p DEF OneCoder
<1>7. WrittenRound(l)'
  BY <1>n, <1>1 DEF Tended, WrittenRound, Numbers
<1>8. SettlesOwn(l)'
  BY <1>n, <1>1, <1>2 DEF Tended, SettlesOwn, OwnReview, Usable, Numbers
<1>9. PastRounds(l)'
  BY <1>n, <1>1 DEF Tended, PastRounds, Numbers
<1>a. \A i \in Instances : ~Usable(i, l)' /\ ~Marked(i, l)'
  <2>1. ASSUME NEW i \in Instances, Usable(i, l)' PROVE FALSE
    <3>1. i # t[1]
      BY <1>1, <2>1 DEF Usable
    <3>2. Usable(i, l)
      BY <1>1, <2>1, <3>1 DEF Usable
    <3> QED  BY <1>3, <3>1, <3>2
  <2> QED  BY <1>n, <1>1, <1>3, <2>1 DEF Marked, Numbers
<1>b. WorkersPlace(l)' /\ EntriesAhead(l)'
  BY <1>1, <1>4, <1>p DEF Placed, WorkersPlace, EntriesAhead
<1>c. UsableOnly(l)' /\ UsableAhead(l)' /\ MarksPlace(l)'
  BY <1>a DEF UsableOnly, UsableAhead, MarksPlace
<1>d. CodersPlace(l)' /\ OldUnattended(l)'
  BY <1>n, <1>1, <1>p DEF Placed, CodersPlace, OldUnattended, Numbers
<1>e. TicksKnow(l)'
  <2>1. ASSUME NEW s \in Threads, th'[s].on = l, th'[s].pc = "tick"
        PROVE  /\ s # t /\ th'[s] = th[s] /\ s[1] \in Instances
               /\ (OwnReview(s[1], l, th[s].row)' <=> OwnReview(s[1], l, th[s].row))
               /\ (OwnCoder(s[1], l, th[s].row)' <=> OwnCoder(s[1], l, th[s].row))
    BY <1>n, <1>1, <2>1 DEF OwnReview, OwnCoder, Numbers
  <2>2. ASSUME NEW s \in Threads \ {t}, th[s].on = l, th[s].pc = "tick", Usable(s[1], l) PROVE FALSE
    <3>1. s[1] = t[1]
      BY <1>n, <1>3, <2>2 DEF Numbers
    <3>2. th[t].on = l
      BY DEF Delivers
    <3> QED  BY <1>1, <2>2, <3>1, <3>2, OneAtInstance DEF Claimed
  <2>3. \A i \in Instances : ~Marked(i, l)
    BY <1>n, <1>3 DEF Marked, Numbers
  <2> QED  BY <1>p, <2>1, <2>2, <2>3, TickUsable DEF TicksKnow
<1> QED  BY <1>5, <1>6, <1>7, <1>8, <1>9, <1>b, <1>c, <1>d, <1>e DEF Tended, Placed

(* A tick takes the result of the coder: it was the last one.                *)
LEMMA EndsTended ==
  ASSUME IInv, LockInv, NEW t \in Threads, NEW l \in Loops, Tended(l), Ends(t, l)
  PROVE  Tended(l)' /\ Entered(l) = {}
<1>n. Numbers(l) /\ t[1] \in Instances
  BY RoundsAreNumbers, OwnRow
<1>1. /\ \A s \in Threads \ {t} : th'[s] = th[s]
      /\ ~Works(t, l)' /\ ~HandsOff(th'[t]) /\ ~Settles(th'[t]) /\ Off(th'[t]) /\ th[t].pc = "tick" /\ th[t].on = l
      /\ ~Settles(th[t]) /\ loop'[l].round = loop[l].round /\ ~loop'[l].old
      /\ loop[l].state = "developing" /\ loop'[l].state \in {"throttled", "building_context", "awaiting_merge"}
      /\ \A i \in Instances : review'[i][l] = review[i][l]
      /\ rounds'[l] = rounds[l]
  BY DEF Ends, Frame, Others, Lands, Off, Works, Reviews, HandsOff, Settles
<1>p. Placed(l) /\ OneCoder(l)
  BY <1>1 DEF Tended, Closed
<1>2. Marked(t[1], l) /\ sdlc[t[1]][l].done
  BY <1>p, TickUsable DEF Ends
<1>3. /\ \A j \in Instances : (Marked(j, l) => j = t[1]) /\ StrayCoders(j, l) = 0
      /\ \A s \in Threads : ~Works(s, l)
      /\ \A j \in Instances : ~Live(sdlc[j][l]) /\ ~Usable(j, l)
  <2>1. \A j \in Instances : (Marked(j, l) => j = t[1]) /\ StrayCoders(j, l) = 0
    BY <1>n, <1>p, <1>2 DEF Placed, MarksPlace
  <2>2. \A s \in Threads : th[s].on = l => ~HandsOff(th[s])
    BY <1>n, <1>p, <1>2 DEF Placed, MarksPlace
  <2>3. \A s \in Threads : ~Works(s, l)
    BY <1>1, <1>p, <2>2 DEF Placed, WorkersPlace, Works
  <2>4. \A j \in Instances : ~Live(sdlc[j][l]) /\ ~Usable(j, l)
    BY <1>1, <1>p, <1>2, <2>1 DEF Placed, CodersPlace, UsableOnly, Live
  <2> QED  BY <2>1, <2>3, <2>4
<1>a. KeepsOrLoses(t[1], l) /\ (loop'[l].state = "awaiting_merge" => sdlc'[t[1]][l] = NoCoder) /\ NoCoder.round = 0
  <2>1. Drops(t, l)
    BY DEF Ends, Drops
  <2>2. DropCoder(t[1], l) => sdlc'[t[1]][l] = NoCoder
    BY <1>n, CoderSet DEF DropCoder
  <2> QED  BY <2>1, <2>2, DropsRun DEF Ends, NoCoder
<1>b. \A i \in Instances : /\ ~Live(sdlc'[i][l]) /\ StrayCoders(i, l)' = 0
                           /\ (sdlc'[i][l] = sdlc[i][l] \/ sdlc'[i][l].round = 0)
  BY <1>n, <1>3, <1>a DEF KeepsOrLoses, Keeps, Loses, Live, Numbers
<1>4. \A s \in Threads : ~Works(s, l)'
  BY <1>1, <1>3 DEF Works
<1>5. OneWorker(l)' /\ WorkedRound(l)' /\ OneCoder(l)'
  BY <1>4, <1>b DEF OneWorker, WorkedRound, OneCoder
<1>6. WrittenRound(l)' /\ SettlesOwn(l)'
  BY <1>n, <1>1 DEF Tended, WrittenRound, SettlesOwn, OwnReview, Numbers, Off
<1>7. PastRounds(l)'
  BY <1>n, <1>1, <1>b DEF Tended, PastRounds, Numbers, Off
<1>c. \A i \in Instances : ~Usable(i, l)' /\ (Marked(i, l)' => Marked(i, l) /\ loop'[l].state # "awaiting_merge")
  <2>1. \A i \in Instances : ~Usable(i, l)'
    BY <1>1, <1>3 DEF Usable
  <2>2. \A i \in Instances : Marked(i, l)' => Marked(i, l)
    BY <1>n, <1>1, <1>b DEF Marked, Numbers
  <2>3. \A i \in Instances : Marked(i, l)' => loop'[l].state # "awaiting_merge"
    BY <1>3, <1>a, <2>2 DEF Marked
  <2> QED  BY <2>1, <2>2, <2>3
<1>d. WorkersPlace(l)' /\ EntriesAhead(l)' /\ UsableOnly(l)' /\ UsableAhead(l)'
  BY <1>1, <1>4, <1>p, <1>c DEF Placed, WorkersPlace, EntriesAhead, UsableOnly, UsableAhead
<1>e. CodersPlace(l)' /\ OldUnattended(l)'
  BY <1>1, <1>b DEF CodersPlace, OldUnattended
<1>f. MarksPlace(l)'
  BY <1>1, <1>3, <1>b, <1>c, <1>4 DEF MarksPlace, Works
<1>g. TicksKnow(l)'
  <2>1. ASSUME NEW s \in Threads, th'[s].on = l, th'[s].pc = "tick"
        PROVE  /\ s # t /\ th'[s] = th[s] /\ s[1] \in Instances
               /\ (OwnReview(s[1], l, th[s].row)' <=> OwnReview(s[1], l, th[s].row))
               /\ (OwnCoder(s[1], l, th[s].row)' => OwnCoder(s[1], l, th[s].row))
    BY <1>n, <1>1, <1>b, <2>1 DEF OwnReview, OwnCoder, Numbers, Off
  <2>2. ASSUME NEW s \in Threads \ {t}, th[s].on = l, th[s].pc = "tick", Marked(s[1], l) PROVE FALSE
    <3>1. s[1] = t[1]
      BY <1>n, <1>3, <2>2 DEF Numbers
    <3> QED  BY <1>1, <2>2, <3>1, OneAtInstance DEF Claimed
  <2> QED  BY <1>n, <1>3, <1>p, <2>1, <2>2, TickUsable DEF TicksKnow, Numbers
<1>h. Entered(l) = {}
  BY <1>3 DEF Entered
<1> QED  BY <1>5, <1>6, <1>7, <1>d, <1>e, <1>f, <1>g, <1>h DEF Tended, Placed
(* A review is started: the entry is ahead of the row until the round is     *)
(* written.                                                                  *)
LEMMA DispatchesTended ==
  ASSUME IInv, LockInv, NEW t \in Threads, NEW l \in Loops, Tended(l), Dispatches(t, l)
  PROVE  Tended(l)'
<1>n. Numbers(l) /\ t[1] \in Instances
  BY RoundsAreNumbers, OwnRow
<1>1. /\ \A s \in Threads \ {t} : th'[s] = th[s]
      /\ Works(t, l) /\ ~HandsOff(th'[t]) /\ ~Settles(th'[t]) /\ ~HandsOff(th[t]) /\ ~Settles(th[t])
      /\ th[t].pc = "effect" /\ th[t].on = l /\ th'[t].pc = "write" /\ th'[t].on = l /\ loop'[l] = loop[l]
      /\ \A i \in Instances : sdlc'[i][l] = sdlc[i][l] /\ StrayCoders(i, l)' = StrayCoders(i, l)
      /\ \A i \in Instances \ {t[1]} : review'[i][l] = review[i][l]
      /\ rounds'[l] = rounds[l]
  BY DEF Dispatches, Frame, Others, Works, Reviews, HandsOff, Settles, StrayCoders, SameRuns
<1>2. th'[t].row.round = loop[l].round + 1 /\ review'[t[1]][l].round = loop[l].round + 1
  <2>1. th[t].row.round = loop[l].round
    BY <1>n, <1>1 DEF Tended, WorkedRound, Numbers
  <2> QED  BY <2>1 DEF Dispatches
<1>3. \A s \in Threads : (Works(s, l)' => s = t) /\ (Works(s, l) => s = t)
  BY <1>1 DEF Works, Tended, OneWorker
<1>4. OneWorker(l)' /\ WorkedRound(l)'
  BY <1>1, <1>2, <1>3 DEF OneWorker, WorkedRound
<1>5. OneCoder(l)'
  BY <1>n, <1>1 DEF Tended, OneCoder
<1>6. WrittenRound(l)'
  BY <1>1, <1>2, <1>3 DEF WrittenRound, Works, Reviews
<1>7. SettlesOwn(l)'
  <2>1. ASSUME NEW s \in Threads, th'[s].on = l, Settles(th'[s])
        PROVE  th'[s] = th[s] /\ s[1] \in Instances \ {t[1]}
    <3>1. s # t /\ th'[s] = th[s] /\ th[s].on = l /\ th[s].pc = "effect"
      BY <1>1, <2>1 DEF Settles
    <3>2. s[1] # t[1]
      BY <1>1, <3>1, OneAtInstance DEF Claimed
    <3> QED  BY <1>n, <3>1, <3>2 DEF Numbers
  <2> QED  BY <1>1, <2>1 DEF Tended, SettlesOwn, OwnReview
<1>8. PastRounds(l)'
  BY <1>n, <1>1 DEF Tended, PastRounds
<1>9. ASSUME loop'[l].state \notin Closed PROVE Placed(l)'
  <2>1. Placed(l)
    BY <1>1, <1>9 DEF Tended
  <2>2. \A i \in Instances : ~Usable(i, l)
    BY <1>1, <2>1 DEF Placed, UsableOnly
  <2>3. \A i \in Instances : ~Usable(i, l)'
    <3>1. ASSUME NEW i \in Instances, Usable(i, l)' PROVE FALSE
      <4>1. i # t[1]
        BY <1>n, <1>1, <1>2, <3>1 DEF Usable, Numbers
      <4>2. Usable(i, l)
        BY <1>1, <3>1, <4>1 DEF Usable
      <4> QED  BY <2>2, <4>2
    <3> QED  BY <3>1
  <2>4. UsableOnly(l)' /\ UsableAhead(l)'
    BY <2>3 DEF UsableOnly, UsableAhead
  <2>5. WorkersPlace(l)' /\ EntriesAhead(l)'
    BY <1>1, <1>3, <2>1 DEF Placed, WorkersPlace, EntriesAhead
  <2>6. \A i \in Instances : Marked(i, l)' <=> Marked(i, l)
    BY <1>1 DEF Marked
  <2>7. CodersPlace(l)' /\ MarksPlace(l)'
    BY <1>1, <2>1, <2>6 DEF Placed, CodersPlace, MarksPlace
  <2>8. OldUnattended(l)'
    BY <1>1, <2>1 DEF Placed, OldUnattended
  <2>9. TicksKnow(l)'
    <3>1. ASSUME NEW s \in Threads, th'[s].on = l, th'[s].pc = "tick"
          PROVE  th'[s] = th[s] /\ s[1] \in Instances \ {t[1]}
      <4>1. s # t /\ th'[s] = th[s] /\ th[s].on = l /\ th[s].pc = "tick"
        BY <1>1, <3>1
      <4>2. s[1] # t[1]
        BY <1>1, <4>1, OneAtInstance DEF Claimed
      <4> QED  BY <1>n, <4>1, <4>2 DEF Numbers
    <3> QED  BY <1>1, <2>1, <3>1 DEF Placed, TicksKnow, OwnReview, OwnCoder
  <2> QED  BY <2>4, <2>5, <2>7, <2>8, <2>9 DEF Placed
<1> QED  BY <1>4, <1>5, <1>6, <1>7, <1>8, <1>9 DEF Tended

(* The round of a review is written: its entry becomes usable.               *)
LEMMA WritesTended ==
  ASSUME IInv, LockInv, NEW t \in Threads, NEW l \in Loops, Tended(l), Writes(t, l)
  PROVE  Tended(l)' /\ loop'[l].round = loop[l].round + 1
<1>n. Numbers(l) /\ t[1] \in Instances
  BY RoundsAreNumbers, OwnRow
<1>1. /\ \A s \in Threads \ {t} : th'[s] = th[s]
      /\ Works(t, l) /\ ~Works(t, l)' /\ ~HandsOff(th'[t]) /\ ~Settles(th'[t]) /\ ~HandsOff(th[t]) /\ ~Settles(th[t])
      /\ th[t].pc = "write" /\ th[t].on = l /\ Off(th'[t])
      /\ loop'[l].state = loop[l].state /\ ~loop'[l].old
      /\ \A i \in Instances : review'[i][l] = review[i][l] /\ sdlc'[i][l] = sdlc[i][l]
                              /\ StrayCoders(i, l)' = StrayCoders(i, l)
      /\ rounds'[l] = rounds[l]
  BY DEF Writes, Frame, Others, Off, Works, Reviews, HandsOff, Settles, StrayCoders, registry
<1>2. loop'[l].round = loop[l].round + 1 /\ review[t[1]][l].round = loop[l].round + 1
  BY <1>1 DEF Tended, WorkedRound, WrittenRound, Writes
<1>3. \A s \in Threads : ~Works(s, l)' /\ (Works(s, l) => s = t)
  BY <1>1 DEF Works, Tended, OneWorker
<1>4. OneWorker(l)' /\ WorkedRound(l)'
  BY <1>3 DEF OneWorker, WorkedRound
<1>5. OneCoder(l)'
  BY <1>n, <1>1 DEF Tended, OneCoder
<1>6. WrittenRound(l)'
  BY <1>1, <1>3 DEF WrittenRound, Works, Reviews
<1>7. SettlesOwn(l)'
  BY <1>n, <1>1 DEF Tended, SettlesOwn, OwnReview, Numbers
<1>8. PastRounds(l)'
  BY <1>n, <1>1, <1>2 DEF Tended, PastRounds, Numbers, Off
<1>9. ASSUME loop'[l].state \notin Closed PROVE Placed(l)'
  <2>1. Placed(l) /\ loop[l].state = "reviewing"
    BY <1>1, <1>9 DEF Tended, Placed, WorkersPlace
  <2>2. \A i \in Instances : ~Usable(i, l)
    BY <1>1, <2>1 DEF Placed, UsableOnly
  <2>3. \A i \in Instances : review[i][l].round > loop[l].round => i = t[1]
    BY <1>3, <2>1 DEF Placed, EntriesAhead, Works, Reviews
  <2>4. EntriesAhead(l)'
    BY <1>n, <1>1, <1>2, <2>3 DEF EntriesAhead, Numbers
  <2>5. UsableOnly(l)' /\ \A i \in Instances : Usable(i, l)' => i = t[1]
    <3>1. \A i \in Instances : Usable(i, l)' => i = t[1]
      BY <1>n, <1>1, <1>2, <2>3 DEF Usable, Numbers
    <3> QED  BY <1>1, <1>3, <2>1, <3>1 DEF UsableOnly
  <2>6. UsableAhead(l)'
    <3>1. /\ \A j \in Instances : sdlc[j][l].round < loop[l].round + 1
          /\ \A x \in rounds[l] : x.round < loop[l].round + 1
          /\ \A s \in Threads : th[s].on = l /\ th[s].pc \in {"tick", "effect", "plan"} =>
               th[s].row.round < loop[l].round + 1
      BY <1>n DEF Tended, PastRounds, Numbers
    <3> QED  BY <1>1, <1>2, <3>1 DEF UsableAhead, Off
  <2>7. WorkersPlace(l)'
    BY <1>3 DEF WorkersPlace
  <2>8. \A i \in Instances : ~Live(sdlc[i][l]) /\ StrayCoders(i, l) = 0 /\ ~Marked(i, l)'
    <3>1. \A i \in Instances : ~Live(sdlc[i][l]) /\ StrayCoders(i, l) = 0
      BY <1>n, <2>1 DEF Placed, CodersPlace, Numbers
    <3>2. \A i \in Instances : sdlc[i][l].round # loop[l].round + 1
      BY <1>n DEF Tended, PastRounds, Numbers
    <3> QED  BY <1>1, <1>2, <3>1, <3>2 DEF Marked
  <2>9. CodersPlace(l)' /\ MarksPlace(l)' /\ OldUnattended(l)'
    BY <1>1, <2>8 DEF CodersPlace, MarksPlace, OldUnattended
  <2>a. TicksKnow(l)'
    <3>1. ASSUME NEW s \in Threads, th'[s].on = l, th'[s].pc = "tick"
          PROVE  /\ s # t /\ th'[s] = th[s] /\ s[1] \in Instances
                 /\ (OwnReview(s[1], l, th[s].row)' <=> OwnReview(s[1], l, th[s].row))
                 /\ (OwnCoder(s[1], l, th[s].row)' <=> OwnCoder(s[1], l, th[s].row))
      BY <1>n, <1>1, <3>1 DEF OwnReview, OwnCoder, Numbers, Off
    <3> QED  BY <2>1, <2>2, <3>1, TickUsable DEF TicksKnow, Placed
  <2> QED  BY <2>4, <2>5, <2>6, <2>7, <2>9, <2>a DEF Placed
<1> QED  BY <1>2, <1>4, <1>5, <1>6, <1>7, <1>8, <1>9 DEF Tended

(* A hand-off records its round and waits for the planner.                   *)
LEMMA HandsOverTended ==
  ASSUME IInv, NEW t \in Threads, NEW l \in Loops, Tended(l), HandsOver(t, l)
  PROVE  Tended(l)'
<1>n. Numbers(l) /\ t[1] \in Instances
  BY RoundsAreNumbers, OwnRow
<1>1. /\ \A s \in Threads \ {t} : th'[s] = th[s]
      /\ Works(t, l) /\ HandsOff(th'[t]) /\ ~Settles(th'[t]) /\ HandsOff(th[t]) /\ ~Settles(th[t])
      /\ th[t].pc = "effect" /\ th[t].on = l /\ th'[t].pc = "plan" /\ th'[t].row = th[t].row
      /\ th'[t].on = l /\ loop'[l] = loop[l]
      /\ \A i \in Instances : review'[i][l] = review[i][l] /\ sdlc'[i][l] = sdlc[i][l]
                              /\ StrayCoders(i, l)' = StrayCoders(i, l)
      /\ \A x \in rounds'[l] : x \in rounds[l] \/ x.round = th[t].row.round
  BY DEF HandsOver, AddsRound, Frame, Others, Works, Reviews, HandsOff, Settles, StrayCoders, registry
<1>2. \A s \in Threads : (Works(s, l)' => s = t) /\ (Works(s, l) => s = t)
  BY <1>1 DEF Works, Tended, OneWorker
<1>3. OneWorker(l)' /\ WorkedRound(l)'
  BY <1>1, <1>2 DEF OneWorker, Tended, WorkedRound
<1>5. OneCoder(l)'
  BY <1>n, <1>1 DEF Tended, OneCoder
<1>6. WrittenRound(l)' /\ SettlesOwn(l)'
  <2>1. \A s \in Threads : th'[s].on = l /\ (th'[s].pc = "write" \/ Settles(th'[s])) =>
          s # t /\ th'[s] = th[s] /\ s[1] \in Instances
    BY <1>1, OwnRow
  <2>2. WrittenRound(l)'
    BY <1>1, <2>1 DEF Tended, WrittenRound
  <2>3. SettlesOwn(l)'
    BY <1>1, <2>1 DEF Tended, SettlesOwn, OwnReview
  <2> QED  BY <2>2, <2>3
<1>7. PastRounds(l)'
  BY <1>n, <1>1 DEF Tended, PastRounds, Numbers
<1>8. ASSUME loop'[l].state \notin Closed PROVE Placed(l)'
  <2>1. Placed(l)
    BY <1>1, <1>8 DEF Tended
  <2>2. \A i \in Instances : ~Usable(i, l) /\ ~Usable(i, l)' /\ (Marked(i, l)' <=> Marked(i, l))
    BY <1>1, <2>1 DEF Placed, UsableOnly, Usable, Marked
  <2>3. WorkersPlace(l)' /\ EntriesAhead(l)' /\ UsableOnly(l)' /\ UsableAhead(l)'
    BY <1>1, <1>2, <2>1, <2>2 DEF Placed, WorkersPlace, EntriesAhead, UsableOnly, UsableAhead
  <2>4. CodersPlace(l)' /\ MarksPlace(l)'
    BY <1>1, <2>1, <2>2 DEF Placed, CodersPlace, MarksPlace
  <2>5. OldUnattended(l)'
    BY <1>1, <2>1 DEF Placed, OldUnattended
  <2>6. TicksKnow(l)'
    BY <1>n, <1>1, <2>1 DEF Placed, TicksKnow, OwnReview, OwnCoder, Numbers
  <2> QED  BY <2>3, <2>4, <2>5, <2>6 DEF Placed
<1> QED  BY <1>3, <1>5, <1>6, <1>7, <1>8 DEF Tended
(* A coder is registered: it is the loop's only one, and its mark is the     *)
(* row's round.                                                              *)
LEMMA RegistersTended ==
  ASSUME IInv, LockInv, NEW t \in Threads, NEW l \in Loops, Tended(l), Registers(t, l)
  PROVE  Tended(l)'
<1>n. Numbers(l) /\ t[1] \in Instances
  BY RoundsAreNumbers, OwnRow
<1>1. /\ \A s \in Threads \ {t} : th'[s] = th[s]
      /\ Works(t, l) /\ ~Works(t, l)' /\ HandsOff(th[t]) /\ ~HandsOff(th'[t]) /\ ~Settles(th'[t]) /\ ~Settles(th[t])
      /\ th[t].pc = "plan" /\ th[t].on = l /\ Off(th'[t]) /\ loop'[l] = loop[l]
      /\ \A i \in Instances : review'[i][l] = review[i][l]
      /\ rounds'[l] = rounds[l]
  BY DEF Registers, Frame, Others, Off, Works, Reviews, HandsOff, Settles
<1>2. sdlc'[t[1]][l].round = loop[l].round
  <2>1. th[t].row.round = loop[l].round
    BY <1>n, <1>1 DEF Tended, WorkedRound, Numbers
  <2> QED  BY <2>1 DEF Registers
<1>3. \A i \in Instances : ~Live(sdlc[i][l]) /\ StrayCoders(i, l) = 0
  BY <1>1 DEF Tended, OneCoder
<1>4. \A i \in Instances : StrayCoders(i, l)' = 0 /\ (i # t[1] => sdlc'[i][l] = sdlc[i][l])
  <2>1. SetCoder(t[1], l, sdlc'[t[1]][l])
    BY DEF Registers
  <2> DEFINE run == sdlc'[t[1]][l]
  <2>2. SetCoder(t[1], l, run)
    BY <2>1
  <2> HIDE DEF run
  <2> QED  BY <1>n, <1>3, <2>2, CoderSet
<1>5. \A s \in Threads : ~Works(s, l)' /\ (Works(s, l) => s = t)
  BY <1>1 DEF Works, Tended, OneWorker
<1>6. OneWorker(l)' /\ WorkedRound(l)'
  BY <1>5 DEF OneWorker, WorkedRound
<1>7. OneCoder(l)'
  BY <1>n, <1>3, <1>4, <1>5 DEF OneCoder, Works
<1>8. WrittenRound(l)' /\ SettlesOwn(l)'
  BY <1>n, <1>1 DEF Tended, WrittenRound, SettlesOwn, OwnReview, Numbers, Off
<1>9. PastRounds(l)'
  BY <1>n, <1>1, <1>2, <1>4 DEF Tended, PastRounds, Numbers, Off
<1>a. ASSUME loop'[l].state \notin Closed PROVE Placed(l)'
  <2>1. Placed(l) /\ loop[l].state = "developing"
    BY <1>1, <1>a DEF Tended, Placed, WorkersPlace
  <2>2. \A i \in Instances : ~Usable(i, l) /\ ~Usable(i, l)'
    BY <1>1, <2>1 DEF Placed, UsableOnly, Usable
  <2>3. \A i \in Instances : Marked(i, l)' => i = t[1]
    BY <1>1, <1>4, <2>1 DEF Placed, MarksPlace, Marked
  <2>4. WorkersPlace(l)' /\ EntriesAhead(l)' /\ UsableOnly(l)' /\ UsableAhead(l)'
    BY <1>1, <1>5, <2>1, <2>2 DEF Placed, WorkersPlace, EntriesAhead, UsableOnly, UsableAhead
  <2>5. CodersPlace(l)'
    BY <1>1, <1>2, <1>3, <1>4, <2>1 DEF CodersPlace, Live, Marked
  <2>6. MarksPlace(l)'
    BY <1>1, <1>4, <1>5, <2>1, <2>3 DEF MarksPlace, Works
  <2>7. OldUnattended(l)'
    BY <1>1, <2>1 DEF Placed, OldUnattended
  <2>8. TicksKnow(l)'
    <3>1. ASSUME NEW s \in Threads, th'[s].on = l, th'[s].pc = "tick"
          PROVE  th'[s] = th[s] /\ s[1] \in Instances \ {t[1]}
      <4>1. s # t /\ th'[s] = th[s] /\ th[s].on = l /\ th[s].pc = "tick"
        BY <1>1, <3>1 DEF Off
      <4>2. s[1] # t[1]
        BY <1>1, <4>1, OneAtInstance DEF Claimed
      <4> QED  BY <1>n, <4>1, <4>2 DEF Numbers
    <3> QED  BY <1>1, <1>4, <2>1, <3>1 DEF Placed, TicksKnow, OwnReview, OwnCoder
  <2> QED  BY <2>4, <2>5, <2>6, <2>7, <2>8 DEF Placed
<1> QED  BY <1>6, <1>7, <1>8, <1>9, <1>a DEF Tended

(* A settled review's round is recorded and its entry dropped.               *)
LEMMA ClearsTended ==
  ASSUME IInv, LockInv, NEW t \in Threads, NEW l \in Loops, Tended(l), Clears(t, l)
  PROVE  Tended(l)'
<1>n. Numbers(l) /\ t[1] \in Instances
  BY RoundsAreNumbers, OwnRow
<1>1. /\ \A s \in Threads \ {t} : th'[s] = th[s]
      /\ ~Works(t, l)' /\ ~HandsOff(th'[t]) /\ ~Settles(th'[t]) /\ Settles(th[t])
      /\ th[t].pc = "effect" /\ th[t].on = l /\ Off(th'[t]) /\ loop'[l] = loop[l]
      /\ \A i \in Instances : sdlc'[i][l] = sdlc[i][l] /\ StrayCoders(i, l)' = StrayCoders(i, l)
      /\ \A i \in Instances \ {t[1]} : review'[i][l] = review[i][l]
      /\ \A x \in rounds'[l] : x \in rounds[l] \/ x.round = th[t].row.round
  BY DEF Clears, AddsRound, Frame, Others, Off, Works, Reviews, HandsOff, Settles, StrayCoders, SameRuns
<1>2. review'[t[1]][l].round = 0
  <2>1. OwnReview(t[1], l, th[t].row) /\ review[t[1]][l].done
    BY <1>1 DEF Tended, SettlesOwn
  <2> QED  BY <2>1 DEF Clears, NoReview
<1>3. \A s \in Threads : Works(s, l)' => s # t /\ Works(s, l)
  BY <1>1 DEF Works
<1>4. \A s \in Threads \ {t} : th[s].on = l /\ s[1] = t[1] => th[s].pc \notin Claimed
  BY <1>1, OneAtInstance DEF Claimed
<1>5. OneWorker(l)' /\ WorkedRound(l)'
  BY <1>1, <1>3 DEF Tended, OneWorker, WorkedRound
<1>6. OneCoder(l)'
  BY <1>n, <1>1 DEF Tended, OneCoder
<1>7. WrittenRound(l)'
  BY <1>n, <1>1, <1>4 DEF Tended, WrittenRound, Numbers, Off, Claimed
<1>8. SettlesOwn(l)'
  BY <1>n, <1>1, <1>4 DEF Tended, SettlesOwn, OwnReview, Numbers, Settles, Claimed
<1>9. PastRounds(l)'
  BY <1>n, <1>1 DEF Tended, PastRounds, Numbers, Off
<1>a. ASSUME loop'[l].state \notin Closed PROVE Placed(l)'
  <2>1. Placed(l)
    BY <1>1, <1>a DEF Tended
  <2>2. \A i \in Instances : Usable(i, l)' => i # t[1] /\ Usable(i, l)
    BY <1>1, <1>2 DEF Usable
  <2>3. \A i \in Instances : Marked(i, l)' <=> Marked(i, l)
    BY <1>1 DEF Marked
  <2>4. WorkersPlace(l)'
    BY <1>1, <1>3, <2>1 DEF Placed, WorkersPlace
  <2>5. EntriesAhead(l)'
    BY <1>n, <1>1, <1>2, <2>1 DEF Placed, EntriesAhead, Numbers
  <2>6. UsableOnly(l)'
    BY <1>1, <1>3, <2>1, <2>2 DEF Placed, UsableOnly
  <2>7. UsableAhead(l)'
    BY <1>1, <2>1, <2>2 DEF Placed, UsableAhead, Off
  <2>8. CodersPlace(l)' /\ MarksPlace(l)'
    BY <1>1, <2>1, <2>3 DEF Placed, CodersPlace, MarksPlace
  <2>9. OldUnattended(l)'
    BY <1>1, <1>3, <2>1, <2>2, <2>3 DEF Placed, OldUnattended
  <2>a. ASSUME NEW s \in Threads, th'[s].on = l, th'[s].pc = "tick"
        PROVE  /\ s # t /\ th'[s] = th[s]
               /\ OwnReview(s[1], l, th[s].row)' => OwnReview(s[1], l, th[s].row)
               /\ OwnCoder(s[1], l, th[s].row)' => OwnCoder(s[1], l, th[s].row)
    <3>1. s # t /\ th'[s] = th[s]
      BY <1>1, <2>a DEF Off
    <3>2. ASSUME OwnReview(s[1], l, th[s].row)' PROVE OwnReview(s[1], l, th[s].row)
      <4>1. s[1] \in Instances
        BY <1>n DEF Numbers
      <4>2. th[s].row.round > 0 /\ review'[s[1]][l].round = th[s].row.round
        BY <3>1, <3>2 DEF OwnReview
      <4>3. s[1] # t[1]
        BY <1>2, <4>2
      <4> QED  BY <1>1, <4>1, <4>2, <4>3 DEF OwnReview
    <3>3. ASSUME OwnCoder(s[1], l, th[s].row)' PROVE OwnCoder(s[1], l, th[s].row)
      BY <1>n, <1>1, <3>1, <3>3 DEF OwnCoder, Numbers
    <3> QED  BY <3>1, <3>2, <3>3
  <2>b. TicksKnow(l)'
    <3>1. TicksKnow(l)
      BY <2>1 DEF Placed
    <3> QED  BY <1>1, <2>a, <3>1 DEF TicksKnow
  <2> QED  BY <2>4, <2>5, <2>6, <2>7, <2>8, <2>9, <2>b DEF Placed
<1> QED  BY <1>5, <1>6, <1>7, <1>8, <1>9, <1>a DEF Tended

(* The step of a call keeps every loop tended.                               *)
LEMMA WorkTended ==
  ASSUME IInv, LockInv, TendInv, NEW t \in Threads, NEW l \in Loops, WorkStep(t, l)
  PROVE  TendInv'
<1>1. Tended(l)'
  BY LeavesTended, BeginsTended, WinsTended, MovesTended, DeliversTended, EndsTended, DispatchesTended,
     WritesTended, HandsOverTended, RegistersTended, ClearsTended, AuditsTended DEF WorkStep, TendInv
<1>2. Frame(t, l)
  BY DEF WorkStep, Leaves, Begins, Wins, Moves, Delivers, Ends, Dispatches, Writes, HandsOver, Registers,
         Clears, Audits
<1> QED  BY <1>1, <1>2, OtherLoops DEF TendInv
-----------------------------------------------------------------------------
(* The steps of no call.                                                     *)

(* Runs settle: their entries and marks stay, and live coders get fewer.     *)
LEMMA SettlesTended ==
  ASSUME NEW l \in Loops, Tended(l), Numbers(l), UNCHANGED <<loop, rounds, th>>,
         \A i \in Instances :
           /\ sdlc'[i][l].round = sdlc[i][l].round /\ (sdlc[i][l].done => sdlc'[i][l].done)
           /\ review'[i][l].round = review[i][l].round /\ (review[i][l].done => review'[i][l].done)
           /\ StrayCoders(i, l)' \in Nat /\ StrayCoders(i, l)' <= StrayCoders(i, l)
  PROVE  Tended(l)'
<1>a. ASSUME NEW i \in Instances
      PROVE  /\ StrayCoders(i, l)' > 0 => StrayCoders(i, l) > 0
             /\ StrayCoders(i, l) = 0 => StrayCoders(i, l)' = 0
             /\ StrayCoders(i, l) = 1 => StrayCoders(i, l)' \in {0, 1}
  <2> DEFINE x == StrayCoders(i, l)  u == StrayCoders(i, l)'
  <2>1. x \in Nat /\ u \in Nat /\ u <= x
    BY DEF Numbers
  <2> HIDE DEF x, u
  <2>2. (u > 0 => x > 0) /\ (x = 0 => u = 0) /\ (x = 1 => u \in {0, 1})
    BY <2>1
  <2> QED  BY <2>2 DEF x, u
<1>b. \A i \in Instances : Live(sdlc[i][l])' => Live(sdlc[i][l])
  BY DEF Live
<1>c. \A i \in Instances : (Usable(i, l)' <=> Usable(i, l)) /\ (Marked(i, l)' <=> Marked(i, l))
  BY DEF Usable, Marked
<1>1. \A i \in Instances : /\ Live(sdlc[i][l])' => Live(sdlc[i][l])
                           /\ StrayCoders(i, l)' > 0 => StrayCoders(i, l) > 0
                           /\ StrayCoders(i, l) = 0 => StrayCoders(i, l)' = 0
                           /\ StrayCoders(i, l) = 1 => StrayCoders(i, l)' \in {0, 1}
                           /\ (Usable(i, l)' <=> Usable(i, l)) /\ (Marked(i, l)' <=> Marked(i, l))
  BY <1>a, <1>b, <1>c
<1>2. OneWorker(l)' /\ WorkedRound(l)'
  BY DEF Tended, OneWorker, WorkedRound, Works
<1>3. OneCoder(l)'
  <2>1. \A i \in Instances : StrayCoders(i, l)' > 0 => StrayCoders(i, l)' = 1
    BY <1>1 DEF Tended, OneCoder
  <2> QED  BY <1>1, <2>1 DEF Tended, OneCoder
<1>4. WrittenRound(l)' /\ PastRounds(l)' /\ SettlesOwn(l)'
  BY DEF Tended, WrittenRound, PastRounds, SettlesOwn, OwnReview, Numbers
<1>5. ASSUME Placed(l) PROVE Placed(l)'
  <2>1. WorkersPlace(l)' /\ EntriesAhead(l)'
    BY <1>5 DEF Placed, WorkersPlace, EntriesAhead, Works
  <2>2. UsableOnly(l)' /\ UsableAhead(l)'
    BY <1>1, <1>5 DEF Placed, UsableOnly, UsableAhead, Works
  <2>3. CodersPlace(l)' /\ MarksPlace(l)' /\ OldUnattended(l)'
    BY <1>1, <1>5 DEF Placed, CodersPlace, MarksPlace, OldUnattended, Works
  <2>4. TicksKnow(l)'
    BY <1>5 DEF Placed, TicksKnow, OwnReview, OwnCoder, Numbers
  <2> QED  BY <2>1, <2>2, <2>3, <2>4 DEF Placed
<1> QED  BY <1>2, <1>3, <1>4, <1>5 DEF Tended

LEMMA BackgroundTended ==
  ASSUME IInv, IInv', TendInv, NEW i \in Instances, NEW l \in Loops, Background(i, l)
  PROVE  TendInv'
<1> SUFFICES ASSUME NEW m \in Loops PROVE Tended(m)'
  BY DEF TendInv
<1>n. Numbers(m) /\ Tended(m)
  BY RoundsAreNumbers DEF TendInv
<1>t. /\ sdlc \in [Instances -> [Loops -> CoderRun]]
      /\ review \in [Instances -> [Loops -> ReviewRun]]
      /\ stray \in [Instances -> [Loops -> [BOOLEAN -> Nat]]]
  BY DEF IInv, TypeOK, RegistryOK
<1>1. CASE CoderSettle(i, l)
  <2>1. PICK res \in CoderResults : sdlc' = [sdlc EXCEPT ![i][l].done = TRUE, ![i][l].res = res]
    BY <1>1 DEF CoderSettle
  <2>2. \A j \in Instances : sdlc'[j][m].round = sdlc[j][m].round /\ (sdlc[j][m].done => sdlc'[j][m].done)
    BY <1>t, <2>1 DEF CoderRun
  <2>3. UNCHANGED <<loop, rounds, th, review, stray>>
    BY <1>1 DEF CoderSettle, db
  <2>4. \A j \in Instances : StrayCoders(j, m)' = StrayCoders(j, m) /\ StrayCoders(j, m) \in Nat
    BY <1>n, <2>3 DEF StrayCoders, Numbers
  <2> QED  BY <1>n, <2>2, <2>3, <2>4, SettlesTended
<1>2. CASE StraySettle(i, l)
  <2>1. PICK command \in BOOLEAN : stray[i][l][command] > 0 /\ stray' = [stray EXCEPT ![i][l][command] = @ - 1]
    BY <1>2 DEF StraySettle
  <2>2. UNCHANGED <<loop, rounds, th, review, sdlc>>
    BY <1>2 DEF StraySettle, db
  <2>3. ASSUME NEW j \in Instances PROVE StrayCoders(j, m)' \in Nat /\ StrayCoders(j, m)' <= StrayCoders(j, m)
    <3>1. \A b \in BOOLEAN : stray'[j][m][b] \in Nat /\ stray'[j][m][b] <= stray[j][m][b]
      <4>1. stray' \in [Instances -> [Loops -> [BOOLEAN -> Nat]]]
        BY DEF IInv, TypeOK, RegistryOK
      <4>2. \A b \in BOOLEAN : stray'[j][m][b] = stray[j][m][b] \/ stray'[j][m][b] = stray[j][m][b] - 1
        BY <1>t, <2>1
      <4>3. SUFFICES ASSUME NEW b \in BOOLEAN
                     PROVE  stray'[j][m][b] \in Nat /\ stray'[j][m][b] <= stray[j][m][b]
        OBVIOUS
      <4> DEFINE x == stray[j][m][b]  u == stray'[j][m][b]
      <4>4. x \in Nat /\ u \in Nat /\ (u = x \/ u = x - 1)
        BY <1>t, <4>1, <4>2
      <4> HIDE DEF x, u
      <4>5. u <= x
        BY <4>4
      <4> QED  BY <4>4, <4>5 DEF x, u
    <3> DEFINE x == stray[j][m][TRUE]  y == stray[j][m][FALSE]
               u == stray'[j][m][TRUE]  v == stray'[j][m][FALSE]
    <3>2. TRUE \in BOOLEAN /\ FALSE \in BOOLEAN
      OBVIOUS
    <3>3. u \in Nat /\ v \in Nat /\ u <= x /\ v <= y
      BY <3>1, <3>2, Zenon
    <3>4. x \in Nat /\ y \in Nat
      BY StraysAdd
    <3>5. StrayCoders(j, m)' = u + v /\ StrayCoders(j, m) = x + y
      BY DEF StrayCoders
    <3> HIDE DEF x, y, u, v
    <3> QED  BY <3>3, <3>4, <3>5
  <2> QED  BY <1>n, <2>2, <2>3, SettlesTended
<1>3. CASE ReviewSettle(i, l)
  <2>1. \A j \in Instances : review'[j][m].round = review[j][m].round /\ (review[j][m].done => review'[j][m].done)
    <3>1. CASE \E v \in Verdicts :
            review' = [review EXCEPT ![i][l].done = TRUE, ![i][l].res = "verdict", ![i][l].verdict = v]
      <4>1. PICK v \in Verdicts :
              review' = [review EXCEPT ![i][l].done = TRUE, ![i][l].res = "verdict", ![i][l].verdict = v]
        BY <3>1
      <4> QED  BY <1>t, <4>1 DEF ReviewRun
    <3>2. CASE \E res \in {"error", "limited"} :
            review' = [review EXCEPT ![i][l].done = TRUE, ![i][l].res = res]
      <4>1. PICK res \in {"error", "limited"} :
              review' = [review EXCEPT ![i][l].done = TRUE, ![i][l].res = res]
        BY <3>2
      <4> QED  BY <1>t, <4>1 DEF ReviewRun
    <3> QED  BY <1>3, <3>1, <3>2 DEF ReviewSettle
  <2>2. UNCHANGED <<loop, rounds, th, sdlc, stray>>
    BY <1>3 DEF ReviewSettle, db
  <2>3. \A j \in Instances : StrayCoders(j, m)' = StrayCoders(j, m) /\ StrayCoders(j, m) \in Nat
    BY <1>n, <2>2 DEF StrayCoders, Numbers
  <2> QED  BY <1>n, <2>1, <2>2, <2>3, SettlesTended
<1> QED  BY <1>1, <1>2, <1>3 DEF Background

(* A row ages: nobody works for the loop.                                    *)
LEMMA AgeTended ==
  ASSUME IInv, TendInv, GraceCovers = TRUE, NEW l \in Loops, Age(l)
  PROVE  TendInv'
<1> SUFFICES ASSUME NEW m \in Loops PROVE Tended(m)'
  BY DEF TendInv
<1>n. Numbers(m) /\ Tended(m)
  BY RoundsAreNumbers DEF TendInv
<1>1. /\ loop'[m].state = loop[m].state /\ loop'[m].round = loop[m].round
      /\ m = l \/ loop'[m].old = loop[m].old
      /\ UNCHANGED <<rounds, sdlc, review, stray, th>>
  BY DEF Age, IInv, TypeOK, LoopsOK, Row, registry
<1>2. loop[l].state \in {"reviewing", "developing"} => ~Attended(l)
  BY DEF Age
<1>3. \A i \in Instances : /\ (Usable(i, m)' <=> Usable(i, m)) /\ (Marked(i, m)' <=> Marked(i, m))
                           /\ StrayCoders(i, m)' = StrayCoders(i, m)
  BY <1>1 DEF Usable, Marked, StrayCoders
<1>4. OneWorker(m)' /\ WorkedRound(m)' /\ OneCoder(m)'
  BY <1>n, <1>1, <1>3 DEF Tended, OneWorker, WorkedRound, Works, OneCoder
<1>5. WrittenRound(m)' /\ PastRounds(m)' /\ SettlesOwn(m)'
  BY <1>n, <1>1 DEF Tended, WrittenRound, PastRounds, SettlesOwn, OwnReview
<1>6. ASSUME Placed(m) PROVE Placed(m)'
  <2>1. WorkersPlace(m)' /\ EntriesAhead(m)' /\ UsableOnly(m)' /\ UsableAhead(m)'
    BY <1>1, <1>3, <1>6 DEF Placed, WorkersPlace, EntriesAhead, UsableOnly, UsableAhead, Works
  <2>2. CodersPlace(m)' /\ MarksPlace(m)' /\ TicksKnow(m)'
    BY <1>1, <1>3, <1>6 DEF Placed, CodersPlace, MarksPlace, TicksKnow, OwnReview, OwnCoder
  <2>3. OldUnattended(m)'
    <3>1. CASE m # l
      BY <1>1, <1>3, <1>6, <3>1 DEF Placed, OldUnattended, Works
    <3>2. CASE m = l /\ loop[l].state \in {"reviewing", "developing"}
      <4>1. \A s \in Threads : ~Works(s, l)
        BY <1>2, <3>2 DEF Attended, Works, Reviews, HandsOff
      <4>2. \A i \in Instances : ~Usable(i, l) /\ ~Marked(i, l)
        BY <1>n, <1>2, <3>2 DEF Attended, OwnReview, OwnCoder, Usable, Marked, Numbers
      <4>3. \A i \in Instances : StrayCoders(i, l) = 0
        BY <1>n, <1>2, <3>2 DEF Attended, Numbers
      <4> QED  BY <1>1, <1>3, <3>2, <4>1, <4>2, <4>3 DEF OldUnattended, Works
    <3>3. CASE m = l /\ loop[l].state \notin {"reviewing", "developing"}
      BY <1>1, <3>3 DEF OldUnattended
    <3> QED  BY <3>1, <3>2, <3>3
  <2> QED  BY <2>1, <2>2, <2>3 DEF Placed
<1> QED  BY <1>n, <1>1, <1>4, <1>5, <1>6 DEF Tended

(* A crash takes the calls and the entries of its instance.                  *)
LEMMA CrashTended ==
  ASSUME IInv, TendInv, NEW i \in Instances, Crash(i)
  PROVE  TendInv'
<1> SUFFICES ASSUME NEW m \in Loops PROVE Tended(m)'
  BY DEF TendInv
<1>n. Numbers(m) /\ Tended(m)
  BY RoundsAreNumbers DEF TendInv
<1>1. /\ UNCHANGED <<loop, rounds>>
      /\ \A s \in Threads : th'[s] = IF s[1] = i THEN Idle ELSE th[s]
      /\ Idle.pc = "idle"
  BY DEF Crash, Idle
<1>2. /\ \A j \in Instances \ {i} : sdlc'[j][m] = sdlc[j][m] /\ review'[j][m] = review[j][m]
      /\ sdlc'[i][m] = NoCoder /\ review'[i][m] = NoReview /\ NoCoder.round = 0 /\ NoReview.round = 0
  BY DEF Crash, IInv, TypeOK, RegistryOK, NoCoder, NoReview
<1>3. \A j \in Instances : StrayCoders(j, m)' = IF j = i THEN 0 ELSE StrayCoders(j, m)
  <2>1. \A j \in Instances : stray'[j][m] = IF j = i THEN NoStray ELSE stray[j][m]
    BY DEF Crash, IInv, TypeOK, RegistryOK
  <2>2. NoStray[TRUE] = 0 /\ NoStray[FALSE] = 0
    BY DEF NoStray
  <2>3. ASSUME NEW j \in Instances, j # i PROVE StrayCoders(j, m)' = StrayCoders(j, m)
    BY <2>1, <2>3 DEF StrayCoders
  <2>4. StrayCoders(i, m)' = NoStray[TRUE] + NoStray[FALSE]
    BY <2>1 DEF StrayCoders
  <2> QED  BY <2>2, <2>3, <2>4
<1>4. \A s \in Threads : /\ th'[s].pc # "idle" => th'[s] = th[s] /\ s[1] \in Instances \ {i}
                         /\ Works(s, m)' => Works(s, m) /\ th'[s] = th[s]
                         /\ HandsOff(th'[s]) => th'[s] = th[s]
                         /\ Settles(th'[s]) => th'[s] = th[s] /\ s[1] \in Instances \ {i}
  BY <1>n, <1>1 DEF Works, Reviews, HandsOff, Settles, Numbers
<1>5. \A j \in Instances : /\ Usable(j, m)' => j # i /\ Usable(j, m)
                           /\ Marked(j, m)' => j # i /\ Marked(j, m)
                           /\ Live(sdlc[j][m])' => j # i /\ Live(sdlc[j][m])
  BY <1>n, <1>1, <1>2 DEF Usable, Marked, Live, Numbers
<1>6. OneWorker(m)' /\ WorkedRound(m)' /\ OneCoder(m)'
  BY <1>n, <1>1, <1>3, <1>4, <1>5 DEF Tended, OneWorker, WorkedRound, OneCoder
<1>7. WrittenRound(m)' /\ SettlesOwn(m)'
  BY <1>n, <1>1, <1>2, <1>4 DEF Tended, WrittenRound, SettlesOwn, OwnReview
<1>8. PastRounds(m)'
  BY <1>n, <1>1, <1>2, <1>4 DEF Tended, PastRounds, Numbers
<1>9. ASSUME Placed(m) PROVE Placed(m)'
  <2>1. WorkersPlace(m)'
    BY <1>1, <1>4, <1>9 DEF Placed, WorkersPlace
  <2>2. EntriesAhead(m)'
    BY <1>n, <1>1, <1>2, <1>9 DEF Placed, EntriesAhead, Numbers
  <2>3. UsableOnly(m)' /\ UsableAhead(m)'
    BY <1>n, <1>1, <1>2, <1>4, <1>5, <1>9 DEF Placed, UsableOnly, UsableAhead, Numbers
  <2>4. CodersPlace(m)' /\ MarksPlace(m)' /\ OldUnattended(m)'
    BY <1>1, <1>2, <1>3, <1>4, <1>5, <1>9 DEF Placed, CodersPlace, MarksPlace, OldUnattended, Marked
  <2>5. TicksKnow(m)'
    BY <1>1, <1>2, <1>4, <1>9 DEF Placed, TicksKnow, OwnReview, OwnCoder
  <2> QED  BY <2>1, <2>2, <2>3, <2>4, <2>5 DEF Placed
<1> QED  BY <1>n, <1>1, <1>6, <1>7, <1>8, <1>9 DEF Tended

(* Steps that touch none of it.                                              *)
LEMMA StutterTended ==
  ASSUME IInv, TendInv, UNCHANGED <<loop, rounds, th, sdlc, review, stray>>
  PROVE  TendInv'
<1> SUFFICES ASSUME NEW m \in Loops PROVE Tended(m)'
  BY DEF TendInv
<1>1. Numbers(m) /\ Tended(m)
  BY RoundsAreNumbers DEF TendInv
<1>2. \A i \in Instances : StrayCoders(i, m)' = StrayCoders(i, m) /\ StrayCoders(i, m) \in Nat
  BY <1>1 DEF StrayCoders, Numbers
<1> QED  BY <1>1, <1>2, SettlesTended DEF Numbers
-----------------------------------------------------------------------------
(* Every step of a call is one of those steps, and the calls and rows stay   *)
(* the runner's.                                                             *)

Fits(t, l) == WorkStep(t, l) /\ Plain(th'[t]) /\ PlainRow(loop'[l])

LEMMA FitsByRunner ==
  ASSUME ByRunner, NEW t \in Threads, NEW l \in Loops, Fits(t, l)
  PROVE  ByRunner'
<1>1. Frame(t, l)
  BY DEF Fits, WorkStep, Leaves, Begins, Wins, Moves, Delivers, Ends, Dispatches, Writes, HandsOver, Registers,
         Clears, Audits
<1>2. \A m \in Loops : PlainRow(loop[m])'
  <2>1. ASSUME NEW m \in Loops \ {l} PROVE PlainRow(loop[m])'
    BY <1>1 DEF Frame, ByRunner, PlainRow
  <2>2. PlainRow(loop[l])'
    BY DEF Fits, PlainRow
  <2> QED  BY <2>1, <2>2
<1>3. \A s \in Threads : Plain(th[s])'
  <2>1. ASSUME NEW s \in Threads \ {t} PROVE Plain(th[s])'
    BY <1>1 DEF Frame, Others, ByRunner, Plain
  <2>2. Plain(th[t])'
    BY DEF Fits, Plain
  <2> QED  BY <2>1, <2>2
<1> QED  BY <1>2, <1>3 DEF ByRunner

RowFrame(l) == \A m \in Loops \ {l} : loop'[m] = loop[m]
RoundFrame(l) == \A m \in Loops \ {l} : rounds'[m] = rounds[m]
RunFrame(i, l) == \A j \in Instances, m \in Loops : j # i \/ m # l =>
  sdlc'[j][m] = sdlc[j][m] /\ stray'[j][m] = stray[j][m]
ReviewFrame(i, l) == \A j \in Instances, m \in Loops : j # i \/ m # l => review'[j][m] = review[j][m]

LEMMA Framed ==
  ASSUME NEW t, NEW l, Others(t), th[t].on = l \/ th[t].pc = "idle", th'[t].on = l \/ th'[t].pc = "idle",
         RowFrame(l) \/ UNCHANGED loop, RoundFrame(l) \/ UNCHANGED rounds,
         RunFrame(t[1], l) \/ UNCHANGED <<sdlc, stray>>, ReviewFrame(t[1], l) \/ UNCHANGED review
  PROVE  Frame(t, l)
  BY DEF Frame, RowFrame, RoundFrame, RunFrame, ReviewFrame

(* The call.                                                                 *)
LEMMA ReturnCall ==
  ASSUME IInv, NEW t \in Threads, Return(t)
  PROVE  Others(t) /\ th'[t].pc = "idle" /\ Plain(th'[t])
<1>1. th \in [Threads -> Thread] /\ Idle.pc = "idle" /\ Idle.job = "none"
  BY Calls DEF Idle
<1>2. th'[t] = Idle /\ Others(t)
  BY <1>1 DEF Return, Others
<1> QED  BY <1>1, <1>2, IdleOK DEF Plain

LEMMA GotoCall ==
  ASSUME IInv, NEW t \in Threads, NEW pc \in PCs \ {"claimed", "orphan", "resume", "retry", "reenter"},
         Plain(th[t]), Goto(t, pc)
  PROVE  /\ Others(t) /\ th'[t].on = th[t].on /\ th'[t].pc = pc
         /\ th'[t].job = th[t].job /\ th'[t].row = th[t].row /\ Plain(th'[t])
<1>1. th \in [Threads -> Thread] /\ th[t] \in Thread
  BY Calls
<1>2. Others(t)
  BY <1>1 DEF Goto, Others
<1>3. th'[t].on = th[t].on /\ th'[t].pc = pc /\ th'[t].job = th[t].job /\ th'[t].row = th[t].row
  BY <1>1 DEF Goto, Thread
<1> QED  BY <1>2, <1>3 DEF Plain

LEMMA RunCall ==
  ASSUME IInv, NEW t \in Threads, NEW pc \in {"effect", "touch"}, NEW job, job # "relaunch",
         PlainRow(loop'[th[t].on]), Run(t, pc, job)
  PROVE  /\ Others(t) /\ th'[t].on = th[t].on /\ th'[t].pc = pc
         /\ th'[t].job = job /\ th'[t].row = loop'[th[t].on] /\ Plain(th'[t])
<1>1. th \in [Threads -> Thread] /\ th[t] \in Thread
  BY Calls
<1>2. Others(t)
  BY <1>1 DEF Run, Others
<1>3. th'[t].on = th[t].on /\ th'[t].pc = pc /\ th'[t].job = job /\ th'[t].row = loop'[th[t].on]
  BY <1>1 DEF Run, Thread
<1> QED  BY <1>2, <1>3 DEF Plain, PlainRow

LEMMA OpenCall ==
  ASSUME IInv, ByRunner, NEW t \in Threads, NEW op, NEW l \in Loops,
         NEW pc \in PCs \ {"claimed", "orphan", "resume", "retry", "reenter"}, Call(t, op, l, pc)
  PROVE  Others(t) /\ th'[t].on = l /\ th'[t].pc = pc /\ Plain(th'[t])
<1> DEFINE call == [Idle EXCEPT !.pc = pc, !.op = op, !.on = l, !.row = loop[l]]
<1>1. th' = [th EXCEPT ![t] = call] /\ th \in [Threads -> Thread]
  BY Calls DEF Call
<1>2. call.pc = pc /\ call.on = l /\ call.row = loop[l] /\ call.job = "none"
  BY DEF Idle
<1> HIDE DEF call
<1>3. Others(t) /\ th'[t] = call
  BY <1>1 DEF Others
<1> QED  BY <1>2, <1>3 DEF Plain, ByRunner, PlainRow

(* The row.                                                                  *)
LEMMA SwapRow ==
  ASSUME IInv, NEW l \in Loops, PlainRow(loop[l]), NEW on, NEW to \in RowStates \ {"none"},
         NEW res \in CoderResults \union {"none"}, Cas(l, on, to, res)
  PROVE  RowFrame(l) /\ loop'[l].state = to /\ Lands(l) /\ PlainRow(loop'[l])
<1>1. loop[l] \in Row /\ loop \in [Loops -> Row]
  BY DEF IInv, TypeOK, LoopsOK
<1>2. loop'[l] = Moved(loop[l], on, to, res) /\ RowFrame(l)
  BY <1>1 DEF Cas, RowFrame
<1>3. LET new == Moved(loop[l], on, to, res)
      IN  new.state = to /\ new.iter = loop[l].iter /\ new.round = loop[l].round
  BY <1>1, MovedOK
<1>4. Moved(loop[l], on, to, res).old = FALSE
  BY <1>1 DEF Moved, Row
<1> QED  BY <1>2, <1>3, <1>4 DEF Lands, PlainRow

LEMMA FreshRow ==
  ASSUME IInv, NEW l \in Loops, PlainRow(loop[l]), loop' = [loop EXCEPT ![l].old = FALSE]
  PROVE  /\ RowFrame(l) /\ loop'[l].state = loop[l].state /\ Lands(l) /\ KeepsRow(l) /\ PlainRow(loop'[l])
<1>1. loop[l] \in Row /\ loop \in [Loops -> Row]
  BY DEF IInv, TypeOK, LoopsOK
<1>2. loop'[l] = [loop[l] EXCEPT !.old = FALSE] /\ RowFrame(l)
  BY <1>1 DEF RowFrame
<1> QED  BY <1>1, <1>2 DEF Lands, KeepsRow, PlainRow, Row

(* The recorded rounds and the runs.                                         *)
LEMMA AuditRound ==
  ASSUME IInv, NEW l \in Loops, NEW r, NEW v, Audit(l, r, v)
  PROVE  RoundFrame(l) /\ AddsRound(l, r)
<1>1. \/ UNCHANGED rounds
      \/ rounds' = [rounds EXCEPT ![l] = rounds[l] \union {[round |-> r, verdict |-> v]}]
  BY DEF Audit, RecordRound
<1>2. rounds \in [Loops -> SUBSET [round : Nat, verdict : VerdictOrNone]]
  BY DEF IInv, TypeOK, RoundsOK
<1> QED  BY <1>1, <1>2 DEF RoundFrame, AddsRound

LEMMA SetRuns ==
  ASSUME IInv, NEW i \in Instances, NEW l \in Loops, NEW run, SetCoder(i, l, run)
  PROVE  RunFrame(i, l)
<1>1. /\ sdlc \in [Instances -> [Loops -> CoderRun]]
      /\ stray \in [Instances -> [Loops -> [BOOLEAN -> Nat]]]
  BY DEF IInv, TypeOK, RegistryOK
<1>2. sdlc' = [sdlc EXCEPT ![i][l] = run]
  BY DEF SetCoder
<1>3. \/ UNCHANGED stray
      \/ \E x : stray' = [stray EXCEPT ![i][l] = x]
  <2>1. CASE Live(sdlc[i][l])
    <3>1. stray' = [stray EXCEPT ![i][l][sdlc[i][l].via] = stray[i][l][sdlc[i][l].via] + 1]
      BY <1>1, <2>1 DEF SetCoder, CoderRun
    <3> DEFINE x == [stray[i][l] EXCEPT ![sdlc[i][l].via] = stray[i][l][sdlc[i][l].via] + 1]
    <3>2. stray' = [stray EXCEPT ![i][l] = x]
      BY <1>1, <3>1
    <3> QED  BY <3>2
  <2> QED  BY <2>1 DEF SetCoder
<1> QED  BY <1>1, <1>2, <1>3 DEF RunFrame

LEMMA SetReview ==
  ASSUME IInv, NEW i \in Instances, NEW l \in Loops, NEW run, review' = [review EXCEPT ![i][l] = run]
  PROVE  ReviewFrame(i, l) /\ review'[i][l] = run
  BY DEF IInv, TypeOK, RegistryOK, ReviewFrame

(* The side effect of the winner.                                            *)
LEMMA JobOf ==
  ASSUME NEW t, NEW on, NEW to, NextJob(t, on, to)
  PROVE  /\ to = "reviewing" => Run(t, "effect", "review")
         /\ to = "developing" => Run(t, "effect", "handoff")
         /\ to \notin {"reviewing", "developing"} =>
              /\ th[t].row.state = "reviewing" /\ RunnerMode => Run(t, "effect", "settled")
              /\ th[t].row.state # "reviewing" /\ on = "decided" => Run(t, "effect", "audit")
              /\ th[t].row.state # "reviewing" /\ on # "decided" => Run(t, "touch", "none") \/ Return(t)
<1>1. to = "reviewing" => Run(t, "effect", "review")
  BY DEF NextJob
<1>2. to = "developing" => Run(t, "effect", "handoff")
  BY DEF NextJob
<1>3. to \notin {"reviewing", "developing"} =>
              /\ th[t].row.state = "reviewing" /\ RunnerMode => Run(t, "effect", "settled")
  BY DEF NextJob
<1>4. to \notin {"reviewing", "developing"} =>
              /\ th[t].row.state # "reviewing" /\ on = "decided" => Run(t, "effect", "audit")
  BY DEF NextJob
<1>5. to \notin {"reviewing", "developing"} =>
              /\ th[t].row.state # "reviewing" /\ on # "decided" => Run(t, "touch", "none") \/ Return(t)
  BY DEF NextJob
<1> QED  BY <1>1, <1>2, <1>3, <1>4, <1>5

(* A call that returns, or goes on, and leaves the row alone.                *)
LEMMA KeepsFits ==
  ASSUME IInv, ByRunner, NEW t \in Threads, Light(th[t]), UNCHANGED <<rounds, registry>>,
         UNCHANGED loop \/ loop' = [loop EXCEPT ![th[t].on].old = FALSE],
         Return(t) \/ \E pc \in {"touch", "aborted"} : Goto(t, pc)
  PROVE  Fits(t, th[t].on)
<1> DEFINE l == th[t].on
<1>1. l \in Loops /\ PlainRow(loop[l]) /\ Plain(th[t])
  BY OwnRow DEF ByRunner
<1>2. (RowFrame(l) \/ UNCHANGED loop) /\ KeepsRow(l) /\ PlainRow(loop'[l])
  <2>1. CASE UNCHANGED loop
    BY <1>1, <2>1 DEF KeepsRow, PlainRow
  <2>2. CASE loop' = [loop EXCEPT ![l].old = FALSE]
    <3> HIDE DEF l
    <3> QED  BY <1>1, <2>2, FreshRow
  <2> QED  BY <2>1, <2>2
<1>3. Others(t) /\ (th'[t].on = l \/ th'[t].pc = "idle") /\ Off(th'[t]) /\ Plain(th'[t])
  <2>1. CASE Return(t)
    BY <2>1, ReturnCall DEF Off
  <2>2. ASSUME NEW pc \in {"touch", "aborted"}, Goto(t, pc)
        PROVE  Others(t) /\ th'[t].on = l /\ Off(th'[t]) /\ Plain(th'[t])
    <3>1. pc \in PCs \ {"claimed", "orphan", "resume", "retry", "reenter"}
      BY <2>2 DEF PCs
    <3>2. /\ Others(t) /\ th'[t].on = th[t].on /\ th'[t].pc = pc /\ Plain(th'[t])
      BY <1>1, <2>2, <3>1, GotoCall
    <3> QED  BY <3>2 DEF Off
  <2> QED  BY <2>1, <2>2
<1>4. Frame(t, l)
  <2> HIDE DEF l
  <2>1. th[t].on = l
    BY DEF l
  <2> QED  BY <1>2, <1>3, <2>1, Framed DEF registry
<1>5. Leaves(t, l)
  <2>1. UNCHANGED <<review, rounds, sdlc, stray>>
    BY DEF registry
  <2> QED  BY <1>2, <1>3, <1>4, <2>1 DEF Leaves, Drops, SameRuns
<1> QED  BY <1>2, <1>3, <1>5 DEF Fits, WorkStep

(* A won claim with its side effect.                                         *)
LEMMA WinsFits ==
  ASSUME IInv, ByRunner, NEW t \in Threads, NEW l \in Loops, th[t].on = l, Light(th[t]),
         UNCHANGED <<rounds, registry>>, RowFrame(l), Lands(l), PlainRow(loop'[l]),
         \/ loop[l].state = "building_context" /\ loop'[l].state = "reviewing"
         \/ /\ loop[l].state \in {"deciding", "stopped_cap", "converged", "escalated"}
            /\ loop'[l].state = "developing"
         \/ /\ loop[l].state \in {"reviewing", "developing"} /\ loop[l].old
            /\ loop'[l].state = loop[l].state,
         Others(t), th'[t].on = l, th'[t].pc = "effect", th'[t].row = loop'[l], Plain(th'[t]),
         th'[t].job = IF loop'[l].state = "reviewing" THEN "review" ELSE "handoff"
  PROVE  Fits(t, l)
<1>1. Frame(t, l)
  BY Framed DEF registry
<1>2. Wins(t, l)
  BY <1>1 DEF Wins
<1> QED  BY <1>2 DEF Fits, WorkStep

LEMMA RedriveFits ==
  ASSUME IInv, ByRunner, NEW t \in Threads, Redrive(t)
  PROVE  Fits(t, th[t].on)
<1> DEFINE l == th[t].on  row == th[t].row
<1>1. l \in Loops /\ PlainRow(loop[l]) /\ At(t, "tick") /\ Light(th[t]) /\ UNCHANGED <<rounds, registry>>
  BY OwnRow DEF ByRunner, Redrive, At, Light, Settles
<1>2. CASE Return(t)
  <2>1. UNCHANGED loop \/ loop' = [loop EXCEPT ![l].old = FALSE]
    BY DEF Redrive
  <2> QED  BY <1>1, <1>2, <2>1, KeepsFits
<1>3. CASE ~Return(t)
  <2>1. /\ loop[l].state = row.state /\ loop[l].old /\ row.state \in {"reviewing", "developing"}
        /\ loop' = [loop EXCEPT ![l].old = FALSE]
        /\ IF row.state = "reviewing" THEN Run(t, "effect", "review") ELSE Run(t, "effect", "handoff")
    BY <1>3 DEF Redrive, Stranded, ClaimsRedrive
  <2>2. RowFrame(l) /\ loop'[l].state = loop[l].state /\ Lands(l) /\ PlainRow(loop'[l])
    <3> HIDE DEF l
    <3> QED  BY <1>1, <2>1, FreshRow
  <2>3. ASSUME NEW job \in {"review", "handoff"}, Run(t, "effect", job)
        PROVE  /\ Others(t) /\ th'[t].on = l /\ th'[t].pc = "effect" /\ th'[t].job = job
               /\ th'[t].row = loop'[l] /\ Plain(th'[t])
    BY <2>2, <2>3, RunCall
  <2>4. /\ Others(t) /\ th'[t].on = l /\ th'[t].pc = "effect" /\ th'[t].row = loop'[l] /\ Plain(th'[t])
        /\ th'[t].job = IF row.state = "reviewing" THEN "review" ELSE "handoff"
    BY <2>1, <2>3
  <2>5. th[t].on = l
    OBVIOUS
  <2> HIDE DEF l, row
  <2> QED  BY <1>1, <2>1, <2>2, <2>4, <2>5, WinsFits
<1> QED  BY <1>2, <1>3

LEMMA TickAdvanceFits ==
  ASSUME IInv, ByRunner, RunnerMode = TRUE, NEW t \in Threads, TickAdvance(t)
  PROVE  Fits(t, th[t].on)
<1> DEFINE l == th[t].on  row == th[t].row  i == t[1]  on == Event(i, l, row)
<1>1. /\ l \in Loops /\ PlainRow(loop[l]) /\ th[t].pc = "tick" /\ Light(th[t]) /\ UNCHANGED <<rounds, review>>
      /\ i \in Instances /\ row.iter = 0 /\ Plain(th[t])
  BY OwnRow DEF ByRunner, TickAdvance, At, Light, Settles, Plain
<1>2. PICK to \in Reduce(row.state, on, Vbm, FALSE) :
       /\ on # "decided"
       /\ IF CasWins(l, row.state)
            THEN /\ Cas(l, on, to, sdlc[i][l].res)
                 /\ IF to = "awaiting_merge" THEN DropCoder(i, l) ELSE UNCHANGED <<sdlc, stray>>
                 /\ NextJob(t, on, to)
            ELSE Return(t) /\ UNCHANGED <<loop, sdlc, stray>>
  BY DEF TickAdvance
<1>3. CASE ~CasWins(l, row.state)
  <2>1. Return(t) /\ UNCHANGED <<rounds, loop>> /\ UNCHANGED registry
    BY <1>1, <1>2, <1>3 DEF registry
  <2> QED  BY <1>1, <2>1, KeepsFits
<1>4. CASE CasWins(l, row.state)
  <2>1. /\ loop[l].state = row.state /\ Cas(l, on, to, sdlc[i][l].res) /\ NextJob(t, on, to)
        /\ IF to = "awaiting_merge" THEN DropCoder(i, l) ELSE UNCHANGED <<sdlc, stray>>
    BY <1>2, <1>4 DEF CasWins
  <2>2. \/ row.state = "pending" /\ on = "start" /\ to = "building_context"
        \/ row.state = "building_context" /\ on = "context_built" /\ to = "reviewing"
        \/ row.state = "reviewing" /\ on # "none" /\ to \in {"deciding", "failed", "throttled"}
        \/ row.state = "developing" /\ on # "none" /\ to \in {"throttled", "awaiting_merge", "building_context"}
    BY <1>2, TickEdgesOnly, EventOfTick
  <2>3. to \in RowStates \ {"none"} /\ sdlc[i][l].res \in CoderResults \union {"none"}
    <3>1. to \in RowStates \ {"none"}
      BY <2>2 DEF RowStates, LoopStates, Active, Terminal
    <3>2. sdlc[i][l].res \in CoderResults \union {"none"}
      BY <1>1 DEF IInv, TypeOK, RegistryOK, CoderRun
    <3> QED  BY <3>1, <3>2
  <2>4. RowFrame(l) /\ loop'[l].state = to /\ Lands(l) /\ PlainRow(loop'[l])
    <3> HIDE DEF l, i, on
    <3> QED  BY <1>1, <2>1, <2>3, SwapRow
  <2>5. RunFrame(i, l) \/ UNCHANGED <<sdlc, stray>>
    BY <1>1, <2>1, SetRuns DEF DropCoder
  <2>6. ASSUME Others(t), th'[t].on = l \/ th'[t].pc = "idle" PROVE Frame(t, l)
    <3>1. (RunFrame(t[1], l) \/ UNCHANGED <<sdlc, stray>>) /\ th[t].on = l
      BY <2>5
    <3> HIDE DEF l, i
    <3> QED  BY <1>1, <2>4, <2>6, <3>1, Framed
  <2>r. ASSUME NEW pc \in {"effect", "touch"}, NEW job, job # "relaunch", Run(t, pc, job)
        PROVE  /\ Others(t) /\ th'[t].on = l /\ th'[t].pc = pc /\ th'[t].job = job
               /\ th'[t].row = loop'[l] /\ Plain(th'[t])
    BY <2>4, <2>r, RunCall
  <2>7. CASE row.state = "pending" /\ on = "start" /\ to = "building_context"
    <3>1. Return(t) /\ UNCHANGED <<sdlc, stray>>
      BY <2>1, <2>7 DEF NextJob
    <3>2. Others(t) /\ th'[t].pc = "idle" /\ Plain(th'[t])
      BY <3>1, ReturnCall
    <3>3. Frame(t, l)
      BY <2>6, <3>2
    <3>4. Moves(t, l)
      BY <1>1, <2>1, <2>4, <2>7, <3>1, <3>2, <3>3 DEF Moves, Drops, SameRuns, Off, Closed
    <3> QED  BY <2>4, <3>2, <3>4 DEF Fits, WorkStep
  <2>8. CASE row.state = "building_context" /\ on = "context_built" /\ to = "reviewing"
    <3>1. Run(t, "effect", "review") /\ UNCHANGED <<sdlc, stray>>
      BY <2>1, <2>8 DEF NextJob
    <3>2. /\ Others(t) /\ th'[t].on = l /\ th'[t].pc = "effect" /\ th'[t].job = "review"
          /\ th'[t].row = loop'[l] /\ Plain(th'[t])
      BY <2>r, <3>1
    <3>3. UNCHANGED <<rounds, registry>> /\ th[t].on = l
      BY <1>1, <3>1 DEF registry
    <3> HIDE DEF l, row, i, on
    <3> QED  BY <1>1, <2>1, <2>4, <2>8, <3>2, <3>3, WinsFits
  <2>9. CASE row.state = "reviewing" /\ on # "none" /\ to \in {"deciding", "failed", "throttled"}
    <3>1. Run(t, "effect", "settled") /\ UNCHANGED <<sdlc, stray>>
      <4>1. th[t].row.state = "reviewing" /\ RunnerMode /\ to # "reviewing" /\ to # "developing"
        BY <2>9
      <4>2. NextJob(t, on, to) /\ UNCHANGED <<sdlc, stray>>
        BY <2>1, <2>9
      <4> HIDE DEF l, row, i, on
      <4> QED  BY <4>1, <4>2 DEF NextJob
    <3>2. /\ Others(t) /\ th'[t].on = l /\ th'[t].pc = "effect" /\ th'[t].job = "settled"
          /\ th'[t].row = loop'[l] /\ Plain(th'[t])
      BY <2>r, <3>1
    <3>3. OwnReview(i, l, row) /\ review[i][l].done
      <4>2. on = ReviewEvent(i, l, row)
        BY <2>9 DEF Event
      <4> QED  BY <1>1, <2>9, <4>2 DEF ReviewEvent
    <3>4. Frame(t, l) /\ UNCHANGED registry
      BY <1>1, <2>6, <3>1, <3>2 DEF registry
    <3>5. Delivers(t, l)
      BY <1>1, <2>1, <2>4, <2>9, <3>2, <3>3, <3>4 DEF Delivers, Settles
    <3> QED  BY <2>4, <3>2, <3>5 DEF Fits, WorkStep
  <2>a. CASE row.state = "developing" /\ on # "none" /\ to \in {"throttled", "awaiting_merge", "building_context"}
    <3>1. \/ Return(t)
          \/ Run(t, "touch", "none")
      BY <1>2, <2>1, <2>a DEF NextJob
    <3>2. Others(t) /\ (th'[t].on = l \/ th'[t].pc = "idle") /\ Off(th'[t]) /\ Plain(th'[t])
      <4>1. CASE Return(t)
        BY <4>1, ReturnCall DEF Off
      <4>2. CASE Run(t, "touch", "none")
        BY <2>r, <4>2 DEF Off
      <4> QED  BY <3>1, <4>1, <4>2
    <3>3. OwnCoder(i, l, row) /\ sdlc[i][l].done
      <4>2. on = DevEvent(i, l, row)
        BY <2>a DEF Event
      <4> QED  BY <2>a, <4>2 DEF DevEvent
    <3>4. Frame(t, l)
      BY <2>6, <3>2
    <3>5. Ends(t, l)
      BY <1>1, <2>1, <2>4, <2>a, <3>2, <3>3, <3>4 DEF Ends, SameRuns
    <3> QED  BY <2>4, <3>2, <3>5 DEF Fits, WorkStep
  <2> QED  BY <2>2, <2>7, <2>8, <2>9, <2>a
<1> QED  BY <1>3, <1>4

LEMMA TickDecideFits ==
  ASSUME IInv, ByRunner, NEW t \in Threads, TickDecide(t)
  PROVE  Fits(t, th[t].on)
<1> DEFINE l == th[t].on  row == th[t].row  i == t[1]  to == DecideTo(l, row)
<1>1. /\ l \in Loops /\ PlainRow(loop[l]) /\ th[t].pc = "tick" /\ Light(th[t]) /\ UNCHANGED review
      /\ i \in Instances /\ Plain(th[t])
  BY OwnRow DEF ByRunner, TickDecide, At, Light, Settles
<1>2. row.state = "deciding"
  <2>1. Event(i, l, row) = "decided"
    BY DEF TickDecide
  <2>2. ReviewEvent(i, l, row) # "decided" /\ DevEvent(i, l, row) # "decided"
    BY DEF ReviewEvent, DevEvent
  <2> QED  BY <2>1, <2>2 DEF Event
<1>3. CASE RestsAtGate(l, to)
  <2>1. Audit(l, row.round, Resolve(l, row)) /\ Return(t) /\ UNCHANGED <<loop, sdlc, stray>>
    BY <1>3 DEF TickDecide
  <2>2. RoundFrame(l) /\ AddsRound(l, row.round)
    BY <1>1, <2>1, AuditRound
  <2>3. Others(t) /\ th'[t].pc = "idle" /\ Plain(th'[t])
    BY <2>1, ReturnCall
  <2>4. Frame(t, l)
    <3>1. th[t].on = l
      OBVIOUS
    <3> HIDE DEF l
    <3> QED  BY <1>1, <2>1, <2>2, <2>3, <3>1, Framed
  <2>5. Audits(t, l)
    BY <1>1, <1>2, <2>1, <2>2, <2>3, <2>4 DEF Audits, Off, registry
  <2> QED  BY <1>1, <2>1, <2>3, <2>5 DEF Fits, WorkStep, PlainRow
<1>4. CASE ~RestsAtGate(l, to) /\ ~CasWins(l, "deciding")
  <2>1. Return(t) /\ UNCHANGED <<rounds, loop>> /\ UNCHANGED registry
    BY <1>4 DEF TickDecide, registry
  <2> QED  BY <1>1, <2>1, KeepsFits
<1>5. CASE ~RestsAtGate(l, to) /\ CasWins(l, "deciding")
  <2>1. /\ loop[l].state = "deciding" /\ Cas(l, "decided", to, "none") /\ NextJob(t, "decided", to)
        /\ IF to = "awaiting_merge" THEN DropCoder(i, l) ELSE UNCHANGED <<sdlc, stray>>
        /\ UNCHANGED rounds
    BY <1>5 DEF TickDecide, CasWins
  <2>2. to \in {"converged", "escalated", "developing", "stopped_cap", "awaiting_merge"}
    BY DEF DecideTo, Decide
  <2>3. to \in RowStates \ {"none"}
    BY <2>2 DEF RowStates, LoopStates, Active, Terminal
  <2>4. RowFrame(l) /\ loop'[l].state = to /\ Lands(l) /\ PlainRow(loop'[l])
    <3> HIDE DEF l, to
    <3> QED  BY <1>1, <2>1, <2>3, SwapRow
  <2>r. ASSUME NEW job, job # "relaunch", Run(t, "effect", job)
        PROVE  /\ Others(t) /\ th'[t].on = l /\ th'[t].pc = "effect" /\ th'[t].job = job
               /\ th'[t].row = loop'[l] /\ Plain(th'[t])
    BY <2>4, <2>r, RunCall
  <2>5. CASE to = "developing"
    <3>1. Run(t, "effect", "handoff") /\ UNCHANGED <<rounds, registry>> /\ th[t].on = l
      <4>1. NextJob(t, "decided", to) /\ UNCHANGED <<rounds, registry>>
        BY <1>1, <2>1, <2>5 DEF registry
      <4> HIDE DEF to
      <4> QED  BY <2>5, <4>1 DEF NextJob
    <3>2. /\ Others(t) /\ th'[t].on = l /\ th'[t].pc = "effect" /\ th'[t].job = "handoff"
          /\ th'[t].row = loop'[l] /\ Plain(th'[t])
      BY <2>r, <3>1
    <3> HIDE DEF l, row, i, to
    <3> QED  BY <1>1, <2>1, <2>4, <2>5, <3>1, <3>2, WinsFits
  <2>6. CASE to # "developing"
    <3>1. Run(t, "effect", "audit")
      BY <1>2, <2>1, <2>2, <2>6 DEF NextJob
    <3>2. /\ Others(t) /\ th'[t].on = l /\ th'[t].pc = "effect" /\ th'[t].job = "audit"
          /\ th'[t].row = loop'[l] /\ Plain(th'[t])
      BY <2>r, <3>1
    <3>3. RunFrame(i, l) \/ UNCHANGED <<sdlc, stray>>
      BY <1>1, <2>1, SetRuns DEF DropCoder
    <3>4. Frame(t, l)
      <4>1. (RunFrame(t[1], l) \/ UNCHANGED <<sdlc, stray>>) /\ th[t].on = l
        BY <3>3
      <4> HIDE DEF l, i
      <4> QED  BY <1>1, <2>1, <2>4, <3>2, <4>1, Framed
    <3>5. Moves(t, l)
      BY <1>1, <2>1, <2>2, <2>4, <2>6, <3>2, <3>4 DEF Moves, Drops, SameRuns, Closed
    <3> QED  BY <2>4, <3>2, <3>5 DEF Fits, WorkStep
  <2> QED  BY <2>5, <2>6
<1> QED  BY <1>3, <1>4, <1>5
(* The side effects.                                                         *)
LEMMA StartReviewRoundFits ==
  ASSUME IInv, ByRunner, RunnerMode = TRUE, NEW t \in Threads, StartReviewRound(t)
  PROVE  Fits(t, th[t].on)
<1> DEFINE l == th[t].on  i == t[1]
<1>1. /\ l \in Loops /\ PlainRow(loop[l]) /\ Light(th[t]) /\ Plain(th[t]) /\ i \in Instances
      /\ th[t].pc = "effect" /\ th[t].job = "review" /\ UNCHANGED <<rounds, sdlc, stray>>
  BY OwnRow DEF ByRunner, StartReviewRound, At, Light, Settles, Plain
<1>2. CASE UnresolvedRef(t)
  <2>1. Return(t) /\ UNCHANGED review /\ (Cas(l, "review_failed", "failed", "none") \/ UNCHANGED loop)
    BY <1>2 DEF UnresolvedRef
  <2>2. CASE UNCHANGED loop
    BY <1>1, <2>1, <2>2, KeepsFits DEF registry
  <2>3. CASE Cas(l, "review_failed", "failed", "none")
    <3>1. "failed" \in RowStates \ {"none"} /\ "none" \in CoderResults \union {"none"}
      BY DEF RowStates, LoopStates, Terminal
    <3>2. RowFrame(l) /\ loop'[l].state = "failed" /\ Lands(l) /\ PlainRow(loop'[l])
      <4> HIDE DEF l
      <4> QED  BY <1>1, <2>3, <3>1, SwapRow
    <3>3. Others(t) /\ th'[t].pc = "idle" /\ Plain(th'[t])
      BY <2>1, ReturnCall
    <3>4. Frame(t, l)
      <4>1. th[t].on = l
        OBVIOUS
      <4> HIDE DEF l
      <4> QED  BY <1>1, <2>1, <3>2, <3>3, <4>1, Framed
    <3>5. Leaves(t, l)
      BY <1>1, <2>1, <3>2, <3>3, <3>4 DEF Leaves, Off, Closed, Drops, SameRuns
    <3> QED  BY <3>2, <3>3, <3>5 DEF Fits, WorkStep
  <2> QED  BY <2>1, <2>2, <2>3
<1>3. CASE DispatchReview(t)
  <2>1. /\ review' = [review EXCEPT ![i][l] = [NoReview EXCEPT !.round = NextRound(t)]]
        /\ Dispatched(t, 0) /\ UNCHANGED loop
    BY <1>3 DEF DispatchReview
  <2>2. NextRound(t) = th[t].row.round + 1
    BY <1>1 DEF NextRound
  <2>3. ReviewFrame(i, l) /\ review'[i][l].round = th[t].row.round + 1
    <3> DEFINE run == [NoReview EXCEPT !.round = NextRound(t)]
    <3>1. run.round = NextRound(t) /\ review' = [review EXCEPT ![i][l] = run]
      BY <2>1 DEF NoReview
    <3> HIDE DEF run, l, i
    <3>2. ReviewFrame(i, l) /\ review'[i][l] = run
      BY <1>1, <3>1, SetReview
    <3> QED  BY <2>2, <3>1, <3>2
  <2>4. /\ Others(t) /\ th'[t].on = l /\ th'[t].pc = "write" /\ th'[t].job = th[t].job
        /\ th'[t].row.round = th[t].row.round + 1 /\ th'[t].row.iter = 0
    <3> DEFINE row == [th[t].row EXCEPT !.round = NextRound(t), !.iter = 0,
                         !.redrives = IF th[t].job = "relaunch" THEN th[t].row.redrives ELSE 0]
    <3>1. th' = [th EXCEPT ![t] = [th[t] EXCEPT !.pc = "write", !.row = row]]
      BY <2>1 DEF Dispatched
    <3>2. th \in [Threads -> Thread] /\ th[t] \in Thread /\ th[t].row \in Row
      BY Calls, OwnRow
    <3>3. row.round = NextRound(t) /\ row.iter = 0
      BY <3>2 DEF Row
    <3> HIDE DEF row
    <3>4. Others(t)
      BY <3>1, <3>2 DEF Others
    <3>5. th'[t].on = l /\ th'[t].pc = "write" /\ th'[t].job = th[t].job /\ th'[t].row = row
      BY <3>1, <3>2 DEF Thread
    <3> QED  BY <2>2, <3>3, <3>4, <3>5
  <2>5. Frame(t, l)
    <3>1. th[t].on = l /\ (ReviewFrame(t[1], l) \/ UNCHANGED review)
      BY <2>3
    <3> HIDE DEF l, i
    <3> QED  BY <1>1, <2>1, <2>4, <3>1, Framed
  <2>6. Dispatches(t, l)
    BY <1>1, <2>1, <2>3, <2>4, <2>5 DEF Dispatches, SameRuns
  <2> QED  BY <1>1, <2>1, <2>4, <2>6 DEF Fits, WorkStep, Plain, PlainRow
<1>4. CASE StartIteration(t)
  BY <1>4 DEF StartIteration
<1> QED  BY <1>2, <1>3, <1>4 DEF StartReviewRound

LEMMA SettleReviewingFits ==
  ASSUME IInv, ByRunner, NEW t \in Threads, SettleReviewing(t)
  PROVE  Fits(t, th[t].on)
<1> DEFINE l == th[t].on  i == t[1]  run == review[i][l]
<1>1. /\ l \in Loops /\ PlainRow(loop[l]) /\ i \in Instances /\ th[t].pc = "effect" /\ th[t].job = "settled"
      /\ UNCHANGED <<loop, sdlc, stray>> /\ Return(t)
  BY OwnRow DEF ByRunner, SettleReviewing, At
<1>2. Others(t) /\ th'[t].pc = "idle" /\ Plain(th'[t])
  BY <1>1, ReturnCall
<1>3. (RoundFrame(l) \/ UNCHANGED rounds) /\ AddsRound(l, th[t].row.round)
  <2>1. Audit(l, th[t].row.round, run.verdict) \/ UNCHANGED rounds
    BY DEF SettleReviewing
  <2>2. CASE UNCHANGED rounds
    BY <2>2 DEF AddsRound
  <2> HIDE DEF l, run
  <2> QED  BY <1>1, <2>1, <2>2, AuditRound
<1>4. /\ ReviewFrame(i, l) \/ UNCHANGED review
      /\ OwnReview(i, l, th[t].row) /\ run.done => review'[i][l] = NoReview
  <2>1. CASE OwnReview(i, l, th[t].row) /\ run.done
    <3>1. review' = [review EXCEPT ![i][l] = NoReview]
      BY <2>1 DEF SettleReviewing, DropReview
    <3>2. ReviewFrame(i, l) /\ review'[i][l] = NoReview
      <4> HIDE DEF l, i
      <4> QED  BY <1>1, <3>1, SetReview
    <3> HIDE DEF l, i, run
    <3> QED  BY <2>1, <3>2
  <2>2. CASE ~(OwnReview(i, l, th[t].row) /\ run.done)
    BY <2>2 DEF SettleReviewing
  <2> QED  BY <2>1, <2>2
<1>5. Frame(t, l)
  <2>1. th[t].on = l /\ (ReviewFrame(t[1], l) \/ UNCHANGED review)
    BY <1>4
  <2> HIDE DEF l, i
  <2> QED  BY <1>1, <1>2, <1>3, <2>1, Framed
<1>6. Clears(t, l)
  BY <1>1, <1>2, <1>3, <1>4, <1>5 DEF Clears, Settles, Off, SameRuns
<1> QED  BY <1>1, <1>2, <1>6 DEF Fits, WorkStep, PlainRow

LEMMA AuditDecisionFits ==
  ASSUME IInv, ByRunner, NEW t \in Threads, AuditDecision(t)
  PROVE  Fits(t, th[t].on)
<1> DEFINE l == th[t].on
<1>1. /\ l \in Loops /\ PlainRow(loop[l]) /\ th[t].pc = "effect" /\ th[t].job = "audit"
      /\ UNCHANGED loop /\ UNCHANGED registry /\ Return(t)
      /\ Audit(l, th[t].row.round, Resolve(l, th[t].row))
  BY OwnRow DEF ByRunner, AuditDecision, At
<1>2. Others(t) /\ th'[t].pc = "idle" /\ Plain(th'[t])
  BY <1>1, ReturnCall
<1>3. RoundFrame(l) /\ AddsRound(l, th[t].row.round)
  BY <1>1, AuditRound
<1>4. Frame(t, l)
  <2>1. th[t].on = l
    OBVIOUS
  <2> HIDE DEF l
  <2> QED  BY <1>1, <1>2, <1>3, <2>1, Framed DEF registry
<1>5. Audits(t, l)
  BY <1>1, <1>2, <1>3, <1>4 DEF Audits, Off
<1> QED  BY <1>1, <1>2, <1>5 DEF Fits, WorkStep, PlainRow

LEMMA StartDevHandoffFits ==
  ASSUME IInv, ByRunner, NEW t \in Threads, StartDevHandoff(t)
  PROVE  Fits(t, th[t].on)
<1> DEFINE l == th[t].on
<1>1. /\ l \in Loops /\ PlainRow(loop[l]) /\ Plain(th[t]) /\ th[t].pc = "effect" /\ th[t].job = "handoff"
      /\ UNCHANGED loop /\ UNCHANGED registry /\ Goto(t, "plan")
      /\ Audit(l, th[t].row.round, Unconverged(Resolve(l, th[t].row)))
  BY OwnRow DEF ByRunner, StartDevHandoff, At
<1>2. Others(t) /\ th'[t].on = l /\ th'[t].pc = "plan" /\ th'[t].row = th[t].row /\ Plain(th'[t])
  <2>1. "plan" \in PCs \ {"claimed", "orphan", "resume", "retry", "reenter"}
    BY DEF PCs
  <2> QED  BY <1>1, <2>1, GotoCall
<1>3. RoundFrame(l) /\ AddsRound(l, th[t].row.round)
  BY <1>1, AuditRound
<1>4. Frame(t, l)
  <2>1. th[t].on = l
    OBVIOUS
  <2> HIDE DEF l
  <2> QED  BY <1>1, <1>2, <1>3, <2>1, Framed DEF registry
<1>5. HandsOver(t, l)
  BY <1>1, <1>2, <1>3, <1>4 DEF HandsOver
<1> QED  BY <1>1, <1>2, <1>5 DEF Fits, WorkStep, PlainRow

LEMMA DispatchSdlcFits ==
  ASSUME IInv, ByRunner, NEW t \in Threads, DispatchSdlc(t)
  PROVE  Fits(t, th[t].on)
<1> DEFINE l == th[t].on  i == t[1]
           run == [NoCoder EXCEPT !.round = th[t].row.round, !.via = th[t].op # "tick"]
<1>1. /\ l \in Loops /\ PlainRow(loop[l]) /\ Plain(th[t]) /\ i \in Instances /\ th[t].pc = "plan"
      /\ UNCHANGED <<loop, rounds, review>> /\ Goto(t, "touch") /\ SetCoder(i, l, run)
  BY OwnRow DEF ByRunner, DispatchSdlc, At, RegisterCoder, db
<1>2. Others(t) /\ th'[t].on = l /\ th'[t].pc = "touch" /\ Plain(th'[t])
  <2>1. "touch" \in PCs \ {"claimed", "orphan", "resume", "retry", "reenter"}
    BY DEF PCs
  <2> QED  BY <1>1, <2>1, GotoCall
<1>3. run.round = th[t].row.round
  BY DEF NoCoder
<1> HIDE DEF run
<1>4. RunFrame(i, l) /\ sdlc'[i][l] = run
  BY <1>1, SetRuns, CoderSet
<1>5. Frame(t, l)
  <2>1. th[t].on = l /\ (RunFrame(t[1], l) \/ UNCHANGED <<sdlc, stray>>)
    BY <1>4
  <2> HIDE DEF l, i
  <2> QED  BY <1>1, <1>2, <2>1, Framed
<1>6. Registers(t, l)
  BY <1>1, <1>2, <1>3, <1>4, <1>5 DEF Registers, Off
<1> QED  BY <1>1, <1>2, <1>6 DEF Fits, WorkStep, PlainRow

LEMMA WriteRoundFits ==
  ASSUME IInv, ByRunner, NEW t \in Threads, WriteRound(t)
  PROVE  Fits(t, th[t].on)
<1> DEFINE l == th[t].on  row == th[t].row
           new == [loop[l] EXCEPT !.round = row.round, !.iter = row.iter,
                                  !.redrives = row.redrives, !.old = FALSE]
<1>1. /\ l \in Loops /\ PlainRow(loop[l]) /\ row.iter = 0 /\ th[t].pc = "write"
      /\ UNCHANGED <<rounds, registry>> /\ Return(t) /\ loop' = [loop EXCEPT ![l] = new]
  BY OwnRow DEF ByRunner, Plain, WriteRound, At
<1>2. Others(t) /\ th'[t].pc = "idle" /\ Plain(th'[t])
  BY <1>1, ReturnCall
<1>3. loop[l] \in Row /\ loop \in [Loops -> Row]
  BY <1>1 DEF IInv, TypeOK, LoopsOK
<1>4. new.state = loop[l].state /\ new.round = row.round /\ new.iter = row.iter /\ ~new.old
  BY <1>3 DEF Row
<1> HIDE DEF new
<1>5. loop'[l] = new /\ RowFrame(l)
  BY <1>1, <1>3 DEF RowFrame
<1>6. Frame(t, l)
  <2>1. th[t].on = l
    OBVIOUS
  <2> HIDE DEF l
  <2> QED  BY <1>1, <1>2, <1>5, <2>1, Framed DEF registry
<1>7. Writes(t, l)
  BY <1>1, <1>2, <1>4, <1>5, <1>6 DEF Writes, Off
<1> QED  BY <1>1, <1>2, <1>4, <1>5, <1>7 DEF Fits, WorkStep, PlainRow

(* The commands.                                                             *)
LEMMA DevelopFits ==
  ASSUME IInv, ByRunner, NEW t \in Threads, Develop(t)
  PROVE  Fits(t, th[t].on)
<1> DEFINE l == th[t].on
<1>1. /\ l \in Loops /\ PlainRow(loop[l]) /\ Light(th[t]) /\ UNCHANGED <<rounds, registry>>
      /\ th[t].row.state \in {"deciding", "stopped_cap", "converged", "escalated"} /\ th[t].row.iter = 0
      /\ ClaimDevelop(t, "develop_requested")
  BY OwnRow DEF ByRunner, Plain, Develop, At, Light, Settles, CallOK, DevelopPromotable
<1>2. CASE Return(t) /\ UNCHANGED loop
  BY <1>1, <1>2, KeepsFits
<1>3. CASE ~(Return(t) /\ UNCHANGED loop)
  <2>1. /\ loop[l].state = th[t].row.state /\ Cas(l, "develop_requested", "developing", "none")
        /\ th' = [th EXCEPT ![t] = [th[t] EXCEPT !.pc = "effect", !.job = "handoff", !.row = loop'[l],
                                             !.held = TRUE, !.slot = TRUE]]
    BY <1>1, <1>3 DEF ClaimDevelop, CasWins
  <2>2. "developing" \in RowStates \ {"none"} /\ "none" \in CoderResults \union {"none"}
    BY DEF RowStates, LoopStates, Active
  <2>3. RowFrame(l) /\ loop'[l].state = "developing" /\ Lands(l) /\ PlainRow(loop'[l])
    <3> HIDE DEF l
    <3> QED  BY <1>1, <2>1, <2>2, SwapRow
  <2>4. th \in [Threads -> Thread] /\ th[t] \in Thread
    BY Calls
  <2>5. Others(t)
    BY <2>1, <2>4 DEF Others
  <2>6. th'[t].on = l /\ th'[t].pc = "effect" /\ th'[t].job = "handoff" /\ th'[t].row = loop'[l]
    BY <2>1, <2>4 DEF Thread
  <2>7. Plain(th'[t])
    BY <2>3, <2>6 DEF Plain, PlainRow
  <2>8. th[t].on = l
    OBVIOUS
  <2> HIDE DEF l
  <2> QED  BY <1>1, <2>1, <2>3, <2>5, <2>6, <2>7, <2>8, WinsFits
<1> QED  BY <1>2, <1>3

(* A row nobody works for moves on by a command.                             *)
LEMMA MovesFits ==
  ASSUME IInv, ByRunner, NEW t \in Threads, NEW l \in Loops, th[t].on = l, Light(th[t]),
         UNCHANGED <<rounds, registry>>, RowFrame(l), Lands(l), PlainRow(loop'[l]),
         loop[l].state \in {"none", "pending", "deciding", "awaiting_merge"},
         loop'[l].state \notin {"reviewing", "developing"} \union Closed,
         Others(t), th'[t].on = l \/ th'[t].pc = "idle", Off(th'[t]), Plain(th'[t])
  PROVE  Fits(t, l)
<1>1. Frame(t, l)
  BY Framed DEF registry
<1>2. Moves(t, l)
  BY <1>1 DEF Moves, Drops, SameRuns, registry
<1> QED  BY <1>2 DEF Fits, WorkStep

LEMMA CreateInsertFits ==
  ASSUME IInv, ByRunner, NEW t \in Threads, CreateInsert(t)
  PROVE  Fits(t, th[t].on)
<1> DEFINE l == th[t].on
<1>1. /\ l \in Loops /\ PlainRow(loop[l]) /\ Light(th[t]) /\ UNCHANGED <<rounds, registry>> /\ Return(t)
      /\ loop[l] \in Row /\ loop \in [Loops -> Row]
  BY OwnRow DEF ByRunner, CreateInsert, At, Light, Settles, IInv, TypeOK, LoopsOK
<1>2. CASE UNCHANGED loop
  BY <1>1, <1>2, KeepsFits
<1>3. CASE ~UNCHANGED loop
  <2>1. loop[l].state = "none" /\ loop' = [loop EXCEPT ![l].state = "pending"]
    BY <1>3 DEF CreateInsert
  <2>2. /\ RowFrame(l) /\ loop'[l].state = "pending" /\ loop'[l].round = loop[l].round
        /\ loop'[l].iter = loop[l].iter /\ loop'[l].old = loop[l].old
    <3> HIDE DEF l
    <3> QED  BY <1>1, <2>1 DEF RowFrame, Row
  <2>3. Lands(l) /\ PlainRow(loop'[l])
    BY <1>1, <2>1, <2>2 DEF Lands, PlainRow
  <2>4. Others(t) /\ th'[t].pc = "idle" /\ Plain(th'[t])
    BY <1>1, ReturnCall
  <2>5. th[t].on = l
    OBVIOUS
  <2> HIDE DEF l
  <2> QED  BY <1>1, <2>1, <2>2, <2>3, <2>4, <2>5, MovesFits DEF Off, Closed
<1> QED  BY <1>2, <1>3

LEMMA ReReviewFits ==
  ASSUME IInv, ByRunner, NEW t \in Threads, ReReview(t)
  PROVE  Fits(t, th[t].on)
<1> DEFINE l == th[t].on
<1>1. /\ l \in Loops /\ PlainRow(loop[l]) /\ Light(th[t]) /\ UNCHANGED <<rounds, registry>>
      /\ th[t].row.state = "deciding" /\ ClaimReview(t, "rereview_requested", "review")
  BY OwnRow DEF ByRunner, ReReview, At, Light, Settles, CallOK
<1>2. CASE Return(t) /\ UNCHANGED loop
  BY <1>1, <1>2, KeepsFits
<1>3. CASE ~(Return(t) /\ UNCHANGED loop)
  <2>1. /\ loop[l].state = "deciding" /\ Cas(l, "rereview_requested", "building_context", "none")
        /\ th' = [th EXCEPT ![t] = [th[t] EXCEPT !.pc = "reenter", !.job = "review",
                                                !.row = loop'[l], !.held = TRUE]]
    BY <1>1, <1>3 DEF ClaimReview, CasWins
  <2>2. "building_context" \in RowStates \ {"none"} /\ "none" \in CoderResults \union {"none"}
    BY DEF RowStates, LoopStates, Active
  <2>3. RowFrame(l) /\ loop'[l].state = "building_context" /\ Lands(l) /\ PlainRow(loop'[l])
    <3> HIDE DEF l
    <3> QED  BY <1>1, <2>1, <2>2, SwapRow
  <2>4. th \in [Threads -> Thread] /\ th[t] \in Thread
    BY Calls
  <2>5. Others(t)
    BY <2>1, <2>4 DEF Others
  <2>6. th'[t].on = l /\ th'[t].pc = "reenter" /\ th'[t].job = "review" /\ th'[t].row = loop'[l]
    BY <2>1, <2>4 DEF Thread
  <2>7. Plain(th'[t]) /\ Off(th'[t])
    BY <2>3, <2>6 DEF Plain, PlainRow, Off
  <2>8. th[t].on = l
    OBVIOUS
  <2> HIDE DEF l
  <2> QED  BY <1>1, <2>1, <2>3, <2>5, <2>6, <2>7, <2>8, MovesFits DEF Closed
<1> QED  BY <1>2, <1>3

LEMMA ReenterFits ==
  ASSUME IInv, ByRunner, NEW t \in Threads, Reenter(t)
  PROVE  Fits(t, th[t].on)
<1> DEFINE l == th[t].on
<1>1. /\ l \in Loops /\ PlainRow(loop[l]) /\ Light(th[t]) /\ UNCHANGED <<rounds, registry>>
      /\ th[t].job = "review"
  BY OwnRow DEF ByRunner, Reenter, At, Light, Settles, Plain
<1>2. CASE Return(t) /\ UNCHANGED loop
  BY <1>1, <1>2, KeepsFits
<1>3. CASE ~(Return(t) /\ UNCHANGED loop)
  <2>1. /\ loop[l].state = "building_context" /\ Cas(l, "context_built", "reviewing", "none")
        /\ Run(t, "effect", "review")
    BY <1>1, <1>3 DEF Reenter, CasWins
  <2>2. "reviewing" \in RowStates \ {"none"} /\ "none" \in CoderResults \union {"none"}
    BY DEF RowStates, LoopStates, Active
  <2>3. RowFrame(l) /\ loop'[l].state = "reviewing" /\ Lands(l) /\ PlainRow(loop'[l])
    <3> HIDE DEF l
    <3> QED  BY <1>1, <2>1, <2>2, SwapRow
  <2>4. /\ Others(t) /\ th'[t].on = l /\ th'[t].pc = "effect" /\ th'[t].job = "review"
        /\ th'[t].row = loop'[l] /\ Plain(th'[t])
    BY <2>1, <2>3, RunCall
  <2>5. th[t].on = l
    OBVIOUS
  <2> HIDE DEF l
  <2> QED  BY <1>1, <2>1, <2>3, <2>4, <2>5, WinsFits
<1> QED  BY <1>2, <1>3

LEMMA MergeFits ==
  ASSUME IInv, ByRunner, NEW t \in Threads, OnMergeApproved(t)
  PROVE  Fits(t, th[t].on)
<1> DEFINE l == th[t].on
<1>1. /\ l \in Loops /\ PlainRow(loop[l]) /\ Light(th[t]) /\ UNCHANGED <<rounds, registry>> /\ Return(t)
  BY OwnRow DEF ByRunner, OnMergeApproved, At, Light, Settles
<1>2. CASE UNCHANGED loop
  BY <1>1, <1>2, KeepsFits
<1>3. CASE ~UNCHANGED loop
  <2>1. loop[l].state = "awaiting_merge"
    BY <1>3 DEF OnMergeApproved, CasWins
  <2>2. PICK to \in Reduce("awaiting_merge", "merge_approved", Vbm, FALSE) : Cas(l, "merge_approved", to, "none")
    BY <1>3 DEF OnMergeApproved
  <2>3. to \in {"converged", "building_context"}
    <3>1. PICK e \in Edges(Vbm, FALSE) : e.from = "awaiting_merge" /\ e.on = "merge_approved" /\ e.to = to
      BY DEF Reduce
    <3>2. e \notin TickEdges(Vbm) /\ e \notin DecideEdges(Vbm)
      BY <3>1 DEF TickEdges, DecideEdges, Edge
    <3>3. e \notin CommandEdges(FALSE)
      <4>1. e \notin {Edge("deciding", "rereview_requested", "building_context"),
                     Edge("throttled", "retry_review", "building_context"),
                     Edge("throttled", "retry_develop", "developing")}
        BY <3>1 DEF Edge
      <4>2. /\ e \notin {Edge(s, "cancel", "cancelled") : s \in Active}
            /\ e \notin {Edge(s, "finish", "stopped") : s \in Active}
        BY <3>1 DEF Edge
      <4>3. e \notin {Edge(s, "develop_requested", "developing") : s \in DevelopPromotable(FALSE)}
        BY <3>1 DEF Edge, DevelopPromotable
      <4> QED  BY <4>1, <4>2, <4>3 DEF CommandEdges
    <3>4. e \in MergeEdges(Vbm)
      BY <3>2, <3>3 DEF Edges
    <3> QED  BY <3>1, <3>4 DEF MergeEdges, Edge
  <2>4. to \in RowStates \ {"none"} /\ "none" \in CoderResults \union {"none"}
    BY <2>3 DEF RowStates, LoopStates, Active, Terminal
  <2>5. RowFrame(l) /\ loop'[l].state = to /\ Lands(l) /\ PlainRow(loop'[l])
    <3> HIDE DEF l
    <3> QED  BY <1>1, <2>2, <2>4, SwapRow
  <2>6. Others(t) /\ th'[t].pc = "idle" /\ Plain(th'[t])
    BY <1>1, ReturnCall
  <2>7. th[t].on = l
    OBVIOUS
  <2> HIDE DEF l
  <2> QED  BY <1>1, <2>1, <2>3, <2>5, <2>6, <2>7, MovesFits DEF Off, Closed
<1> QED  BY <1>2, <1>3

LEMMA AbortCommitFits ==
  ASSUME IInv, ByRunner, NEW t \in Threads, AbortCommit(t)
  PROVE  Fits(t, th[t].on)
<1> DEFINE l == th[t].on  i == t[1]  from == th[t].row.state  op == th[t].op
<1>1. /\ l \in Loops /\ PlainRow(loop[l]) /\ Light(th[t]) /\ UNCHANGED <<rounds, review>> /\ Return(t)
      /\ i \in Instances /\ DropCoder(i, l) /\ op \in {"cancel", "finish"}
  BY OwnRow DEF ByRunner, AbortCommit, At, Light, Settles, CallOK
<1>2. Others(t) /\ th'[t].pc = "idle" /\ Plain(th'[t])
  BY <1>1, ReturnCall
<1>3. RunFrame(i, l)
  BY <1>1, SetRuns DEF DropCoder
<1>4. (RowFrame(l) \/ UNCHANGED loop) /\ (KeepsRow(l) \/ (Lands(l) /\ loop'[l].state \in Closed)) /\ PlainRow(loop'[l])
  <2>1. CASE UNCHANGED loop
    BY <1>1, <2>1 DEF KeepsRow, PlainRow
  <2>2. CASE ~UNCHANGED loop
    <3>1. PICK to \in Reduce(from, op, Vbm, FALSE) : Cas(l, op, to, "none")
      BY <2>2 DEF AbortCommit
    <3>2. to \in {"cancelled", "stopped"}
      <4>1. PICK e \in Edges(Vbm, FALSE) : e.from = from /\ e.on = op /\ e.to = to
        BY DEF Reduce
      <4>2. e \notin TickEdges(Vbm) /\ e \notin MergeEdges(Vbm) /\ e \notin DecideEdges(Vbm)
        BY <1>1, <4>1 DEF TickEdges, MergeEdges, DecideEdges, Edge
      <4>3. e \in CommandEdges(FALSE)
        BY <4>2 DEF Edges
      <4>4. e \notin {Edge("deciding", "rereview_requested", "building_context"),
                     Edge("throttled", "retry_review", "building_context"),
                     Edge("throttled", "retry_develop", "developing")}
        BY <1>1, <4>1 DEF Edge
      <4>5. e \notin {Edge(s, "develop_requested", "developing") : s \in DevelopPromotable(FALSE)}
        BY <1>1, <4>1 DEF Edge, DevelopPromotable
      <4>6. e \in {Edge(s, "cancel", "cancelled") : s \in Active} \union {Edge(s, "finish", "stopped") : s \in Active}
        BY <4>3, <4>4, <4>5 DEF CommandEdges
      <4> QED  BY <4>1, <4>6 DEF Edge
    <3>3. to \in RowStates \ {"none"} /\ "none" \in CoderResults \union {"none"}
      BY <3>2 DEF RowStates, LoopStates, Terminal
    <3>4. RowFrame(l) /\ loop'[l].state = to /\ Lands(l) /\ PlainRow(loop'[l])
      <4> HIDE DEF l, from, op
      <4> QED  BY <1>1, <3>1, <3>3, SwapRow
    <3> QED  BY <3>2, <3>4 DEF Closed
  <2> QED  BY <2>1, <2>2
<1>5. Frame(t, l)
  <2>1. th[t].on = l /\ RunFrame(t[1], l)
    BY <1>3
  <2> HIDE DEF l, i
  <2> QED  BY <1>1, <1>2, <1>4, <2>1, Framed
<1>6. Leaves(t, l)
  BY <1>1, <1>2, <1>4, <1>5 DEF Leaves, Off, Drops
<1> QED  BY <1>2, <1>4, <1>6 DEF Fits, WorkStep
LEMMA BeginsFits ==
  ASSUME IInv, ByRunner, NEW t \in Threads, NEW l \in Loops, Tick(t, l)
  PROVE  Fits(t, l)
<1> DEFINE call == [Idle EXCEPT !.pc = "tick", !.op = "tick", !.on = l, !.row = loop[l], !.held = TRUE]
<1>1. call.pc = "tick" /\ call.on = l /\ call.row = loop[l] /\ call.job = "none"
  BY DEF Idle
<1>2. /\ th' = [th EXCEPT ![t] = call] /\ th \in [Threads -> Thread]
      /\ th[t].pc = "idle" /\ UNCHANGED <<loop, rounds, registry>> /\ PlainRow(loop[l])
  BY Calls DEF Tick, At, db, ByRunner
<1> HIDE DEF call
<1>3. Others(t) /\ th'[t] = call
  BY <1>2 DEF Others
<1>4. Frame(t, l)
  BY <1>1, <1>2, <1>3, Framed DEF registry
<1>5. Begins(t, l)
  BY <1>1, <1>2, <1>3, <1>4 DEF Begins, Light, Settles
<1> QED  BY <1>1, <1>2, <1>3, <1>5 DEF Fits, WorkStep, Plain, PlainRow

LEMMA RequestFits ==
  ASSUME IInv, ByRunner, "retry" \notin Commands, NEW t \in Threads, NEW l \in Loops, Request(t, l)
  PROVE  Fits(t, l)
<1>1. CASE Start(t, l)
  BY <1>1, BeginsFits DEF Start
<1>2. CASE ~Start(t, l)
  <2>1. ~RetryRead(t, l)
    BY DEF RetryRead, Command
  <2>a. th[t].pc = "idle" /\ UNCHANGED <<loop, rounds>> /\ UNCHANGED registry
    BY <1>2, <2>1 DEF Request, CreateRead, DevelopRead, ReReviewRead, MergeRead, AbortRead, At, db
  <2>b. \E op, pc : Call(t, op, l, pc) /\ pc \in {"create", "develop", "rereview", "merge", "abort"}
    BY <1>2, <2>1 DEF Request, CreateRead, DevelopRead, ReReviewRead, MergeRead, AbortRead
  <2>2. PICK op, pc : /\ th[t].pc = "idle" /\ UNCHANGED <<loop, rounds, registry>> /\ Call(t, op, l, pc)
                     /\ pc \in {"create", "develop", "rereview", "merge", "abort"}
    BY <2>a, <2>b
  <2>3. pc \in PCs \ {"claimed", "orphan", "resume", "retry", "reenter"}
    BY <2>2 DEF PCs
  <2>4. Others(t) /\ th'[t].on = l /\ th'[t].pc = pc /\ Plain(th'[t])
    BY <2>2, <2>3, OpenCall
  <2>5. Frame(t, l)
    BY <2>2, <2>4, Framed DEF registry
  <2>6. Leaves(t, l)
    BY <2>2, <2>4, <2>5 DEF Leaves, Light, Settles, Off, KeepsRow, Drops, SameRuns, registry
  <2> QED  BY <2>2, <2>4, <2>6 DEF Fits, WorkStep, ByRunner, PlainRow
<1> QED  BY <1>1, <1>2

LEMMA ContinueFits ==
  ASSUME IInv, ByRunner, Tending, NEW t \in Threads, Continue(t)
  PROVE  Fits(t, th[t].on)
<1>1. Plain(th[t]) /\ RunnerMode = TRUE /\ AutoResume = FALSE
  BY DEF ByRunner, Tending
<1>2. CASE Redrive(t)
  BY <1>2, RedriveFits
<1>3. CASE AutoRetry(t)
  BY <1>1, <1>3 DEF AutoRetry, Resumable
<1>4. CASE TickAdvance(t) \/ TickDecide(t)
  BY <1>1, <1>4, TickAdvanceFits, TickDecideFits
<1>5. CASE ClaimStalled(t)
  BY <1>1, <1>5 DEF ClaimStalled, Plain
<1>6. CASE TickNothing(t) \/ Touch(t) \/ AbortGroup(t)
  <2>1. Light(th[t]) /\ UNCHANGED <<rounds, registry>>
    BY <1>6 DEF TickNothing, Touch, AbortGroup, At, Light, Settles, db
  <2>2. UNCHANGED loop \/ loop' = [loop EXCEPT ![th[t].on].old = FALSE]
    BY <1>6 DEF TickNothing, Touch, AbortGroup, db
  <2>3. Return(t) \/ Goto(t, "aborted")
    BY <1>6 DEF TickNothing, Touch, AbortGroup
  <2> QED  BY <2>1, <2>2, <2>3, KeepsFits
<1>7. CASE Supersede(t) \/ CancelOrphan(t) \/ ResumeRead(t) \/ RetryDevelop(t) \/ RetryReview(t)
  BY <1>1, <1>7 DEF Supersede, CancelOrphan, ResumeRead, RetryDevelop, RetryReview, At, Plain
<1>8. CASE StartReviewRound(t) \/ SettleReviewing(t) \/ AuditDecision(t) \/ StartDevHandoff(t)
           \/ DispatchSdlc(t) \/ WriteRound(t)
  BY <1>1, <1>8, StartReviewRoundFits, SettleReviewingFits, AuditDecisionFits, StartDevHandoffFits,
     DispatchSdlcFits, WriteRoundFits
<1>9. CASE CreateInsert(t) \/ Develop(t) \/ ReReview(t) \/ Reenter(t) \/ OnMergeApproved(t) \/ AbortCommit(t)
  BY <1>9, CreateInsertFits, DevelopFits, ReReviewFits, ReenterFits, MergeFits, AbortCommitFits
<1> QED  BY <1>2, <1>3, <1>4, <1>5, <1>6, <1>7, <1>8, <1>9 DEF Continue

(* A step is one of a call, or it leaves the rows, what is recorded of them  *)
(* and, but for a crash, the calls and the rounds of the review entries.     *)
Aside ==
  /\ \A l \in Loops : loop'[l].state = loop[l].state /\ loop'[l].round = loop[l].round
  /\ UNCHANGED rounds /\ \A t \in Threads : th'[t] = th[t] \/ th'[t].pc = "idle"
  /\ \A i \in Instances, l \in Loops : "crash" \notin Faults => review'[i][l].round = review[i][l].round

LEMMA TendStep ==
  ASSUME Tending, IInv, IInv', LockInv, ByRunner, TendInv, [Next]_vars
  PROVE  /\ ByRunner' /\ TendInv'
         /\ Aside \/ \E t \in Threads, l \in Loops : WorkStep(t, l)
<1> DEFINE Goal == /\ ByRunner' /\ TendInv'
                   /\ Aside \/ \E t \in Threads, l \in Loops : WorkStep(t, l)
<1>1. ASSUME NEW t \in Threads, NEW l \in Loops, Fits(t, l) PROVE Goal
  <2>1. WorkStep(t, l)
    BY <1>1 DEF Fits
  <2>2. ByRunner'
    BY <1>1, FitsByRunner
  <2>3. TendInv'
    BY <2>1, WorkTended
  <2> QED  BY <2>1, <2>2, <2>3
<1>2. ASSUME NEW t \in Threads, Continue(t) PROVE Goal
  <2>1. th[t].on \in Loops /\ Fits(t, th[t].on)
    BY <1>2, ContinueFits, OwnRow
  <2> QED  BY <1>1, <2>1
<1>3. ASSUME NEW t \in Threads, NEW l \in Loops, Sweep(t, l) PROVE Goal
  <2>1. Fits(t, l)
    BY <1>3, BeginsFits DEF Sweep
  <2> QED  BY <1>1, <2>1
<1>4. ASSUME NEW t \in Threads, NEW l \in Loops, Request(t, l) PROVE Goal
  <2>1. Fits(t, l)
    BY <1>4, RequestFits DEF Tending
  <2> QED  BY <1>1, <2>1
<1>k. ASSUME UNCHANGED <<loop, th>> PROVE ByRunner'
  BY <1>k DEF ByRunner
<1>5. ASSUME NEW i \in Instances, NEW l \in Loops, Background(i, l) PROVE Goal
  <2>1. UNCHANGED <<loop, th, rounds>>
    BY <1>5 DEF Background, CoderSettle, StraySettle, ReviewSettle, db
  <2>2. \A j \in Instances, m \in Loops : review'[j][m].round = review[j][m].round
    <3>1. review \in [Instances -> [Loops -> ReviewRun]]
      BY DEF IInv, TypeOK, RegistryOK
    <3>2. CASE UNCHANGED review
      BY <3>2
    <3>3. CASE ReviewSettle(i, l)
      <4>1. ASSUME NEW v, review' = [review EXCEPT ![i][l].done = TRUE, ![i][l].res = "verdict", ![i][l].verdict = v]
            PROVE  \A j \in Instances, m \in Loops : review'[j][m].round = review[j][m].round
        BY <3>1, <4>1 DEF ReviewRun
      <4>2. ASSUME NEW res, review' = [review EXCEPT ![i][l].done = TRUE, ![i][l].res = res]
            PROVE  \A j \in Instances, m \in Loops : review'[j][m].round = review[j][m].round
        BY <3>1, <4>2 DEF ReviewRun
      <4>3. \/ \E v \in Verdicts :
                 review' = [review EXCEPT ![i][l].done = TRUE, ![i][l].res = "verdict", ![i][l].verdict = v]
            \/ \E res \in {"error", "limited"} :
                 review' = [review EXCEPT ![i][l].done = TRUE, ![i][l].res = res]
        BY <3>3 DEF ReviewSettle
      <4> QED  BY <4>1, <4>2, <4>3
    <3> QED  BY <1>5, <3>2, <3>3 DEF Background, CoderSettle, StraySettle
  <2> QED  BY <1>5, <1>k, <2>1, <2>2, BackgroundTended DEF Aside
<1>6. ASSUME NEW g \in Groups, NEW n \in 1..Len(iters[g]), IterationSettle(g, n) PROVE Goal
  <2>1. UNCHANGED <<loop, rounds, th, sdlc, review, stray>>
    BY <1>6 DEF IterationSettle, registry
  <2> QED  BY <1>k, <2>1, StutterTended DEF Aside
<1>7. ASSUME NEW l \in Loops, Age(l) PROVE Goal
  <2>1. /\ loop[l] \in Row /\ loop \in [Loops -> Row] /\ loop[l].state \in {"reviewing", "developing", "throttled"}
        /\ loop' = [loop EXCEPT ![l].old = TRUE] /\ UNCHANGED <<rounds, th, review>>
    BY <1>7 DEF Age, IInv, TypeOK, LoopsOK, registry
  <2>2. \A m \in Loops : /\ loop'[m].state = loop[m].state /\ loop'[m].round = loop[m].round
                         /\ loop'[m].iter = loop[m].iter /\ (m # l => loop'[m].old = loop[m].old)
    BY <2>1 DEF Row
  <2>3. ByRunner'
    BY <2>1, <2>2 DEF ByRunner, PlainRow
  <2> QED  BY <1>7, <2>1, <2>2, <2>3, AgeTended DEF Aside, Tending
<1>8. ASSUME NEW i \in Instances, Crash(i) PROVE Goal
  <2>1. /\ UNCHANGED <<loop, rounds>> /\ \A s \in Threads : th'[s] = IF s[1] = i THEN Idle ELSE th[s]
        /\ "crash" \in Faults
    BY <1>8 DEF Crash, Fault
  <2>2. Plain(Idle) /\ Idle.pc = "idle"
    BY IdleOK DEF Plain, Idle
  <2>3. ByRunner'
    <3>1. \A s \in Threads : Plain(th'[s])
      BY <2>1, <2>2 DEF ByRunner
    <3> QED  BY <2>1, <3>1 DEF ByRunner, Plain
  <2> QED  BY <1>8, <2>1, <2>2, <2>3, CrashTended DEF Aside
<1>9. CASE UNCHANGED vars
  <2>1. UNCHANGED <<loop, rounds, th, sdlc, review, stray>>
    BY <1>9 DEF vars
  <2> QED  BY <1>k, <2>1, StutterTended DEF Aside
<1> QED  BY <1>2, <1>3, <1>4, <1>5, <1>6, <1>7, <1>8, <1>9 DEF Next

LEMMA TendInit ==
  ASSUME Init
  PROVE  ByRunner /\ TendInv
<1>1. /\ \A t \in Threads : th[t] = Idle
      /\ Idle.pc = "idle" /\ Idle.job = "none" /\ Idle.row.iter = 0
  BY IdleOK DEF Init, Idle
<1>2. \A l \in Loops : /\ loop[l].state \in {"pending", "none"} /\ loop[l].round = 0 /\ loop[l].iter = 0
                       /\ loop[l].old = FALSE /\ rounds[l] = {}
  BY DEF Init, NoRow
<1>3. \A i \in Instances, l \in Loops :
        /\ sdlc[i][l].round = 0 /\ review[i][l].round = 0 /\ StrayCoders(i, l) = 0
  <2>1. \A i \in Instances, l \in Loops : /\ sdlc[i][l] = NoCoder /\ review[i][l] = NoReview
                                          /\ stray[i][l] = NoStray
    BY DEF Init
  <2>2. NoStray[TRUE] = 0 /\ NoStray[FALSE] = 0
    BY DEF NoStray
  <2>3. \A i \in Instances, l \in Loops : StrayCoders(i, l) = NoStray[TRUE] + NoStray[FALSE]
    BY <2>1 DEF StrayCoders
  <2> QED  BY <2>1, <2>2, <2>3 DEF NoCoder, NoReview
<1>4. ByRunner
  BY <1>1, <1>2 DEF ByRunner, Plain, PlainRow
<1>5. ASSUME NEW l \in Loops PROVE Tended(l)
  <2>1. \A t \in Threads : ~Works(t, l) /\ ~HandsOff(th[t]) /\ ~Settles(th[t]) /\ th[t].pc = "idle"
    BY <1>1 DEF Works, Reviews, HandsOff, Settles
  <2>2. \A i \in Instances : ~Usable(i, l) /\ ~Marked(i, l) /\ ~Live(sdlc[i][l]) /\ StrayCoders(i, l) = 0
    BY <1>3 DEF Usable, Marked, Live
  <2>3. OneWorker(l) /\ OneCoder(l) /\ WorkedRound(l)
    BY <2>1, <2>2 DEF OneWorker, OneCoder, WorkedRound
  <2>4. WrittenRound(l) /\ PastRounds(l) /\ SettlesOwn(l)
    BY <1>2, <1>3, <2>1 DEF WrittenRound, PastRounds, SettlesOwn
  <2>5. WorkersPlace(l) /\ EntriesAhead(l) /\ UsableOnly(l) /\ UsableAhead(l)
    BY <1>2, <1>3, <2>1, <2>2 DEF WorkersPlace, EntriesAhead, UsableOnly, UsableAhead
  <2>6. CodersPlace(l) /\ MarksPlace(l) /\ OldUnattended(l) /\ TicksKnow(l)
    BY <1>2, <2>1, <2>2 DEF CodersPlace, MarksPlace, OldUnattended, TicksKnow
  <2> QED  BY <2>3, <2>4, <2>5, <2>6 DEF Tended, Placed
<1> QED  BY <1>4, <1>5 DEF TendInv
-----------------------------------------------------------------------------
(* What follows for the loops that the runner's instances tend.              *)

TendingInv == IInv /\ LockInv /\ ByRunner /\ TendInv

LEMMA TendingInvariant == ASSUME Tending PROVE Spec => []TendingInv
<1>1. Init => LockInv
  <2> SUFFICES ASSUME Init PROVE LockInv
    OBVIOUS
  <2>1. \A t \in Threads : th[t] = Idle /\ Idle.pc = "idle" /\ ~Idle.held
    BY DEF Init, Idle
  <2> QED  BY <2>1 DEF LockInv, LockHeld, LockOnce, Claimed
<1>2. IInv /\ LockInv /\ [Next]_vars => LockInv'
  BY LockStep DEF Tending
<1>3. Init => ByRunner /\ TendInv
  BY TendInit
<1>4. IInv /\ IInv' /\ LockInv /\ ByRunner /\ TendInv /\ [Next]_vars => ByRunner' /\ TendInv'
  BY TendStep
<1> QED  BY <1>1, <1>2, <1>3, <1>4, InductiveInvariant, PTL DEF Spec, TendingInv

(* The side effects of a claim run on its winner only: at most one thread of *)
(* all instances is starting a review or a coder for a loop, whatever        *)
(* crashes, re-drives and commands race.                                     *)
THEOREM OneDispatch == ASSUME Tending PROVE Spec => []OneDispatchPerLoop
<1>1. TendingInv => OneDispatchPerLoop
  <2> SUFFICES ASSUME TendingInv, NEW s \in Threads, NEW t \in Threads,
                      Dispatching(s), Dispatching(t), th[s].on = th[t].on
               PROVE  s = t
    BY DEF OneDispatchPerLoop
  <2> DEFINE l == th[s].on
  <2>1. l \in Loops /\ OneWorker(l) /\ Plain(th[s]) /\ Plain(th[t])
    BY OwnRow DEF TendingInv, TendInv, Tended, ByRunner
  <2>2. Works(s, l) /\ Works(t, l)
    BY <2>1 DEF Dispatching, At, Works, Reviews, HandsOff, Plain
  <2> QED  BY <2>1, <2>2 DEF OneWorker
<1> QED  BY <1>1, TendingInvariant, PTL

(* The close-out never double-fires: at most one coder, registered or left   *)
(* behind, works for a loop across all instances.                            *)
THEOREM CoderIsAlone == ASSUME Tending PROVE Spec => []OneCoderPerLoop
<1>1. TendingInv => OneCoderPerLoop
  <2> SUFFICES ASSUME TendingInv, NEW l \in Loops
               PROVE  /\ \A i, j \in Entered(l) \union Abandoned(l) : i = j
                      /\ \A i \in Abandoned(l) : StrayCoders(i, l) = 1 /\ i \notin Entered(l)
    BY DEF OneCoderPerLoop
  <2>1. OneCoder(l)
    BY DEF TendingInv, TendInv, Tended
  <2> QED  BY <2>1 DEF OneCoder, Entered, Abandoned
<1> QED  BY <1>1, TendingInvariant, PTL

(* The round only increments, by the write of the one review in progress.    *)
THEOREM RoundsIncrement == ASSUME Tending PROVE Spec => RoundOnlyIncrements
<1>1. TendingInv /\ TendingInv' /\ [Next]_vars => \A l \in Loops : loop'[l].round \in {loop[l].round, loop[l].round + 1}
  <2> SUFFICES ASSUME TendingInv, TendingInv', [Next]_vars, NEW m \in Loops
               PROVE  loop'[m].round \in {loop[m].round, loop[m].round + 1}
    OBVIOUS
  <2>1. Aside \/ \E t \in Threads, l \in Loops : WorkStep(t, l)
    BY TendStep DEF TendingInv
  <2>2. ASSUME NEW t \in Threads, NEW l \in Loops, WorkStep(t, l)
        PROVE  loop'[m].round \in {loop[m].round, loop[m].round + 1}
    <3>1. CASE Writes(t, l) /\ m = l
      BY <3>1, WritesTended DEF TendingInv, TendInv
    <3>2. CASE m # l
      BY <2>2, <3>2 DEF WorkStep, Leaves, Begins, Wins, Moves, Delivers, Ends, Dispatches, Writes, HandsOver,
         Registers, Clears, Audits, Frame
    <3>3. CASE ~Writes(t, l) /\ m = l
      BY <2>2, <3>3 DEF WorkStep, Leaves, Begins, Wins, Moves, Delivers, Ends, Dispatches, HandsOver,
         Registers, Clears, Audits, KeepsRow, Lands
    <3> QED  BY <3>1, <3>2, <3>3
  <2> QED  BY <2>1, <2>2 DEF Aside
<1> QED  BY <1>1, TendingInvariant, PTL DEF Spec, RoundOnlyIncrements

(* A tick ends developing when the coder it started last has ended, and no   *)
(* other works for the loop.                                                 *)
THEOREM CoderEndsFirst == ASSUME Tending PROVE Spec => DevelopingEndsAfterItsCoder
<1>1. TendingInv /\ TendingInv' /\ [Next]_vars =>
        \A l \in Loops : loop[l].state = "developing" /\ loop'[l].state \notin {"developing", "cancelled", "stopped"} =>
          Entered(l) = {}
  <2> SUFFICES ASSUME TendingInv, TendingInv', [Next]_vars, NEW m \in Loops, loop[m].state = "developing",
                      loop'[m].state \notin {"developing", "cancelled", "stopped"}
               PROVE  Entered(m) = {}
    OBVIOUS
  <2>1. PICK t \in Threads, l \in Loops : WorkStep(t, l)
    BY TendStep DEF TendingInv, Aside
  <2>2. loop'[m].state # "failed"
    <3>1. RowStep
      BY NextStep DEF TendingInv
    <3>2. Advances(m) \/ Promotes(m)
      BY <3>1 DEF RowStep, Same, Creates
    <3>3. Advances(m)
      BY <3>2 DEF Promotes, DevelopPromotable
    <3>4. PICK e \in Edges(Vbm, m \in Gated) : e.from = "developing" /\ e.to = loop'[m].state
      BY <3>3 DEF Advances
    <3> QED  BY <3>4 DEF Edges, CommandEdges, TickEdges, MergeEdges, DecideEdges, Edge, DevelopPromotable
  <2>3. m = l
    BY <2>1 DEF WorkStep, Leaves, Begins, Wins, Moves, Delivers, Ends, Dispatches, Writes, HandsOver,
       Registers, Clears, Audits, Frame
  <2>4. Ends(t, l)
    BY <2>1, <2>2, <2>3 DEF WorkStep, Leaves, Begins, Wins, Moves, Delivers, Dispatches, Writes, HandsOver,
       Registers, Clears, Audits, KeepsRow, Closed
  <2> QED  BY <2>3, <2>4, EndsTended DEF TendingInv, TendInv
<1> QED  BY <1>1, TendingInvariant, PTL DEF Spec, DevelopingEndsAfterItsCoder

(* A round is decided on once: a loop enters deciding with a round that has  *)
(* not been recorded, never with an earlier review's verdict.                *)
THEOREM DecidedOnce == ASSUME Tending PROVE Spec => EachRoundDecidedOnce
<1>1. TendingInv /\ TendingInv' /\ [Next]_vars =>
        \A l \in Loops : loop[l].state = "reviewing" /\ loop'[l].state = "deciding" =>
          ~Recorded(l, loop'[l].round)
  <2> SUFFICES ASSUME TendingInv, TendingInv', [Next]_vars, NEW m \in Loops,
                      loop[m].state = "reviewing", loop'[m].state = "deciding"
               PROVE  ~Recorded(m, loop'[m].round)
    OBVIOUS
  <2>1. PICK t \in Threads, l \in Loops : WorkStep(t, l)
    BY TendStep DEF TendingInv, Aside
  <2>2. m = l
    BY <2>1 DEF WorkStep, Leaves, Begins, Wins, Moves, Delivers, Ends, Dispatches, Writes, HandsOver,
       Registers, Clears, Audits, Frame
  <2>3. Delivers(t, l)
    BY <2>1, <2>2 DEF WorkStep, Leaves, Begins, Wins, Moves, Ends, Dispatches, Writes, HandsOver,
       Registers, Clears, Audits, KeepsRow, Closed
  <2>4. Placed(l) /\ Numbers(l) /\ t[1] \in Instances
    BY <2>2, RoundsAreNumbers, OwnRow DEF TendingInv, TendInv, Tended, Closed
  <2>5. Usable(t[1], l)
    BY <2>3, <2>4, TickUsable DEF Delivers, TendingInv
  <2>6. \A x \in rounds[l] : x.round < loop[l].round
    BY <2>4, <2>5 DEF Placed, UsableAhead
  <2>7. loop'[l].round = loop[l].round
    BY <2>3 DEF Delivers, Lands
  <2> QED  BY <2>2, <2>4, <2>6, <2>7 DEF Recorded, Numbers
<1> QED  BY <1>1, TendingInvariant, PTL DEF Spec, EachRoundDecidedOnce

-----------------------------------------------------------------------------
(* One instance, whose operators do not re-open a loop: what the row says of *)
(* the rounds to come, and what a merge ships.                               *)

Alone == Tending /\ (\A i, j \in Instances : i = j) /\ "develop" \notin Commands

(* No call waits to re-open a loop.                                          *)
Uncommanded == \A t \in Threads :
  th[t].pc # "develop" /\ (th[t].pc = "rereview" => "rereview" \in Commands)

LEMMA UncommandedStep ==
  ASSUME "develop" \notin Commands, IInv, ByRunner, Uncommanded, [Next]_vars
  PROVE  Uncommanded'
<1> DEFINE Sound(call) == call.pc # "develop" /\ (call.pc = "rereview" => "rereview" \in Commands)
<1>1. ASSUME NEW t \in Threads, Others(t), Sound(th'[t]) PROVE Uncommanded'
  BY <1>1 DEF Others, Uncommanded
<1>2. ASSUME NEW t \in Threads, Continue(t) PROVE Uncommanded'
  <2>1. th[t].pc # "idle"
    BY <1>2 DEF Continue, Redrive, AutoRetry, TickAdvance, TickDecide, ClaimStalled, TickNothing, Supersede,
                CancelOrphan, StartReviewRound, SettleReviewing, AuditDecision, StartDevHandoff, DispatchSdlc,
                WriteRound, Touch, CreateInsert, Develop, ResumeRead, RetryDevelop, RetryReview, ReReview,
                Reenter, OnMergeApproved, AbortGroup, AbortCommit, At
  <2>2. CallStep(t)
    BY <1>2, ContinueCalls
  <2>3. Others(t) /\ Sound(th'[t])
    BY <2>1, <2>2, ReturnFields DEF CallStep, Proceeds, Stays, Goes, Takes, Resumes, Opens, Ticks, Uncommanded
  <2> QED  BY <1>1, <2>3
<1>t. ASSUME NEW t \in Threads, NEW l \in Loops, Tick(t, l) PROVE Uncommanded'
  <2> DEFINE call == [Idle EXCEPT !.pc = "tick", !.op = "tick", !.on = l, !.row = loop[l], !.held = TRUE]
  <2>1. th' = [th EXCEPT ![t] = call] /\ call.pc = "tick" /\ th \in [Threads -> Thread]
    BY <1>t, Calls DEF Tick, Idle
  <2> HIDE DEF call
  <2>2. Others(t) /\ th'[t].pc = "tick"
    BY <2>1 DEF Others
  <2> QED  BY <1>1, <2>2
<1>3. ASSUME NEW t \in Threads, NEW l \in Loops, Sweep(t, l) PROVE Uncommanded'
  BY <1>t, <1>3 DEF Sweep
<1>4. ASSUME NEW t \in Threads, NEW l \in Loops, Request(t, l) PROVE Uncommanded'
  <2>1. ASSUME NEW op, NEW pc, Call(t, op, l, pc), pc # "develop", pc = "rereview" => "rereview" \in Commands
        PROVE  Uncommanded'
    <3>1. Others(t) /\ th'[t].pc = pc
      BY <2>1, CallFields
    <3> QED  BY <1>1, <2>1, <3>1
  <2>2. CASE Start(t, l)
    BY <1>t, <2>2 DEF Start
  <2>3. CASE CreateRead(t, l) \/ DevelopRead(t, l)
    BY <2>1, <2>3 DEF CreateRead, DevelopRead, Command
  <2>4. CASE RetryRead(t, l) \/ MergeRead(t, l)
    BY <2>1, <2>4 DEF RetryRead, MergeRead
  <2>5. CASE ReReviewRead(t, l)
    BY <2>1, <2>5 DEF ReReviewRead, Command
  <2>6. CASE AbortRead(t, l)
    <3>1. Call(t, "cancel", l, "abort") \/ Call(t, "finish", l, "abort")
      BY <2>6 DEF AbortRead
    <3> QED  BY <2>1, <3>1
  <2> QED  BY <1>4, <2>2, <2>3, <2>4, <2>5, <2>6 DEF Request
<1>5. ASSUME NEW i \in Instances, Crash(i) PROVE Uncommanded'
  <2>1. \A s \in Threads : th'[s] = IF s[1] = i THEN Idle ELSE th[s]
    BY <1>5 DEF Crash
  <2>2. Idle.pc = "idle"
    BY DEF Idle
  <2> QED  BY <2>1, <2>2 DEF Uncommanded
<1>6. CASE UNCHANGED th
  BY <1>6 DEF Uncommanded
<1>7. ASSUME NEW i \in Instances, NEW l \in Loops, Background(i, l) PROVE UNCHANGED th
  BY <1>7 DEF Background, CoderSettle, StraySettle, ReviewSettle
<1>8. ASSUME NEW g \in Groups, NEW n \in 1..Len(iters[g]), IterationSettle(g, n) PROVE UNCHANGED th
  BY <1>8 DEF IterationSettle
<1>9. ASSUME NEW l \in Loops, Age(l) PROVE UNCHANGED th
  BY <1>9 DEF Age
<1> QED  BY <1>2, <1>3, <1>4, <1>5, <1>6, <1>7, <1>8, <1>9 DEF Next, vars

(* A coder's run that ended has a result.                                    *)
RunsEnd == \A i \in Instances, l \in Loops : sdlc[i][l].done => sdlc[i][l].res \in CoderResults

LEMMA SetEnds ==
  ASSUME IInv, RunsEnd, NEW i \in Instances, NEW l \in Loops, NEW run,
         run.done => run.res \in CoderResults, SetCoder(i, l, run)
  PROVE  RunsEnd'
<1>1. sdlc \in [Instances -> [Loops -> CoderRun]] /\ sdlc' = [sdlc EXCEPT ![i][l] = run]
  BY DEF IInv, TypeOK, RegistryOK, SetCoder
<1>2. \A j \in Instances, m \in Loops : sdlc'[j][m] = IF j = i /\ m = l THEN run ELSE sdlc[j][m]
  BY <1>1
<1> QED  BY <1>2 DEF RunsEnd

LEMMA RunsEndStep ==
  ASSUME IInv, RunsEnd, [Next]_vars
  PROVE  RunsEnd'
<1>1. CASE UNCHANGED sdlc
  BY <1>1 DEF RunsEnd
<1>n. ~NoCoder.done
  BY DEF NoCoder
<1>2. ASSUME NEW t \in Threads, Continue(t), ~UNCHANGED sdlc
      PROVE  RunsEnd'
  <2>1. TickAdvance(t) \/ TickDecide(t) \/ AbortCommit(t) \/ DispatchSdlc(t)
    BY <1>2 DEF Continue, Redrive, AutoRetry, ClaimStalled, TickNothing, Supersede, CancelOrphan,
                StartReviewRound, SettleReviewing, AuditDecision, StartDevHandoff, WriteRound, Touch,
                CreateInsert, Develop, ResumeRead, RetryDevelop, RetryReview, ReReview, Reenter,
                OnMergeApproved, AbortGroup, registry
  <2>2. CASE TickAdvance(t) \/ TickDecide(t) \/ AbortCommit(t)
    <3>1. DropCoder(t[1], th[t].on)
      BY <1>2, <2>2 DEF TickAdvance, TickDecide, AbortCommit
    <3> QED  BY <1>n, <3>1, OwnRow, SetEnds DEF DropCoder
  <2>3. CASE DispatchSdlc(t)
    <3> DEFINE run == [NoCoder EXCEPT !.round = th[t].row.round, !.via = th[t].op # "tick"]
    <3>1. SetCoder(t[1], th[t].on, run) /\ ~run.done
      BY <2>3 DEF DispatchSdlc, RegisterCoder, NoCoder
    <3> HIDE DEF run
    <3> QED  BY <3>1, OwnRow, SetEnds
  <2> QED  BY <2>1, <2>2, <2>3
<1>3. ASSUME NEW t \in Threads, NEW l \in Loops, Sweep(t, l) PROVE UNCHANGED sdlc
  BY <1>3 DEF Sweep, Tick, registry
<1>4. ASSUME NEW t \in Threads, NEW l \in Loops, Request(t, l) PROVE UNCHANGED sdlc
  BY <1>4 DEF Request, CreateRead, Start, Tick, DevelopRead, RetryRead, ReReviewRead, MergeRead,
              AbortRead, registry
<1>5. ASSUME NEW i \in Instances, NEW l \in Loops, Background(i, l), ~UNCHANGED sdlc
      PROVE  RunsEnd'
  <2>1. CoderSettle(i, l)
    BY <1>5 DEF Background, StraySettle, ReviewSettle
  <2>2. PICK res \in CoderResults : sdlc' = [sdlc EXCEPT ![i][l].done = TRUE, ![i][l].res = res]
    BY <2>1 DEF CoderSettle
  <2>3. sdlc \in [Instances -> [Loops -> CoderRun]]
    BY DEF IInv, TypeOK, RegistryOK
  <2>4. sdlc'[i][l].res = res /\ \A k \in Instances, m \in Loops : k # i \/ m # l => sdlc'[k][m] = sdlc[k][m]
    BY <2>2, <2>3 DEF CoderRun
  <2> QED  BY <2>4 DEF RunsEnd
<1>6. ASSUME NEW g \in Groups, NEW n \in 1..Len(iters[g]), IterationSettle(g, n) PROVE UNCHANGED sdlc
  BY <1>6 DEF IterationSettle, registry
<1>7. ASSUME NEW l \in Loops, Age(l) PROVE UNCHANGED sdlc
  BY <1>7 DEF Age, registry
<1>8. ASSUME NEW i \in Instances, Crash(i) PROVE RunsEnd'
  <2>1. sdlc' = [sdlc EXCEPT ![i] = [l \in Loops |-> NoCoder]] /\ sdlc \in [Instances -> [Loops -> CoderRun]]
    BY <1>8 DEF Crash, IInv, TypeOK, RegistryOK
  <2>2. \A j \in Instances, m \in Loops : sdlc'[j][m] = IF j = i THEN NoCoder ELSE sdlc[j][m]
    BY <2>1
  <2> QED  BY <1>n, <2>2 DEF RunsEnd
<1>9. CASE UNCHANGED vars
  BY <1>9, <1>1 DEF vars
<1> QED  BY <1>1, <1>2, <1>3, <1>4, <1>5, <1>6, <1>7, <1>8, <1>9 DEF Next

(* A tick decides on the recorded verdict of the round it read.              *)
Decides(t, l) ==
  LET row == th[t].row IN
  /\ th[t].on = l /\ th[t].pc = "tick" /\ row.state = "deciding" /\ row.iter = 0 /\ Recorded(l, row.round)
  /\ loop[l].state = "deciding" /\ loop'[l].state = DecideTo(l, row) /\ UNCHANGED rounds

(* The steps of a row that the next round and the merge depend on.           *)
Ruled(l) ==
  /\ loop[l].state # "developing" /\ loop'[l].state = "developing" => \E t \in Threads : Decides(t, l)
  /\ loop[l].state = "deciding" /\ loop'[l].state = "building_context" => "rereview" \in Commands
  /\ loop'[l].state = "awaiting_merge" =>
       \/ loop[l].state = "awaiting_merge" /\ loop'[l].gate = loop[l].gate
       \/ loop[l].state = "developing" /\ (Vbm => loop'[l].gate = "broken")
       \/ \E t \in Threads : Decides(t, l)
  /\ loop[l].state = "awaiting_merge" /\ loop'[l].state = "converged" =>
       \E t \in Threads : th[t].pc = "merge" /\ th[t].on = l

LEMMA KeptRuled ==
  ASSUME NEW l, loop'[l].state = loop[l].state, loop'[l].gate = loop[l].gate
  PROVE  Ruled(l)
  BY DEF Ruled

LEMMA FrameRuled ==
  ASSUME NEW l \in Loops, RowFrame(l), Ruled(l)
  PROVE  \A m \in Loops : Ruled(m)
<1>1. ASSUME NEW m \in Loops \ {l} PROVE Ruled(m)
  BY KeptRuled DEF RowFrame
<1> QED  BY <1>1

(* A swap that none of the rules is about.                                   *)
LEMMA SwapRuled ==
  ASSUME IInv, NEW l \in Loops, NEW on, NEW to \in RowStates, NEW res \in CoderResults \union {"none"},
         Cas(l, on, to, res), to \notin {"developing", "awaiting_merge"},
         to = "building_context" => loop[l].state # "deciding" \/ "rereview" \in Commands,
         to = "converged" => loop[l].state # "awaiting_merge" \/ \E t \in Threads : th[t].pc = "merge" /\ th[t].on = l
  PROVE  \A m \in Loops : Ruled(m)
<1>1. loop'[l].state = to /\ RowFrame(l)
  BY CasOK DEF IInv, TypeOK, RowFrame
<1> QED  BY <1>1, FrameRuled DEF Ruled

(* A row whose state is kept.                                                *)
LEMMA WriteRuled ==
  ASSUME IInv, NEW l \in Loops, NEW row, loop' = [loop EXCEPT ![l] = row],
         row.state = loop[l].state, row.gate = loop[l].gate
  PROVE  \A m \in Loops : Ruled(m)
<1>1. loop'[l] = row /\ RowFrame(l)
  BY DEF IInv, TypeOK, LoopsOK, RowFrame
<1> QED  BY <1>1, KeptRuled, FrameRuled

LEMMA BrokenCloseOut ==
  ASSUME IInv, RunsEnd, NEW i \in Instances, NEW l \in Loops, NEW row, DevEvent(i, l, row) = "dev_broken"
  PROVE  sdlc[i][l].res = "broken"
<1>1. sdlc[i][l].done /\ sdlc[i][l].res \notin {"limited", "clean"}
  BY DEF DevEvent
<1>2. sdlc[i][l].res \in CoderResults
  BY <1>1 DEF RunsEnd
<1> QED  BY <1>1, <1>2 DEF CoderResults

LEMMA AdvanceRuled ==
  ASSUME IInv, RunsEnd, NEW t \in Threads, TickAdvance(t)
  PROVE  \A m \in Loops : Ruled(m)
<1> DEFINE l == th[t].on  row == th[t].row  i == t[1]  on == Event(i, l, row)  res == sdlc[i][l].res
<1>1. l \in Loops /\ i \in Instances /\ res \in CoderResults \union {"none"}
  BY OwnRow DEF IInv, TypeOK, RegistryOK, CoderRun
<1>2. \/ UNCHANGED loop
      \/ \E to \in Reduce(row.state, on, Vbm, FALSE) :
           on # "decided" /\ CasWins(l, row.state) /\ Cas(l, on, to, res)
  BY DEF TickAdvance
<1>3. ASSUME NEW to \in Reduce(row.state, on, Vbm, FALSE), on # "decided", CasWins(l, row.state), Cas(l, on, to, res)
      PROVE  \A m \in Loops : Ruled(m)
  <2>1. /\ loop[l].state = row.state
        /\ \/ row.state = "pending" /\ on = "start" /\ to = "building_context"
           \/ row.state = "building_context" /\ on = "context_built" /\ to = "reviewing"
           \/ row.state = "reviewing" /\ on # "none" /\ to \in {"deciding", "failed", "throttled"}
           \/ row.state = "developing" /\ on # "none" /\ to \in {"throttled", "awaiting_merge", "building_context"}
    BY <1>3, TickEdgesOnly, EventOfTick DEF CasWins
  <2>2. to \in RowStates
    BY <2>1 DEF RowStates, LoopStates, Active, Terminal
  <2>3. CASE to # "awaiting_merge"
    <3>1. /\ to \notin {"developing", "awaiting_merge"} /\ to # "converged"
          /\ to = "building_context" => loop[l].state # "deciding"
      BY <2>1, <2>3
    <3> HIDE DEF l, on, res
    <3> QED  BY <1>1, <1>3, <2>2, <3>1, SwapRuled
  <2>4. CASE to = "awaiting_merge"
    <3>1. loop[l].state = "developing" /\ on = DevEvent(i, l, row)
      BY <2>1, <2>4 DEF Event
    <3>2. loop'[l] = Moved(loop[l], on, to, res) /\ RowFrame(l) /\ loop[l] \in Row
      BY <1>1, <1>3 DEF Cas, IInv, TypeOK, LoopsOK, RowFrame
    <3>3. ASSUME Vbm PROVE on = "dev_broken"
      <4>1. PICK e \in Edges(Vbm, FALSE) : e.from = "developing" /\ e.on = on /\ e.to = "awaiting_merge"
        BY <1>3, <2>1, <2>4, <3>1 DEF Reduce
      <4>2. e \in TickEdges(Vbm)
        <5>1. e \notin MergeEdges(Vbm) /\ e \notin DecideEdges(Vbm)
          BY <4>1 DEF MergeEdges, DecideEdges, Edge
        <5>2. e \notin CommandEdges(FALSE)
          <6>1. /\ e \notin {Edge(s, "cancel", "cancelled") : s \in Active}
                /\ e \notin {Edge(s, "finish", "stopped") : s \in Active}
            BY <4>1 DEF Edge
          <6>3. e \notin {Edge(s, "develop_requested", "developing") : s \in DevelopPromotable(FALSE)}
            BY <4>1 DEF Edge, DevelopPromotable
          <6>2. e \notin {Edge("deciding", "rereview_requested", "building_context"),
                         Edge("throttled", "retry_review", "building_context"),
                         Edge("throttled", "retry_develop", "developing")}
            BY <4>1 DEF Edge
          <6> QED  BY <6>1, <6>2, <6>3 DEF CommandEdges
        <5> QED  BY <4>1, <5>1, <5>2 DEF Edges
      <4> QED  BY <3>3, <4>1, <4>2 DEF TickEdges, Edge
    <3>4. ASSUME Vbm PROVE loop'[l].gate = "broken"
      <4>1. on = "dev_broken" /\ res = "broken"
        BY <1>1, <3>1, <3>3, <3>4, BrokenCloseOut
      <4> HIDE DEF on, res
      <4> QED  BY <3>2, <4>1 DEF Moved, Row
    <3>5. loop'[l].state = "awaiting_merge"
      <4> HIDE DEF l, on, res
      <4> QED  BY <1>1, <1>3, <2>2, <2>4, CasOK DEF IInv, TypeOK
    <3>6. Ruled(l)
      BY <3>1, <3>4, <3>5 DEF Ruled
    <3> HIDE DEF l
    <3> QED  BY <1>1, <3>2, <3>6, FrameRuled
  <2> QED  BY <2>3, <2>4
<1> QED  BY <1>2, <1>3, KeptRuled

LEMMA DecideRuled ==
  ASSUME IInv, ByRunner, RunnerMode = TRUE, NEW t \in Threads, TickDecide(t)
  PROVE  \A m \in Loops : Ruled(m)
<1> DEFINE l == th[t].on  row == th[t].row  to == DecideTo(l, row)
<1>1. l \in Loops /\ row.iter = 0 /\ th[t].pc = "tick" /\ Event(t[1], l, row) = "decided"
  BY OwnRow DEF ByRunner, Plain, TickDecide, At
<1>2. row.state = "deciding" /\ Resolve(l, row) # NoVerdict
  <2>1. ReviewEvent(t[1], l, row) # "decided" /\ DevEvent(t[1], l, row) # "decided"
    BY DEF ReviewEvent, DevEvent
  <2> QED  BY <1>1, <2>1 DEF Event
<1>3. Recorded(l, row.round)
  BY <1>1, <1>2 DEF Resolve
<1>4. CASE UNCHANGED loop
  BY <1>4, KeptRuled
<1>5. CASE ~UNCHANGED loop
  <2>1. loop[l].state = "deciding" /\ Cas(l, "decided", to, "none") /\ UNCHANGED rounds
    BY <1>5 DEF TickDecide, CasWins
  <2>2. to \in RowStates /\ "none" \in CoderResults \union {"none"}
    BY DecideToState
  <2>3. loop'[l].state = to /\ RowFrame(l)
    <3> HIDE DEF l, to
    <3> QED  BY <1>1, <2>1, <2>2, CasOK DEF IInv, TypeOK, RowFrame
  <2>4. Decides(t, l)
    BY <1>1, <1>2, <1>3, <2>1, <2>3 DEF Decides
  <2>5. to # "building_context"
    BY DEF DecideTo, Decide
  <2>6. Ruled(l)
    BY <2>1, <2>3, <2>4, <2>5 DEF Ruled
  <2> HIDE DEF l
  <2> QED  BY <1>1, <2>3, <2>6, FrameRuled
<1> QED  BY <1>4, <1>5

LEMMA CommandRuled ==
  ASSUME IInv, ByRunner, Uncommanded, NEW t \in Threads, ~UNCHANGED loop,
         \/ CreateInsert(t) \/ Develop(t) \/ ReReview(t) \/ Reenter(t) \/ OnMergeApproved(t) \/ AbortCommit(t)
         \/ StartReviewRound(t)
  PROVE  \A m \in Loops : Ruled(m)
<1> DEFINE l == th[t].on
<1>1. l \in Loops /\ loop[l] \in Row /\ "none" \in CoderResults \union {"none"}
  BY OwnRow DEF IInv, TypeOK, LoopsOK
<1>s. {"pending", "building_context", "reviewing", "converged", "failed", "cancelled", "stopped"} \subseteq RowStates
  BY DEF RowStates, LoopStates, Active, Terminal
<1>2. CASE CreateInsert(t)
  <2>1. loop[l].state = "none" /\ loop' = [loop EXCEPT ![l] = [loop[l] EXCEPT !.state = "pending"]]
    BY <1>2 DEF CreateInsert
  <2>2. loop'[l].state = "pending" /\ RowFrame(l)
    BY <1>1, <2>1 DEF Row, IInv, TypeOK, LoopsOK, RowFrame
  <2>3. Ruled(l)
    BY <2>2 DEF Ruled
  <2> HIDE DEF l
  <2> QED  BY <1>1, <2>2, <2>3, FrameRuled
<1>3. CASE Develop(t)
  BY <1>3 DEF Develop, Uncommanded, At
<1>4. CASE ReReview(t)
  <2>1. "rereview" \in Commands /\ Cas(l, "rereview_requested", "building_context", "none")
    BY <1>4 DEF ReReview, ClaimReview, Uncommanded, At
  <2> HIDE DEF l
  <2> QED  BY <1>1, <1>s, <2>1, SwapRuled
<1>5. CASE Reenter(t)
  <2>1. Cas(l, "context_built", "reviewing", "none")
    BY <1>5 DEF Reenter
  <2> HIDE DEF l
  <2> QED  BY <1>1, <1>s, <2>1, SwapRuled
<1>6. CASE OnMergeApproved(t)
  <2>1. PICK to \in Reduce("awaiting_merge", "merge_approved", Vbm, FALSE) : Cas(l, "merge_approved", to, "none")
    BY <1>6 DEF OnMergeApproved
  <2>2. to \in {"converged", "building_context"} /\ th[t].pc = "merge" /\ loop[l].state = "awaiting_merge"
    BY <1>6, MergeEdgesOnly DEF OnMergeApproved, At, CasWins
  <2>3. to \in RowStates /\ th[t].on = l
    BY <1>s, <2>2
  <2> HIDE DEF l
  <2> QED  BY <1>1, <2>1, <2>2, <2>3, SwapRuled
<1>7. CASE AbortCommit(t)
  <2>1. PICK to \in Reduce(th[t].row.state, th[t].op, Vbm, FALSE) : Cas(l, th[t].op, to, "none")
    BY <1>7 DEF AbortCommit
  <2>2. to \in {"cancelled", "stopped"} /\ th[t].op \in {"cancel", "finish"}
    BY <1>7, AbortEdgesOnly, OwnRow DEF AbortCommit, At, CallOK
  <2>3. to \in RowStates
    BY <1>s, <2>2
  <2> HIDE DEF l
  <2> QED  BY <1>1, <2>1, <2>2, <2>3, SwapRuled
<1>8. CASE StartReviewRound(t)
  <2>1. Cas(l, "review_failed", "failed", "none")
    BY <1>8 DEF StartReviewRound, UnresolvedRef, DispatchReview, StartIteration
  <2> HIDE DEF l
  <2> QED  BY <1>1, <1>s, <2>1, SwapRuled
<1> QED  BY <1>2, <1>3, <1>4, <1>5, <1>6, <1>7, <1>8

LEMMA RuledStep ==
  ASSUME Alone, IInv, ByRunner, Uncommanded, RunsEnd, [Next]_vars
  PROVE  \A l \in Loops : Ruled(l)
<1> DEFINE Goal == \A l \in Loops : Ruled(l)
<1>1. CASE UNCHANGED loop
  BY <1>1, KeptRuled
<1>2. ASSUME NEW t \in Threads, Continue(t), ~UNCHANGED loop PROVE Goal
  <2>1. Plain(th[t]) /\ AutoResume = FALSE /\ RunnerMode = TRUE
    BY DEF ByRunner, Alone, Tending
  <2>2. \/ Redrive(t) \/ WriteRound(t) \/ Touch(t) \/ TickAdvance(t) \/ TickDecide(t) \/ StartReviewRound(t)
        \/ CreateInsert(t) \/ Develop(t) \/ ReReview(t) \/ Reenter(t) \/ OnMergeApproved(t) \/ AbortCommit(t)
    <3>1. ~AutoRetry(t) /\ ~ClaimStalled(t)
      BY <2>1 DEF AutoRetry, Resumable, ClaimStalled, Plain
    <3>2. ~Supersede(t) /\ ~CancelOrphan(t) /\ ~ResumeRead(t) /\ ~RetryDevelop(t) /\ ~RetryReview(t)
      BY <2>1 DEF Supersede, CancelOrphan, ResumeRead, RetryDevelop, RetryReview, Plain, At
    <3>3. ~TickNothing(t) /\ ~SettleReviewing(t) /\ ~AuditDecision(t) /\ ~StartDevHandoff(t) /\ ~DispatchSdlc(t)
          /\ ~AbortGroup(t)
      BY <1>2 DEF TickNothing, SettleReviewing, AuditDecision, StartDevHandoff, DispatchSdlc, AbortGroup, db
    <3> QED  BY <1>2, <3>1, <3>2, <3>3 DEF Continue
  <2>3. th[t].on \in Loops /\ loop[th[t].on] \in Row
    BY OwnRow DEF IInv, TypeOK, LoopsOK
  <2>4. CASE Redrive(t) \/ Touch(t)
    <3>1. loop' = [loop EXCEPT ![th[t].on] = [loop[th[t].on] EXCEPT !.old = FALSE]]
      BY <1>2, <2>4 DEF Redrive, Touch
    <3> QED  BY <2>3, <3>1, WriteRuled DEF Row
  <2>5. CASE WriteRound(t)
    <3> DEFINE row == th[t].row
               new == [loop[th[t].on] EXCEPT !.round = row.round, !.iter = row.iter,
                                             !.redrives = row.redrives, !.old = FALSE]
    <3>1. loop' = [loop EXCEPT ![th[t].on] = new]
      BY <2>5 DEF WriteRound
    <3>2. new.state = loop[th[t].on].state /\ new.gate = loop[th[t].on].gate
      BY <2>3 DEF Row
    <3> HIDE DEF new
    <3> QED  BY <2>3, <3>1, <3>2, WriteRuled
  <2>6. CASE TickAdvance(t) \/ TickDecide(t)
    BY <2>1, <2>6, AdvanceRuled, DecideRuled
  <2>7. CASE \/ CreateInsert(t) \/ Develop(t) \/ ReReview(t) \/ Reenter(t) \/ OnMergeApproved(t) \/ AbortCommit(t)
             \/ StartReviewRound(t)
    BY <1>2, <2>7, CommandRuled
  <2> QED  BY <2>2, <2>4, <2>5, <2>6, <2>7
<1>3. ASSUME NEW t \in Threads, NEW l \in Loops, Sweep(t, l) PROVE UNCHANGED loop
  BY <1>3 DEF Sweep, Tick, db
<1>4. ASSUME NEW t \in Threads, NEW l \in Loops, Request(t, l) PROVE UNCHANGED loop
  BY <1>4 DEF Request, CreateRead, Start, Tick, DevelopRead, RetryRead, ReReviewRead, MergeRead, AbortRead, db
<1>5. ASSUME NEW i \in Instances, NEW l \in Loops, Background(i, l) PROVE UNCHANGED loop
  BY <1>5 DEF Background, CoderSettle, StraySettle, ReviewSettle, db
<1>6. ASSUME NEW g \in Groups, NEW n \in 1..Len(iters[g]), IterationSettle(g, n) PROVE UNCHANGED loop
  BY <1>6 DEF IterationSettle
<1>7. ASSUME NEW l \in Loops, Age(l) PROVE Goal
  <2>1. loop' = [loop EXCEPT ![l] = [loop[l] EXCEPT !.old = TRUE]] /\ loop[l] \in Row
    BY <1>7 DEF Age, IInv, TypeOK, LoopsOK
  <2> QED  BY <2>1, WriteRuled DEF Row
<1>8. ASSUME NEW i \in Instances, Crash(i) PROVE UNCHANGED loop
  BY <1>8 DEF Crash
<1>9. CASE UNCHANGED vars
  BY <1>1, <1>9 DEF vars
<1> QED  BY <1>1, <1>2, <1>3, <1>4, <1>5, <1>6, <1>7, <1>8, <1>9 DEF Next

-----------------------------------------------------------------------------
(* A tick that decides read the row's round.                                 *)

Current(l) == \A t \in Threads :
  th[t].on = l /\ th[t].pc = "tick" /\ th[t].row.state = "deciding" /\ loop[l].state = "deciding" =>
    th[t].row.round = loop[l].round

(* What every step of a call leaves alone.                                   *)
LEMMA WorkFrame ==
  ASSUME NEW t \in Threads, NEW l \in Loops, WorkStep(t, l)
  PROVE  /\ Frame(t, l)
         /\ th'[t].pc = "tick" => Begins(t, l)
         /\ ~Writes(t, l) => loop'[l].round = loop[l].round
         /\ loop[l].state = "reviewing" /\ loop'[l].state \notin {"reviewing"} \union Closed => Delivers(t, l)
<1>1. Frame(t, l)
  BY DEF WorkStep, Leaves, Begins, Wins, Moves, Delivers, Ends, Dispatches, Writes, HandsOver, Registers, Clears, Audits
<1>2. th'[t].pc = "tick" => Begins(t, l)
  BY DEF WorkStep, Leaves, Wins, Moves, Delivers, Ends, Dispatches, Writes, HandsOver, Registers, Clears, Audits,
         Off, Settles
<1>3. ~Writes(t, l) => loop'[l].round = loop[l].round
  BY DEF WorkStep, Leaves, Begins, Wins, Moves, Delivers, Ends, Dispatches, HandsOver, Registers, Clears, Audits,
         KeepsRow, Lands
<1>4. loop[l].state = "reviewing" /\ loop'[l].state \notin {"reviewing"} \union Closed => Delivers(t, l)
  BY DEF WorkStep, Leaves, Begins, Wins, Moves, Ends, Dispatches, Writes, HandsOver, Registers, Clears, Audits,
         KeepsRow
<1> QED  BY <1>1, <1>2, <1>3, <1>4

LEMMA CurrentElsewhere ==
  ASSUME IInv, NEW t \in Threads, NEW l \in Loops, Frame(t, l), NEW m \in Loops \ {l}, Current(m)
  PROVE  Current(m)'
<1>1. \A s \in Threads : th'[s].on = m /\ th'[s].pc = "tick" => th'[s] = th[s]
  BY DEF Frame, Others
<1> QED  BY <1>1 DEF Current, Frame

(* The row enters deciding by a tick of its only instance.                   *)
LEMMA CurrentWork ==
  ASSUME Alone, IInv, LockInv, TendInv, [Next]_vars, NEW t \in Threads, NEW l \in Loops, WorkStep(t, l), Current(l)
  PROVE  Current(l)'
<1>1. \A s \in Threads \ {t} : th'[s] = th[s]
  BY WorkFrame DEF Frame, Others
<1>2. SUFFICES ASSUME NEW s \in Threads, th'[s].on = l, th'[s].pc = "tick", th'[s].row.state = "deciding",
                      loop'[l].state = "deciding"
               PROVE  th'[s].row.round = loop'[l].round
  BY DEF Current
<1>3. CASE s = t
  <2>1. Begins(t, l)
    BY <1>2, <1>3, WorkFrame
  <2> QED  BY <1>3, <2>1 DEF Begins
<1>4. CASE s # t /\ loop[l].state = "deciding"
  <2>1. ~Writes(t, l)
    <3>1. SUFFICES ASSUME Writes(t, l) PROVE FALSE
      OBVIOUS
    <3>2. Placed(l) /\ Works(t, l) /\ ~HandsOff(th[t])
      BY <1>4, <3>1 DEF Writes, Works, Reviews, HandsOff, TendInv, Tended, Closed
    <3> QED  BY <1>4, <3>2 DEF Placed, WorkersPlace
  <2>2. th'[s] = th[s] /\ loop'[l].round = loop[l].round
    BY <1>1, <1>4, <2>1, WorkFrame
  <2> QED  BY <1>2, <1>4, <2>2 DEF Current
<1>5. CASE s # t /\ loop[l].state # "deciding"
  <2>1. loop[l].state = "reviewing"
    <3>1. Advances(l) \/ Promotes(l)
      BY <1>2, <1>5, NextStep DEF RowStep, Same, Creates
    <3>2. PICK e \in Edges(Vbm, l \in Gated) : e.from = loop[l].state /\ e.to = "deciding"
      BY <1>2, <3>1 DEF Advances, Promotes
    <3>3. e \notin CommandEdges(l \in Gated) /\ e \notin MergeEdges(Vbm) /\ e \notin DecideEdges(Vbm)
      BY <3>2 DEF CommandEdges, MergeEdges, DecideEdges, Edge
    <3> QED  BY <3>2, <3>3 DEF Edges, TickEdges, Edge
  <2>2. Delivers(t, l)
    BY <1>2, <2>1, WorkFrame DEF Closed
  <2>3. th[t].on = l /\ th[t].pc = "tick" /\ th[s].on = l /\ th[s].pc = "tick"
    BY <1>1, <1>2, <1>5, <2>2 DEF Delivers
  <2>4. s[1] = t[1]
    BY Calls DEF Alone
  <2> QED  BY <1>5, <2>3, <2>4, OneAtInstance DEF Claimed
<1> QED  BY <1>3, <1>4, <1>5

LEMMA CurrentStep ==
  ASSUME Alone, IInv, IInv', LockInv, ByRunner, TendInv, \A l \in Loops : Current(l), [Next]_vars
  PROVE  \A l \in Loops : Current(l)'
<1>1. Aside \/ \E t \in Threads, l \in Loops : WorkStep(t, l)
  BY TendStep DEF Alone
<1>2. CASE Aside
  <2>1. \A t \in Threads : th'[t].pc = "tick" => th'[t] = th[t]
    BY <1>2 DEF Aside
  <2> QED  BY <1>2, <2>1 DEF Aside, Current
<1>3. ASSUME NEW t \in Threads, NEW l \in Loops, WorkStep(t, l), NEW m \in Loops PROVE Current(m)'
  <2>1. CASE m = l
    BY <1>3, <2>1, CurrentWork
  <2>2. CASE m # l
    BY <1>3, <2>2, WorkFrame, CurrentElsewhere
  <2> QED  BY <2>1, <2>2
<1> QED  BY <1>1, <1>2, <1>3

-----------------------------------------------------------------------------
(* The cap.                                                                  *)

Capped == Alone /\ "rereview" \notin Commands /\ "crash" \notin Faults

(* From these states a loop comes to its next review without a decision.     *)
Ahead == {"none", "pending", "building_context", "developing"} \union IF Vbm THEN {} ELSE {"awaiting_merge"}

CapOK(l) ==
  /\ loop[l].round <= MaxRounds
  /\ loop[l].state \in Ahead => loop[l].round < MaxRounds
  /\ loop[l].state = "reviewing" => loop[l].round < MaxRounds \/ \E i \in Instances : Usable(i, l)
  /\ \A t \in Threads : th[t].on = l /\ Reviews(th[t]) => loop[l].round < MaxRounds

LEMMA CapElsewhere ==
  ASSUME IInv, NEW t \in Threads, NEW l \in Loops, Frame(t, l), NEW m \in Loops \ {l}, CapOK(m)
  PROVE  CapOK(m)'
<1>1. loop'[m] = loop[m] /\ \A i \in Instances : review'[i][m] = review[i][m]
  BY DEF Frame
<1>2. \A s \in Threads : /\ th'[s].on = m /\ Settles(th'[s]) => th[s].on = m /\ Settles(th[s])
                         /\ th'[s].on = m /\ Reviews(th'[s]) => th[s].on = m /\ Reviews(th[s])
  BY DEF Frame, Others, Settles, Reviews
<1>3. \A i \in Instances : Usable(i, m) => Usable(i, m)'
  BY <1>1, <1>2 DEF Usable
<1> QED  BY <1>1, <1>2, <1>3 DEF CapOK

(* A step that starts no review and settles none.                            *)
LEMMA CapKept ==
  ASSUME NEW t \in Threads, NEW l \in Loops, Others(t), ~Reviews(th'[t]), ~Settles(th'[t]),
         \A i \in Instances : review'[i][l].round = review[i][l].round,
         loop'[l].round = loop[l].round, CapOK(l),
         loop'[l].state = loop[l].state \/ loop'[l].state \notin Ahead \union {"reviewing"}
  PROVE  CapOK(l)'
<1>1. \A i \in Instances : Usable(i, l) => Usable(i, l)'
  BY DEF Usable, Others
<1>2. \A s \in Threads : Reviews(th'[s]) => th'[s] = th[s]
  BY DEF Others
<1> QED  BY <1>1, <1>2 DEF CapOK

(* Only a decision below the cap, or the creation of the loop, brings it     *)
(* ahead of its next review.                                                 *)
LEMMA MovesAhead ==
  ASSUME Capped, IInv, [Next]_vars, NEW l \in Loops, Ruled(l), loop'[l].state \in Ahead \ {"developing"},
         loop[l].state \in {"none", "pending", "deciding", "awaiting_merge"}
  PROVE  loop[l].state \in Ahead
<1>1. CASE Same(l) \/ loop[l].state \in {"none", "pending"}
  BY <1>1 DEF Same, Ahead
<1>2. CASE ~Same(l) /\ loop[l].state \in {"deciding", "awaiting_merge"}
  <2>1. Advances(l)
    BY <1>2, NextStep DEF RowStep, Creates, Promotes, Same, Ahead
  <2>2. PICK e \in Edges(Vbm, l \in Gated) : e.from = loop[l].state /\ e.to = loop'[l].state
    BY <2>1 DEF Advances
  <2>3. e.to \notin {"none", "pending"}
    <3>1. e \notin CommandEdges(l \in Gated) \/ e.to \notin {"none", "pending"}
      BY DEF CommandEdges, Edge
    <3>2. e \in TickEdges(Vbm) \union MergeEdges(Vbm) \union DecideEdges(Vbm) => e.to \notin {"none", "pending"}
      BY DEF TickEdges, MergeEdges, DecideEdges, Edge
    <3> QED  BY <3>1, <3>2 DEF Edges
  <2>4. loop[l].state = "deciding" => loop'[l].state # "building_context"
    BY DEF Ruled, Capped
  <2>5. CASE loop[l].state = "deciding" /\ loop'[l].state = "awaiting_merge"
    <3>1. e \notin CommandEdges(l \in Gated) /\ e \notin TickEdges(Vbm) /\ e \notin MergeEdges(Vbm)
      BY <2>2, <2>5 DEF CommandEdges, TickEdges, MergeEdges, Edge
    <3>2. Vbm
      BY <2>2, <2>5, <3>1 DEF Edges, DecideEdges, Edge
    <3> QED  BY <2>5, <3>2 DEF Ahead
  <2>6. CASE loop[l].state = "awaiting_merge" /\ loop'[l].state = "building_context"
    <3>1. e \notin CommandEdges(l \in Gated) /\ e \notin TickEdges(Vbm) /\ e \notin DecideEdges(Vbm)
      BY <2>2, <2>6 DEF CommandEdges, TickEdges, DecideEdges, Edge
    <3>2. ~Vbm
      BY <2>2, <2>6, <3>1 DEF Edges, MergeEdges, Edge
    <3> QED  BY <2>6, <3>2 DEF Ahead
  <2> QED  BY <1>2, <2>2, <2>3, <2>4, <2>5, <2>6 DEF Ahead, Same
<1> QED  BY <1>1, <1>2

LEMMA DecidesBelow ==
  ASSUME NEW l, Current(l), NEW t \in Threads, Decides(t, l), loop'[l].state = "developing",
         loop[l].round \in Nat, MaxRounds \in Nat
  PROVE  loop[l].round < MaxRounds
<1>1. th[t].row.round = loop[l].round
  BY DEF Decides, Current
<1>2. DecideTo(l, th[t].row) = "developing"
  BY DEF Decides
<1>3. ~(th[t].row.round >= MaxRounds)
  BY <1>2 DEF DecideTo, Decide
<1> QED  BY <1>1, <1>3

LEMMA CapWork ==
  ASSUME Capped, IInv, LockInv, TendInv, [Next]_vars, NEW t \in Threads, NEW l \in Loops, WorkStep(t, l),
         Current(l), Ruled(l), CapOK(l)
  PROVE  CapOK(l)'
<1>1. /\ Others(t) /\ Tended(l) /\ Numbers(l) /\ MaxRounds \in Nat /\ t[1] \in Instances
      /\ \A i \in Instances : i = t[1]
  BY WorkFrame, RoundsAreNumbers, LoopAssumption, Calls DEF Frame, TendInv, Capped, Alone
<1>2. CASE Leaves(t, l) \/ Begins(t, l) \/ HandsOver(t, l) \/ Registers(t, l) \/ Audits(t, l)
  <2>1. /\ ~Reviews(th'[t]) /\ ~Settles(th'[t]) /\ UNCHANGED review
        /\ loop'[l].round = loop[l].round
        /\ loop'[l].state = loop[l].state \/ loop'[l].state \in Closed
    BY <1>2 DEF Leaves, Begins, HandsOver, Registers, Audits, Off, Reviews, Settles, KeepsRow, Lands, registry
  <2> QED  BY <1>1, <2>1, CapKept DEF Closed, Ahead
<1>3. CASE Wins(t, l)
  <2>1. loop[l].round < MaxRounds
    <3>1. CASE loop[l].state \in {"building_context", "developing"}
      BY <3>1 DEF CapOK, Ahead
    <3>2. CASE loop[l].state # "developing" /\ loop'[l].state = "developing"
      BY <1>1, <3>2, DecidesBelow DEF Ruled, Numbers
    <3>3. CASE loop[l].state = "reviewing" /\ loop[l].old
      <4>1. \A i \in Instances : ~Usable(i, l)
        BY <1>1, <3>3 DEF Tended, Closed, Placed, OldUnattended
      <4> QED  BY <3>3, <4>1 DEF CapOK
    <3> QED  BY <1>3, <3>1, <3>2, <3>3 DEF Wins
  <2> QED  BY <1>1, <1>3, <2>1 DEF CapOK, Wins, Lands, Numbers
<1>4. CASE Moves(t, l)
  <2>1. /\ ~Reviews(th'[t]) /\ ~Settles(th'[t]) /\ UNCHANGED review /\ loop'[l].round = loop[l].round
        /\ loop'[l].state \notin {"reviewing", "developing"}
        /\ loop[l].state \in {"none", "pending", "deciding", "awaiting_merge"}
    BY <1>4 DEF Moves, Off, Reviews, Settles, Lands
  <2>2. CASE loop'[l].state \notin Ahead
    BY <1>1, <2>1, <2>2, CapKept
  <2>3. CASE loop'[l].state \in Ahead
    <3>1. loop[l].state \in Ahead
      BY <2>1, <2>3, MovesAhead
    <3>2. \A s \in Threads : Reviews(th'[s]) => th'[s] = th[s]
      BY <1>1, <2>1 DEF Others
    <3> QED  BY <2>1, <3>1, <3>2 DEF CapOK
  <2> QED  BY <2>2, <2>3
<1>5. CASE Delivers(t, l)
  <2>1. /\ loop'[l].state \notin Ahead \union {"reviewing"} /\ loop'[l].round = loop[l].round
        /\ ~Reviews(th'[t])
    BY <1>5 DEF Delivers, Ahead, Lands, Settles, Reviews
  <2>2. \A s \in Threads : Reviews(th'[s]) => th'[s] = th[s]
    BY <1>1, <2>1 DEF Others
  <2> QED  BY <2>1, <2>2 DEF CapOK
<1>6. CASE Ends(t, l)
  <2>1. /\ loop[l].round < MaxRounds /\ loop'[l].round = loop[l].round /\ loop'[l].state # "reviewing"
        /\ ~Reviews(th'[t])
    BY <1>6 DEF Ends, CapOK, Ahead, Lands, Off, Reviews
  <2> QED  BY <2>1 DEF CapOK
<1>7. CASE Dispatches(t, l)
  <2>1. /\ loop[l].round < MaxRounds /\ loop'[l] = loop[l]
    BY <1>7 DEF Dispatches, CapOK, Reviews
  <2> QED  BY <2>1 DEF CapOK
<1>8. CASE Writes(t, l)
  <2>1. /\ loop[l].round < MaxRounds /\ loop'[l].round = loop[l].round + 1 /\ loop'[l].state = loop[l].state
        /\ Works(t, l) /\ ~Reviews(th'[t]) /\ ~HandsOff(th[t]) /\ th[t].pc = "write" /\ th[t].on = l
        /\ UNCHANGED review /\ ~Settles(th'[t])
    BY <1>1, <1>8, WritesTended DEF Writes, CapOK, Reviews, Works, HandsOff, Off, Settles, registry
  <2>2. \A s \in Threads : ~(th'[s].on = l /\ Reviews(th'[s]))
    BY <1>1, <2>1 DEF Others, Tended, OneWorker, Works
  <2>3. loop[l].state \notin Ahead
    BY <1>1, <2>1 DEF Tended, Closed, Placed, WorkersPlace, Ahead
  <2>4. ASSUME loop[l].state = "reviewing" PROVE Usable(t[1], l)'
    <3>1. review'[t[1]][l].round = loop'[l].round
      BY <1>1, <1>8, <2>1 DEF Tended, WrittenRound, Writes
    <3>2. \A s \in Threads : s[1] = t[1] /\ th'[s].on = l => ~Settles(th'[s])
      <4>1. ASSUME NEW s \in Threads \ {t}, s[1] = t[1], th[s].on = l, Settles(th[s]) PROVE FALSE
        BY <2>1, <4>1, OneAtInstance DEF Claimed, Settles
      <4> QED  BY <1>1, <2>1, <4>1 DEF Others
    <3> QED  BY <1>1, <2>1, <3>1, <3>2 DEF Usable, Numbers
  <2>5. loop'[l].round <= MaxRounds
    BY <1>1, <2>1 DEF Numbers
  <2> QED  BY <1>1, <2>1, <2>2, <2>3, <2>4, <2>5 DEF CapOK
<1>9. CASE Clears(t, l)
  <2>1. \A i \in Instances : ~Usable(i, l)
    BY <1>1, <1>9 DEF Clears, Usable
  <2>2. /\ loop'[l] = loop[l] /\ \A s \in Threads : Reviews(th'[s]) => th'[s] = th[s]
    BY <1>1, <1>9 DEF Clears, Others, Off, Reviews
  <2> QED  BY <2>1, <2>2 DEF CapOK
<1> QED  BY <1>2, <1>3, <1>4, <1>5, <1>6, <1>7, <1>8, <1>9 DEF WorkStep

LEMMA CapStep ==
  ASSUME Capped, IInv, IInv', LockInv, ByRunner, TendInv, \A l \in Loops : Current(l),
         \A l \in Loops : Ruled(l), \A l \in Loops : CapOK(l), [Next]_vars
  PROVE  \A l \in Loops : CapOK(l)'
<1>1. Aside \/ \E t \in Threads, l \in Loops : WorkStep(t, l)
  BY TendStep DEF Capped, Alone
<1>2. CASE Aside
  <2>1. /\ \A s \in Threads : Settles(th'[s]) \/ Reviews(th'[s]) => th'[s] = th[s]
        /\ \A i \in Instances, l \in Loops : review'[i][l].round = review[i][l].round
        /\ \A l \in Loops : loop'[l].state = loop[l].state /\ loop'[l].round = loop[l].round
    BY <1>2 DEF Aside, Capped, Settles, Reviews
  <2>2. \A i \in Instances, l \in Loops : Usable(i, l) => Usable(i, l)'
    BY <2>1 DEF Usable
  <2> QED  BY <2>1, <2>2 DEF CapOK
<1>3. ASSUME NEW t \in Threads, NEW l \in Loops, WorkStep(t, l), NEW m \in Loops PROVE CapOK(m)'
  <2>1. CASE m = l
    BY <1>3, <2>1, CapWork
  <2>2. CASE m # l
    BY <1>3, <2>2, WorkFrame, CapElsewhere
  <2> QED  BY <2>1, <2>2
<1> QED  BY <1>1, <1>2, <1>3


AloneInv == TendingInv /\ Uncommanded /\ RunsEnd /\ \A l \in Loops : Current(l)

LEMMA AloneInvariant == ASSUME Alone PROVE Spec => []AloneInv
<1>1. Init => Uncommanded /\ RunsEnd /\ \A l \in Loops : Current(l)
  <2> SUFFICES ASSUME Init PROVE Uncommanded /\ RunsEnd /\ \A l \in Loops : Current(l)
    OBVIOUS
  <2>1. \A t \in Threads : th[t].pc = "idle"
    BY DEF Init, Idle
  <2>2. \A i \in Instances, l \in Loops : ~sdlc[i][l].done
    BY DEF Init, NoCoder
  <2> QED  BY <2>1, <2>2 DEF Uncommanded, RunsEnd, Current
<1>2. TendingInv /\ Uncommanded /\ [Next]_vars => Uncommanded'
  BY UncommandedStep DEF Alone, TendingInv
<1>3. TendingInv /\ RunsEnd /\ [Next]_vars => RunsEnd'
  BY RunsEndStep DEF TendingInv
<1>4. TendingInv /\ TendingInv' /\ (\A l \in Loops : Current(l)) /\ [Next]_vars => (\A l \in Loops : Current(l))'
  BY CurrentStep DEF TendingInv
<1>5. Spec => []TendingInv
  BY TendingInvariant DEF Alone
<1> QED  BY <1>1, <1>2, <1>3, <1>4, <1>5, PTL DEF Spec, AloneInv

(* The cap binds the loop row's lifetime: no decision, confirmation or merge *)
(* takes a loop into a round past MaxRounds.                                 *)
THEOREM RoundsCapped == ASSUME Capped PROVE Spec => []RoundWithinCap
<1> DEFINE CapInv == \A l \in Loops : CapOK(l)
<1>1. Init => CapInv
  <2> SUFFICES ASSUME Init, NEW l \in Loops PROVE CapOK(l)
    OBVIOUS
  <2>1. loop[l].round = 0 /\ loop[l].state \in {"none", "pending"} /\ MaxRounds \in Nat \ {0}
    BY LoopAssumption DEF Init, NoRow
  <2>2. \A t \in Threads : th[t].pc = "idle"
    BY DEF Init, Idle
  <2> QED  BY <2>1, <2>2 DEF CapOK, Reviews
<1>2. AloneInv /\ AloneInv' /\ CapInv /\ [Next]_vars => CapInv'
  <2> SUFFICES ASSUME AloneInv, AloneInv', CapInv, [Next]_vars PROVE CapInv'
    OBVIOUS
  <2>1. \A l \in Loops : Ruled(l)
    BY RuledStep DEF Capped, AloneInv, TendingInv
  <2> QED  BY <2>1, CapStep DEF AloneInv, TendingInv
<1>3. CapInv => RoundWithinCap
  BY DEF CapOK, RoundWithinCap
<1>4. Spec => []AloneInv
  BY AloneInvariant DEF Capped
<1> QED  BY <1>1, <1>2, <1>3, <1>4, PTL DEF Spec

-----------------------------------------------------------------------------
(* What a merge ships.                                                       *)

RecordsOnce == \A l \in Loops : \A x, y \in rounds[l] : x.round = y.round => x = y

(* A step records nothing, or a round that has not been recorded.            *)
Records(l, r) ==
  /\ ~Recorded(l, r) /\ RoundFrame(l)
  /\ \E v : rounds'[l] = rounds[l] \union {[round |-> r, verdict |-> v]}

LEMMA AuditRecords ==
  ASSUME IInv, NEW l \in Loops, NEW r, NEW v, Audit(l, r, v)
  PROVE  UNCHANGED rounds \/ Records(l, r)
<1>1. \/ UNCHANGED rounds
      \/ ~Recorded(l, r) /\ rounds' = [rounds EXCEPT ![l] = rounds[l] \union {[round |-> r, verdict |-> v]}]
  BY DEF Audit, RecordRound
<1>2. rounds \in [Loops -> SUBSET [round : Nat, verdict : VerdictOrNone]]
  BY DEF IInv, TypeOK, RoundsOK
<1> QED  BY <1>1, <1>2 DEF Records, RoundFrame

LEMMA RecordsStep ==
  ASSUME IInv, [Next]_vars
  PROVE  UNCHANGED rounds \/ \E l \in Loops : \E r : Records(l, r)
<1> SUFFICES ASSUME ~UNCHANGED rounds PROVE \E l \in Loops : \E r : Records(l, r)
  OBVIOUS
<1>1. ASSUME NEW t \in Threads, Continue(t) PROVE \E l \in Loops : \E r : Records(l, r)
  <2>1. TickDecide(t) \/ SettleReviewing(t) \/ AuditDecision(t) \/ StartDevHandoff(t)
    BY <1>1 DEF Continue, Redrive, AutoRetry, TickAdvance, ClaimStalled, TickNothing, Supersede, CancelOrphan,
                StartReviewRound, DispatchSdlc, WriteRound, Touch, CreateInsert, Develop, ResumeRead,
                RetryDevelop, RetryReview, ReReview, Reenter, OnMergeApproved, AbortGroup, AbortCommit, db
  <2>2. \E v : Audit(th[t].on, th[t].row.round, v)
    BY <2>1 DEF TickDecide, SettleReviewing, AuditDecision, StartDevHandoff
  <2> QED  BY <2>2, AuditRecords, OwnRow
<1>2. ASSUME NEW t \in Threads, NEW l \in Loops, Sweep(t, l) PROVE FALSE
  BY <1>2 DEF Sweep, Tick, db
<1>3. ASSUME NEW t \in Threads, NEW l \in Loops, Request(t, l) PROVE FALSE
  BY <1>3 DEF Request, CreateRead, Start, Tick, DevelopRead, RetryRead, ReReviewRead, MergeRead, AbortRead, db
<1>4. ASSUME NEW i \in Instances, NEW l \in Loops, Background(i, l) PROVE FALSE
  BY <1>4 DEF Background, CoderSettle, StraySettle, ReviewSettle, db
<1>5. ASSUME NEW g \in Groups, NEW n \in 1..Len(iters[g]), IterationSettle(g, n) PROVE FALSE
  BY <1>5 DEF IterationSettle
<1>6. ASSUME NEW l \in Loops, Age(l) PROVE FALSE
  BY <1>6 DEF Age
<1>7. ASSUME NEW i \in Instances, Crash(i) PROVE FALSE
  BY <1>7 DEF Crash
<1> QED  BY <1>1, <1>2, <1>3, <1>4, <1>5, <1>6, <1>7 DEF Next, vars

LEMMA RecordsOnceStep ==
  ASSUME IInv, RecordsOnce, [Next]_vars
  PROVE  RecordsOnce'
<1>1. CASE UNCHANGED rounds
  BY <1>1 DEF RecordsOnce
<1>2. ASSUME NEW l \in Loops, NEW r, Records(l, r) PROVE RecordsOnce'
  BY <1>2 DEF Records, Recorded, RoundFrame, RecordsOnce
<1> QED  BY <1>1, <1>2, RecordsStep

(* A merge call was opened at the gate, of a close-out with a PR.            *)
LEMMA MergeCalls ==
  ASSUME IInv, [Next]_vars, NEW t \in Threads, th'[t].pc = "merge"
  PROVE  \/ th[t].pc = "merge" /\ th'[t].on = th[t].on
         \/ /\ UNCHANGED loop
            /\ loop[th'[t].on].state = "awaiting_merge" /\ loop[th'[t].on].gate # "broken"
<1> DEFINE Goal == \/ th[t].pc = "merge" /\ th'[t].on = th[t].on
                   \/ /\ UNCHANGED loop
                      /\ loop[th'[t].on].state = "awaiting_merge" /\ loop[th'[t].on].gate # "broken"
<1>1. ASSUME NEW s \in Threads, Others(s), s = t => th'[t].pc # "merge" PROVE Goal
  BY <1>1 DEF Others
<1>2. ASSUME NEW s \in Threads, Continue(s) PROVE Goal
  <2>1. th[s].pc # "idle"
    BY <1>2 DEF Continue, Redrive, AutoRetry, TickAdvance, TickDecide, ClaimStalled, TickNothing, Supersede,
                CancelOrphan, StartReviewRound, SettleReviewing, AuditDecision, StartDevHandoff, DispatchSdlc,
                WriteRound, Touch, CreateInsert, Develop, ResumeRead, RetryDevelop, RetryReview, ReReview,
                Reenter, OnMergeApproved, AbortGroup, AbortCommit, At
  <2>2. CallStep(s)
    BY <1>2, ContinueCalls
  <2>3. Others(s) /\ th'[s].pc # "merge"
    BY <2>1, <2>2, ReturnFields DEF CallStep, Proceeds, Stays, Takes, Goes, Resumes, Opens, Ticks
  <2> QED  BY <1>1, <2>3
<1>t. ASSUME NEW s \in Threads, NEW l \in Loops, Tick(s, l) PROVE Goal
  <2> DEFINE call == [Idle EXCEPT !.pc = "tick", !.op = "tick", !.on = l, !.row = loop[l], !.held = TRUE]
  <2>1. th' = [th EXCEPT ![s] = call] /\ call.pc = "tick" /\ th \in [Threads -> Thread]
    BY <1>t, Calls DEF Tick, Idle
  <2> HIDE DEF call
  <2>2. Others(s) /\ th'[s].pc = "tick"
    BY <2>1 DEF Others
  <2> QED  BY <1>1, <2>2
<1>3. ASSUME NEW s \in Threads, NEW l \in Loops, Sweep(s, l) PROVE Goal
  BY <1>t, <1>3 DEF Sweep
<1>4. ASSUME NEW s \in Threads, NEW l \in Loops, Request(s, l) PROVE Goal
  <2>1. ASSUME NEW op, NEW pc, Call(s, op, l, pc), pc # "merge" PROVE Goal
    BY <1>1, <2>1, CallFields
  <2>2. CASE Start(s, l)
    BY <1>t, <2>2 DEF Start
  <2>3. CASE CreateRead(s, l) \/ DevelopRead(s, l) \/ RetryRead(s, l) \/ ReReviewRead(s, l)
    BY <2>1, <2>3 DEF CreateRead, DevelopRead, RetryRead, ReReviewRead
  <2>4. CASE AbortRead(s, l)
    <3>1. Call(s, "cancel", l, "abort") \/ Call(s, "finish", l, "abort")
      BY <2>4 DEF AbortRead
    <3> QED  BY <2>1, <3>1
  <2>5. CASE MergeRead(s, l)
    <3>1. /\ Others(s) /\ UNCHANGED loop
          /\ loop[l].state = "awaiting_merge" /\ loop[l].gate # "broken"
      BY <2>5, CallFields DEF MergeRead, db
    <3>2. th'[s].on = l
      BY <2>5, Calls DEF MergeRead, Call, Idle
    <3> QED  BY <3>1, <3>2 DEF Others
  <2> QED  BY <1>4, <2>2, <2>3, <2>4, <2>5 DEF Request
<1>5. ASSUME NEW i \in Instances, Crash(i) PROVE Goal
  <2>1. th'[t] = IF t[1] = i THEN Idle ELSE th[t]
    BY <1>5 DEF Crash
  <2> QED  BY <2>1 DEF Idle
<1>6. CASE UNCHANGED th
  BY <1>6
<1>7. ASSUME NEW i \in Instances, NEW l \in Loops, Background(i, l) PROVE UNCHANGED th
  BY <1>7 DEF Background, CoderSettle, StraySettle, ReviewSettle
<1>8. ASSUME NEW g \in Groups, NEW n \in 1..Len(iters[g]), IterationSettle(g, n) PROVE UNCHANGED th
  BY <1>8 DEF IterationSettle
<1>9. ASSUME NEW l \in Loops, Age(l) PROVE UNCHANGED th
  BY <1>9 DEF Age
<1> QED  BY <1>2, <1>3, <1>4, <1>5, <1>6, <1>7, <1>8, <1>9 DEF Next, vars

(* With verifyBeforeMerge the gate is left for good, and while it is open    *)
(* for a merge call its close-out keeps its PR.                              *)
MergesHere == \A t \in Threads : th[t].pc = "merge" =>
  /\ loop[th[t].on].state \in {"awaiting_merge", "converged", "cancelled", "stopped"}
  /\ loop[th[t].on].state = "awaiting_merge" => loop[th[t].on].gate # "broken"

(* The records have a verdict for round r, a converged one.                  *)
Converges(records, r) ==
  (\E x \in records : x.round = r) /\ \A x \in records : x.round = r => x.verdict.conv

Confirmed(l) ==
  loop[l].state = "awaiting_merge" /\ loop[l].gate # "broken" => Converges(rounds[l], loop[l].round)

LEMMA GateLeft ==
  ASSUME Vbm, IInv, [Next]_vars, NEW l \in Loops, Ruled(l),
         loop[l].state \in {"awaiting_merge", "converged", "cancelled", "stopped"}
  PROVE  /\ loop'[l].state \in {"awaiting_merge", "converged", "cancelled", "stopped"}
         /\ loop'[l].state = "awaiting_merge" => loop[l].state = "awaiting_merge" /\ loop'[l].gate = loop[l].gate
<1>1. Same(l) \/ Creates(l) \/ Advances(l) \/ Promotes(l)
  BY NextStep DEF RowStep
<1>2. loop'[l].state # "developing"
  BY DEF Ruled, Decides
<1>3. CASE Advances(l)
  <2>1. loop[l].state = "awaiting_merge"
    BY <1>3 DEF Advances, Active
  <2>2. PICK e \in Edges(Vbm, l \in Gated) : e.from = "awaiting_merge" /\ e.to = loop'[l].state
    BY <1>3, <2>1 DEF Advances
  <2>3. e \notin TickEdges(Vbm) /\ e \notin DecideEdges(Vbm)
    BY <2>2 DEF TickEdges, DecideEdges, Edge
  <2>4. e \in MergeEdges(Vbm) => e.to = "converged"
    BY DEF MergeEdges, Edge
  <2>5. e \in CommandEdges(l \in Gated) => e.to \in {"cancelled", "stopped", "developing"}
    <3>1. e \notin {Edge("deciding", "rereview_requested", "building_context"),
                   Edge("throttled", "retry_review", "building_context"),
                   Edge("throttled", "retry_develop", "developing")}
      BY <2>2 DEF Edge
    <3> QED  BY <3>1 DEF CommandEdges, Edge
  <2> QED  BY <1>2, <2>2, <2>3, <2>4, <2>5 DEF Edges
<1>4. CASE Same(l)
  BY <1>4 DEF Same, Ruled, Decides
<1> QED  BY <1>1, <1>2, <1>3, <1>4 DEF Creates, Promotes

LEMMA MergesStep ==
  ASSUME Vbm, IInv, \A l \in Loops : Ruled(l), MergesHere, [Next]_vars
  PROVE  MergesHere'
<1>1. SUFFICES ASSUME NEW t \in Threads, th'[t].pc = "merge"
               PROVE  /\ loop'[th'[t].on].state \in {"awaiting_merge", "converged", "cancelled", "stopped"}
                      /\ loop'[th'[t].on].state = "awaiting_merge" => loop'[th'[t].on].gate # "broken"
  BY DEF MergesHere
<1>2. CASE th[t].pc = "merge" /\ th'[t].on = th[t].on
  BY <1>2, GateLeft, OwnRow DEF MergesHere
<1>3. CASE /\ UNCHANGED loop
           /\ loop[th'[t].on].state = "awaiting_merge" /\ loop[th'[t].on].gate # "broken"
  BY <1>3
<1> QED  BY <1>1, <1>2, <1>3, MergeCalls

(* A row is given a round while it is reviewed or developed.                 *)
LEMMA RoundStays ==
  ASSUME Alone, IInv, IInv', LockInv, ByRunner, TendInv, [Next]_vars, NEW l \in Loops,
         loop[l].state \in {"deciding", "awaiting_merge"}
  PROVE  loop'[l].round = loop[l].round
<1>1. Aside \/ \E t \in Threads, m \in Loops : WorkStep(t, m)
  BY TendStep DEF Alone
<1>2. ASSUME NEW t \in Threads, NEW m \in Loops, WorkStep(t, m) PROVE loop'[l].round = loop[l].round
  <2>1. CASE m # l
    BY <1>2, <2>1, WorkFrame DEF Frame
  <2>2. CASE m = l
    <3>1. SUFFICES ASSUME Writes(t, l) PROVE FALSE
      BY <1>2, <2>2, WorkFrame
    <3>2. Placed(l) /\ Works(t, l) /\ ~HandsOff(th[t])
      BY <3>1 DEF Writes, Works, Reviews, HandsOff, TendInv, Tended, Closed
    <3> QED  BY <3>2 DEF Placed, WorkersPlace
  <2> QED  BY <2>1, <2>2
<1> QED  BY <1>1, <1>2 DEF Aside

LEMMA DecidedConfirmed ==
  ASSUME RunnerMode = TRUE, RecordsOnce, NEW l \in Loops, Current(l), NEW t \in Threads, Decides(t, l),
         loop'[l].state = "awaiting_merge"
  PROVE  Converges(rounds[l], loop[l].round)
<1> DEFINE row == th[t].row  v == VerdictOf(l, row.round)
<1>1. row.round = loop[l].round /\ Recorded(l, row.round) /\ Resolve(l, row) = v
  BY DEF Decides, Current, Resolve
<1>2. v.conv
  <2>1. DecideTo(l, row) = "awaiting_merge"
    BY DEF Decides
  <2> HIDE DEF v
  <2> QED  BY <1>1, <2>1 DEF DecideTo, Decide
<1>3. \A x \in rounds[l] : x.round = row.round => x.verdict = v
  BY DEF RecordsOnce, VerdictOf
<1> HIDE DEF v
<1> QED  BY <1>1, <1>2, <1>3 DEF Converges, Recorded

LEMMA ConfirmedStep ==
  ASSUME Alone, Vbm, IInv, IInv', LockInv, ByRunner, TendInv, RecordsOnce, [Next]_vars,
         NEW l \in Loops, Current(l), Ruled(l), Confirmed(l)
  PROVE  Confirmed(l)'
<1> SUFFICES ASSUME loop'[l].state = "awaiting_merge", loop'[l].gate # "broken"
             PROVE  Converges(rounds'[l], loop'[l].round)
  BY DEF Confirmed, Converges
<1>1. CASE loop[l].state = "awaiting_merge" /\ loop'[l].gate = loop[l].gate
  <2>1. loop'[l].round = loop[l].round /\ Converges(rounds[l], loop[l].round)
    BY <1>1, RoundStays DEF Confirmed
  <2>2. ASSUME NEW m \in Loops, NEW r, Records(m, r)
        PROVE  Converges(rounds'[l], loop[l].round)
    BY <2>1, <2>2 DEF Records, Recorded, RoundFrame, Converges
  <2> QED  BY <2>1, <2>2, RecordsStep
<1>2. ASSUME NEW t \in Threads, Decides(t, l)
      PROVE  Converges(rounds'[l], loop'[l].round)
  <2>1. loop'[l].round = loop[l].round /\ UNCHANGED rounds
    BY <1>2, RoundStays DEF Decides
  <2> QED  BY <1>2, <2>1, DecidedConfirmed DEF Alone, Tending
<1> QED  BY <1>1, <1>2 DEF Ruled

(* With verifyBeforeMerge the human merge ships only what a confirmation     *)
(* review has converged on: no stale tick, re-review or merge request gets   *)
(* past the gate with another round's verdict or a close-out without a PR.   *)
THEOREM ShipsConfirmed == ASSUME Alone PROVE Spec => ShippedWasConfirmed
<1> DEFINE ShipInv == RecordsOnce /\ (Vbm => MergesHere /\ \A l \in Loops : Confirmed(l))
<1>1. Init => ShipInv
  <2> SUFFICES ASSUME Init PROVE ShipInv
    OBVIOUS
  <2>1. \A l \in Loops : loop[l].state \in {"none", "pending"} /\ rounds[l] = {}
    BY DEF Init, NoRow
  <2>2. \A t \in Threads : th[t].pc = "idle"
    BY DEF Init, Idle
  <2> QED  BY <2>1, <2>2 DEF RecordsOnce, MergesHere, Confirmed
<1>2. AloneInv /\ [Next]_vars => \A l \in Loops : Ruled(l)
  BY RuledStep DEF AloneInv, TendingInv
<1>3. AloneInv /\ AloneInv' /\ ShipInv /\ [Next]_vars => ShipInv'
  <2> SUFFICES ASSUME AloneInv, AloneInv', ShipInv, [Next]_vars PROVE ShipInv'
    OBVIOUS
  <2>1. RecordsOnce'
    BY RecordsOnceStep DEF AloneInv, TendingInv
  <2>2. ASSUME Vbm PROVE MergesHere' /\ (\A l \in Loops : Confirmed(l))'
    BY <1>2, <2>2, MergesStep, ConfirmedStep DEF AloneInv, TendingInv
  <2> QED  BY <2>1, <2>2
<1>4. AloneInv /\ ShipInv /\ [Next]_vars =>
        \A l \in Loops : Vbm /\ loop[l].state = "awaiting_merge" /\ loop'[l].state = "converged" =>
          Recorded(l, loop[l].round) /\ VerdictOf(l, loop[l].round).conv
  <2> SUFFICES ASSUME AloneInv, ShipInv, [Next]_vars, NEW l \in Loops, Vbm, loop[l].state = "awaiting_merge",
                      loop'[l].state = "converged"
               PROVE  Recorded(l, loop[l].round) /\ VerdictOf(l, loop[l].round).conv
    OBVIOUS
  <2>1. PICK t \in Threads : th[t].pc = "merge" /\ th[t].on = l
    BY <1>2 DEF Ruled
  <2>2. loop[l].gate # "broken"
    BY <2>1 DEF MergesHere
  <2>3. Converges(rounds[l], loop[l].round)
    BY <2>2 DEF Confirmed
  <2> QED  BY <2>3 DEF Converges, Recorded, VerdictOf
<1>5. Spec => []AloneInv
  BY AloneInvariant
<1> QED  BY <1>1, <1>3, <1>4, <1>5, PTL DEF Spec, ShippedWasConfirmed
=============================================================================
