--------------------------- MODULE LogStreamProofs ---------------------------
(***************************************************************************)
(* Proofs about LogStream, for any readers, clients, lines and replay      *)
(* limit. StreamIsWhole is not inductive: Feed says where a line is that   *)
(* an attached client has not been sent yet (in its queue, or between its  *)
(* append and its broadcast), Marks that an end mark is the last thing in  *)
(* a queue and comes when the streams have been closed, Fresh what holds   *)
(* of a client up to its registration, and Places how the lock, the row    *)
(* and the buffer go with the runner's and the clients' places.            *)
(***************************************************************************)
EXTENDS LogStream, TLAPS

Events == Nat \cup {Verdict, EndMark}
Steps  == {"none", "created", "open", "exit", "write", "tell", "close", "done"}
In(q)  == {q[i] : i \in 1..Len(q)}

TypeOK ==
  /\ row \in {"none", "running", "final"} /\ run \in Steps
  /\ kept \in Nat /\ lines \in Nat /\ writing \in [Writers -> Nat] /\ reading \subseteq Readers
  /\ lock \in Clients \cup {Nobody} /\ subs \subseteq Clients
  /\ queue \in [Clients -> Seq(Events)]
  /\ pc \in [Clients -> {"off", "replay", "check", "live", "closed"}]
  /\ next \in [Clients -> Nat] /\ skipped \in [Clients -> Nat]
  /\ got \in [Clients -> SUBSET Events]
  /\ early \subseteq Clients /\ gone \subseteq Clients /\ late \subseteq Nat

Places ==
  /\ row = "final" <=> run \in {"tell", "close", "done"}
  /\ row = "none" <=> run = "none"
  /\ run = "none" => lock = Nobody
  /\ run \in {"none", "created"} => lines = 0 /\ reading = {}
  /\ run # "done" => kept = lines
  /\ \A c \in Clients : pc[c] = "replay" <=> lock = c

Attached(c) == pc[c] \in {"check", "live"}

Fresh(c) ==
  /\ pc[c] \in {"off", "replay"} => queue[c] = <<>> /\ got[c] \subseteq Nat /\ c \notin subs
  /\ pc[c] = "replay" => (skipped[c] + 1)..(next[c] - 1) \subseteq got[c]
  /\ Attached(c) /\ run \in {"none", "created"} => c \in early

Marks(c) ==
  /\ \A i \in 1..Len(queue[c]) : queue[c][i] = EndMark => i = Len(queue[c])
  /\ EndMark \in In(queue[c]) => run = "done" /\ Attached(c) /\ c \notin subs
  /\ EndMark \in got[c] => run = "done" /\ pc[c] = "closed"

Feed(c) ==
  c \notin early =>
    /\ Attached(c) => c \in subs \/ EndMark \in In(queue[c])
    /\ Attached(c) /\ (run # "done" \/ EndMark \in In(queue[c]))
         => (skipped[c] + 1)..lines \subseteq got[c] \cup In(queue[c]) \cup Unsaid
    /\ EndMark \in got[c] => (skipped[c] + 1)..lines \subseteq got[c] \cup Unsaid
    /\ pc[c] = "live" /\ run \in {"close", "done"} => Verdict \in got[c] \cup In(queue[c])
    /\ pc[c] = "closed" /\ c \notin gone => Verdict \in got[c]

Stream(c) == Fresh(c) /\ Marks(c) /\ Feed(c)
StreamInv == TypeOK /\ Places /\ \A c \in Clients : Stream(c)

-----------------------------------------------------------------------------
(* What putting an event into a queue, and taking one out, does to its      *)
(* contents.                                                                *)
LEMMA AppendIn ==
  ASSUME NEW q \in Seq(Events), NEW e \in Events
  PROVE  /\ Append(q, e) \in Seq(Events) /\ In(Append(q, e)) = In(q) \cup {e}
         /\ Len(Append(q, e)) = Len(q) + 1
         /\ \A i \in 1..Len(q) : Append(q, e)[i] = q[i]
<1>1. Len(Append(q, e)) = Len(q) + 1 /\ Len(q) \in Nat
  OBVIOUS
<1>2. \A i \in 1..Len(q) : Append(q, e)[i] = q[i]
  OBVIOUS
<1>3. Append(q, e)[Len(q) + 1] = e
  OBVIOUS
<1>4. In(Append(q, e)) = In(q) \cup {e}
  <2>1. ASSUME NEW x \in In(Append(q, e)) PROVE x \in In(q) \cup {e}
    <3>1. PICK i \in 1..(Len(q) + 1) : x = Append(q, e)[i]
      BY <1>1 DEF In
    <3>2. i \in 1..Len(q) \/ i = Len(q) + 1
      BY <1>1
    <3>3. QED
      BY <1>2, <1>3, <3>1, <3>2 DEF In
  <2>2. ASSUME NEW x \in In(q) PROVE x \in In(Append(q, e))
    <3>1. PICK i \in 1..Len(q) : x = q[i]
      BY DEF In
    <3>2. i \in 1..Len(Append(q, e)) /\ x = Append(q, e)[i]
      BY <1>1, <1>2, <3>1
    <3>3. QED
      BY <3>2 DEF In
  <2>3. e \in In(Append(q, e))
    <3>1. Len(q) + 1 \in 1..Len(Append(q, e))
      BY <1>1
    <3>2. QED
      BY <1>3, <3>1 DEF In
  <2>4. QED
    BY <2>1, <2>2, <2>3
<1>5. QED
  BY <1>1, <1>2, <1>4

(* Taking the first event out of a queue leaves the others where they were.  *)
LEMMA TailIn ==
  ASSUME NEW q \in Seq(Events), q # <<>>
  PROVE  /\ Head(q) \in Events /\ Tail(q) \in Seq(Events)
         /\ Len(Tail(q)) = Len(q) - 1 /\ Len(q) \in Nat \ {0}
         /\ \A i \in 1..Len(Tail(q)) : Tail(q)[i] = q[i + 1]
         /\ Head(q) = q[1]
         /\ In(q) = In(Tail(q)) \cup {Head(q)}
<1>1. /\ Head(q) \in Events /\ Tail(q) \in Seq(Events)
      /\ Len(Tail(q)) = Len(q) - 1 /\ Len(q) \in Nat \ {0} /\ Head(q) = q[1]
  OBVIOUS
<1>2. \A i \in 1..Len(Tail(q)) : Tail(q)[i] = q[i + 1]
  OBVIOUS
<1>3. ASSUME NEW x \in In(q) PROVE x \in In(Tail(q)) \cup {Head(q)}
  <2>1. PICK i \in 1..Len(q) : x = q[i]
    BY DEF In
  <2>2. CASE i = 1
    BY <1>1, <2>1, <2>2
  <2>3. CASE i # 1
    <3>1. i - 1 \in 1..Len(Tail(q)) /\ (i - 1) + 1 = i
      BY <1>1, <2>3
    <3>2. x = Tail(q)[i - 1]
      BY <1>2, <2>1, <3>1
    <3>3. QED
      BY <3>1, <3>2 DEF In
  <2>4. QED
    BY <2>2, <2>3
<1>4. ASSUME NEW x \in In(Tail(q)) PROVE x \in In(q)
  <2>1. PICK i \in 1..Len(Tail(q)) : x = Tail(q)[i]
    BY DEF In
  <2>2. i + 1 \in 1..Len(q)
    BY <1>1
  <2>3. QED
    BY <1>2, <2>1, <2>2 DEF In
<1>5. Head(q) \in In(q)
  <2>1. 1 \in 1..Len(q)
    BY <1>1
  <2>2. QED
    BY <1>1, <2>1 DEF In
<1>6. QED
  BY <1>1, <1>2, <1>3, <1>4, <1>5

(* An empty queue holds nothing.                                            *)
LEMMA EmptyIn == In(<<>>) = {} /\ <<>> \in Seq(Events) /\ Len(<<>>) = 0
<1>1. Len(<<>>) = 0 /\ <<>> \in Seq(Events)
  OBVIOUS
<1>2. 1..0 = {}
  OBVIOUS
<1>3. QED
  BY <1>1, <1>2 DEF In

(* What _broadcast does to the queues. *)
LEMMA PutAllPuts ==
  ASSUME TypeOK, NEW e \in Events, PutAll(e)
  PROVE  /\ queue' \in [Clients -> Seq(Events)]
         /\ \A c \in Clients :
              IF c \in subs /\ pc[c] # "closed"
                THEN /\ In(queue'[c]) = In(queue[c]) \cup {e}
                     /\ queue'[c] = Append(queue[c], e)
                     /\ Len(queue'[c]) = Len(queue[c]) + 1
                     /\ \A i \in 1..Len(queue[c]) : queue'[c][i] = queue[c][i]
                ELSE queue'[c] = queue[c]
<1>1. \A c \in Clients : queue[c] \in Seq(Events)
  BY DEF TypeOK
<1>2. \A c \in Clients : queue'[c] = IF c \in subs /\ pc[c] # "closed"
                                     THEN Append(queue[c], e) ELSE queue[c]
  BY DEF PutAll
<1>3. \A c \in Clients : queue'[c] \in Seq(Events)
  BY <1>1, <1>2, AppendIn
<1>4. queue' \in [Clients -> Seq(Events)]
  BY <1>3 DEF PutAll
<1>5. ASSUME NEW c \in Clients, c \in subs, pc[c] # "closed"
      PROVE  /\ In(queue'[c]) = In(queue[c]) \cup {e}
             /\ queue'[c] = Append(queue[c], e)
             /\ Len(queue'[c]) = Len(queue[c]) + 1
             /\ \A i \in 1..Len(queue[c]) : queue'[c][i] = queue[c][i]
  <2>1. queue'[c] = Append(queue[c], e) /\ queue[c] \in Seq(Events)
    BY <1>1, <1>2, <1>5
  <2>2. QED
    BY <2>1, AppendIn
<1>6. QED
  BY <1>2, <1>4, <1>5

-----------------------------------------------------------------------------
(* Nothing has been said, and nobody listens.                               *)
LEMMA StreamInit == Init => StreamInv
<1> SUFFICES ASSUME Init PROVE StreamInv
  OBVIOUS
<1> USE DEF Init
<1>1. TypeOK
  <2>1. writing \in [Writers -> Nat]
    OBVIOUS
  <2>2. queue \in [Clients -> Seq(Events)]
    BY EmptyIn
  <2>3. QED
    BY <2>1, <2>2 DEF TypeOK, Steps
<1>2. Places
  BY StreamAssumption DEF Places
<1>3. ASSUME NEW c \in Clients PROVE Stream(c)
  <2>1. /\ pc[c] = "off" /\ queue[c] = <<>> /\ got[c] = {} /\ In(queue[c]) = {}
        /\ Len(queue[c]) = 0
    BY EmptyIn
  <2>2. QED
    BY <2>1 DEF Stream, Fresh, Marks, Feed, Attached
<1>4. QED
  BY <1>1, <1>2, <1>3 DEF StreamInv

Same(c) ==
  /\ queue'[c] = queue[c] /\ pc'[c] = pc[c] /\ got'[c] = got[c] /\ skipped'[c] = skipped[c]
  /\ next'[c] = next[c] /\ (c \in subs' <=> c \in subs) /\ (c \in early' <=> c \in early)
  /\ (c \in gone' <=> c \in gone)

(* A step that changes nothing of a stream, and moves the runner between    *)
(* two places that the stream does not tell apart.                          *)
LEMMA StreamUntouched ==
  ASSUME NEW c \in Clients, Stream(c),
         Same(c), Unsaid \subseteq Unsaid',
         lines' = lines \/ (lines' \in Nat /\ lines \in Nat /\ lines' = lines + 1 /\ lines' \in Unsaid'),
         run # "done" => (run' # "done" /\ (run' = "close" => run = "close")),
         run = "done" => run' = "done",
         run' \in {"none", "created"} => run \in {"none", "created"},
         TypeOK
  PROVE  Stream(c)'
<1>1. /\ queue'[c] = queue[c] /\ pc'[c] = pc[c] /\ got'[c] = got[c] /\ skipped'[c] = skipped[c]
      /\ next'[c] = next[c] /\ (c \in subs' <=> c \in subs) /\ (c \in early' <=> c \in early)
      /\ (c \in gone' <=> c \in gone)
  BY DEF Same
<1>2. In(queue'[c]) = In(queue[c]) /\ (Attached(c)' <=> Attached(c))
  BY <1>1 DEF Attached
<1>3. Fresh(c)'
  BY <1>1, <1>2 DEF Stream, Fresh
<1>4. Marks(c)'
  BY <1>1, <1>2 DEF Stream, Marks
<1>5. ASSUME NEW X, (skipped[c] + 1)..lines \subseteq X \cup Unsaid
      PROVE  (skipped[c] + 1)..lines' \subseteq X \cup Unsaid'
  <2>1. skipped[c] \in Nat /\ lines \in Nat
    BY DEF TypeOK
  <2>2. CASE lines' = lines
    BY <1>5, <2>2
  <2>3. CASE lines' # lines
    <3>1. lines' = lines + 1 /\ lines' \in Unsaid'
      BY <2>3
    <3>2. \A l \in (skipped[c] + 1)..lines' : l \in (skipped[c] + 1)..lines \/ l = lines'
      BY <2>1, <3>1
    <3>3. QED
      BY <1>5, <3>1, <3>2
  <2>4. QED
    BY <2>2, <2>3
<1>6. Feed(c)'
  <2> SUFFICES ASSUME c \notin early PROVE Feed(c)'
    BY <1>1 DEF Feed
  <2>1. Attached(c) => c \in subs \/ EndMark \in In(queue[c])
    BY DEF Stream, Feed
  <2>2. Attached(c) /\ (run' # "done" \/ EndMark \in In(queue[c]))
         => (skipped[c] + 1)..lines' \subseteq (got[c] \cup In(queue[c])) \cup Unsaid'
    BY <1>5 DEF Stream, Feed
  <2>3. EndMark \in got[c] => (skipped[c] + 1)..lines' \subseteq got[c] \cup Unsaid'
    BY <1>5 DEF Stream, Feed
  <2>4. pc[c] = "live" /\ run' \in {"close", "done"} => Verdict \in got[c] \cup In(queue[c])
    BY DEF Stream, Feed
  <2>5. pc[c] = "closed" /\ c \notin gone => Verdict \in got[c]
    BY DEF Stream, Feed
  <2>6. QED
    BY <1>1, <1>2, <2>1, <2>2, <2>3, <2>4, <2>5 DEF Feed
<1>7. QED
  BY <1>3, <1>4, <1>6 DEF Stream

(* append_log's first half: the new line is what its thread has to say.    *)
LEMMA LineAppended ==
  ASSUME TypeOK, NEW w \in Writers, AppendLine(w), UNCHANGED late
  PROVE  /\ lines' = lines + 1 /\ lines' \in Nat /\ lines \in Nat /\ kept' \in Nat
         /\ writing' \in [Writers -> Nat]
         /\ Unsaid \subseteq Unsaid' /\ lines' \in Unsaid'
<1>1. /\ lines' = lines + 1 /\ lines' \in Nat /\ lines \in Nat /\ kept' \in Nat
      /\ writing' \in [Writers -> Nat] /\ writing'[w] = lines' /\ lines' # 0
  BY DEF TypeOK, AppendLine
<1>2. \A v \in Writers : v # w => writing'[v] = writing[v]
  BY DEF TypeOK, AppendLine
<1>3. lines' \in Unsaid'
  BY <1>1 DEF Unsaid
<1>4. ASSUME NEW l \in Unsaid PROVE l \in Unsaid'
  <2>1. CASE l \in late
    BY <2>1 DEF Unsaid
  <2>2. CASE l \notin late
    <3>1. PICK v \in Writers : l = writing[v] /\ l # 0
      BY <1>4, <2>2 DEF Unsaid
    <3>2. v # w
      BY <3>1 DEF AppendLine
    <3>3. QED
      BY <1>2, <3>1, <3>2 DEF Unsaid
  <2>3. QED
    BY <2>1, <2>2
<1>5. QED
  BY <1>1, <1>3, <1>4

(* The runner's and the readers' steps that reach no stream.                *)
LEMMA QuietStep ==
  ASSUME StreamInv,
         CreateRow \/ ProcessEnds \/ Finish \/ WriteRow \/ \E r \in Readers : ReadPipe(r)
  PROVE  StreamInv'
<1>0. TypeOK /\ Places /\ \A c \in Clients : Stream(c)
  BY DEF StreamInv
<1>1. CASE CreateRow
  <2>1. TypeOK' /\ Places'
    BY <1>0, <1>1 DEF CreateRow, TypeOK, Places, Steps, lineVars, clientVars
  <2>2. Unsaid' = Unsaid /\ \A c \in Clients : Same(c)
    BY <1>1 DEF CreateRow, Unsaid, Same, lineVars, clientVars
  <2>3. \A c \in Clients : Stream(c)'
    BY <1>0, <1>1, <2>2, StreamUntouched DEF CreateRow, lineVars
  <2>4. QED
    BY <2>1, <2>3 DEF StreamInv
<1>2. CASE ProcessEnds
  <2>1. Runner \in Writers
    BY DEF Writers
  <2>2. /\ lines' = lines + 1 /\ lines' \in Nat /\ lines \in Nat /\ kept' \in Nat
        /\ writing' \in [Writers -> Nat] /\ Unsaid \subseteq Unsaid' /\ lines' \in Unsaid'
    BY <1>0, <1>2, <2>1, LineAppended DEF ProcessEnds
  <2>3. TypeOK'
    BY <1>0, <1>2, <2>2 DEF ProcessEnds, TypeOK, Steps, clientVars
  <2>4. Places'
    BY <1>0, <1>2, <2>2 DEF ProcessEnds, Places, clientVars, AppendLine
  <2>5. \A c \in Clients : Same(c)
    BY <1>2 DEF ProcessEnds, Same, clientVars
  <2>6. \A c \in Clients : Stream(c)'
    BY <1>0, <1>2, <2>2, <2>5, StreamUntouched DEF ProcessEnds
  <2>7. QED
    BY <2>3, <2>4, <2>6 DEF StreamInv
<1>3. CASE Finish
  <2>1. TypeOK' /\ Places'
    BY <1>0, <1>3 DEF Finish, TypeOK, Places, Steps, lineVars, clientVars
  <2>2. Unsaid' = Unsaid /\ \A c \in Clients : Same(c)
    BY <1>3 DEF Finish, Unsaid, Same, lineVars, clientVars
  <2>3. \A c \in Clients : Stream(c)'
    BY <1>0, <1>3, <2>2, StreamUntouched DEF Finish, lineVars
  <2>4. QED
    BY <2>1, <2>3 DEF StreamInv
<1>4. CASE WriteRow
  <2>1. TypeOK' /\ Places'
    BY <1>0, <1>4 DEF WriteRow, TypeOK, Places, Steps, lineVars, clientVars
  <2>2. Unsaid' = Unsaid /\ \A c \in Clients : Same(c)
    BY <1>4 DEF WriteRow, Unsaid, Same, lineVars, clientVars
  <2>3. \A c \in Clients : Stream(c)'
    BY <1>0, <1>4, <2>2, StreamUntouched DEF WriteRow, lineVars
  <2>4. QED
    BY <2>1, <2>3 DEF StreamInv
<1>5. ASSUME NEW r \in Readers, ReadLine(r) PROVE StreamInv'
  <2>1. r \in Writers /\ run # "none" /\ run # "created"
    BY <1>0, <1>5 DEF Writers, ReadLine, Places
  <2>2. /\ lines' = lines + 1 /\ lines' \in Nat /\ lines \in Nat /\ kept' \in Nat
        /\ writing' \in [Writers -> Nat] /\ Unsaid \subseteq Unsaid' /\ lines' \in Unsaid'
    BY <1>0, <1>5, <2>1, LineAppended DEF ReadLine
  <2>3. TypeOK'
    BY <1>0, <1>5, <2>2 DEF ReadLine, TypeOK, clientVars, runVars
  <2>4. Places'
    BY <1>0, <1>5, <2>1, <2>2 DEF ReadLine, Places, clientVars, runVars, AppendLine
  <2>5. \A c \in Clients : Same(c)
    BY <1>5 DEF ReadLine, Same, clientVars
  <2>6. \A c \in Clients : Stream(c)'
    BY <1>0, <1>5, <2>2, <2>5, StreamUntouched DEF ReadLine, runVars
  <2>7. QED
    BY <2>3, <2>4, <2>6 DEF StreamInv
<1>6. ASSUME NEW r \in Readers, ReadEnd(r) PROVE StreamInv'
  <2>1. TypeOK' /\ Places'
    BY <1>0, <1>6 DEF ReadEnd, TypeOK, Places, runVars, clientVars
  <2>2. Unsaid' = Unsaid /\ \A c \in Clients : Same(c)
    BY <1>6 DEF ReadEnd, Unsaid, Same, clientVars
  <2>3. \A c \in Clients : Stream(c)'
    BY <1>0, <1>6, <2>2, StreamUntouched DEF ReadEnd, runVars
  <2>4. QED
    BY <2>1, <2>3 DEF StreamInv
<1>7. QED
  BY <1>1, <1>2, <1>3, <1>4, <1>5, <1>6 DEF ReadPipe

(* start_execution's entries: who registered before them is exempt.         *)
LEMMA OpenBufferStep == ASSUME StreamInv, OpenBuffer PROVE StreamInv'
<1>0. TypeOK /\ Places /\ \A c \in Clients : Stream(c)
  BY DEF StreamInv
<1>1. TypeOK' /\ Places'
  BY <1>0 DEF OpenBuffer, TypeOK, Places, Steps, clientVars
<1>2. ASSUME NEW c \in Clients PROVE Stream(c)'
  <2>1. /\ queue'[c] = queue[c] /\ pc'[c] = pc[c] /\ got'[c] = got[c] /\ skipped'[c] = skipped[c]
        /\ next'[c] = next[c] /\ subs' = {} /\ early' = early /\ gone' = gone
        /\ run = "created" /\ run' = "open"
    BY DEF OpenBuffer, clientVars
  <2>2. In(queue'[c]) = In(queue[c]) /\ (Attached(c)' <=> Attached(c))
    BY <2>1 DEF Attached
  <2>3. Fresh(c) /\ Marks(c) /\ Feed(c)
    BY <1>0 DEF Stream
  <2>4. Fresh(c)' /\ Marks(c)'
    BY <2>1, <2>2, <2>3 DEF Fresh, Marks
  <2>5. Feed(c)'
    BY <2>1, <2>2, <2>3 DEF Fresh, Marks, Feed, Attached
  <2>6. QED
    BY <2>4, <2>5 DEF Stream
<1>3. QED
  BY <1>1, <1>2 DEF StreamInv

(* A thread says its line: to every registered client, or too late.         *)
LEMMA SayStep == ASSUME StreamInv, NEW w \in Writers, Say(w) PROVE StreamInv'
<1> DEFINE l == writing[w]
<1>0. TypeOK /\ Places /\ \A c \in Clients : Stream(c)
  BY DEF StreamInv
<1>1. l \in Events /\ l \in Nat /\ l # EndMark
  BY <1>0, StreamAssumption DEF TypeOK, Events
<1>2. PutAll(l)
  BY DEF Say, Broadcast
<1>3. /\ queue' \in [Clients -> Seq(Events)]
      /\ \A c \in Clients :
           IF c \in subs /\ pc[c] # "closed"
             THEN /\ In(queue'[c]) = In(queue[c]) \cup {l}
                  /\ queue'[c] = Append(queue[c], l)
                  /\ Len(queue'[c]) = Len(queue[c]) + 1
                  /\ \A i \in 1..Len(queue[c]) : queue'[c][i] = queue[c][i]
             ELSE queue'[c] = queue[c]
  BY <1>0, <1>1, <1>2, PutAllPuts
<1>4. TypeOK' /\ Places'
  BY <1>0, <1>1, <1>3 DEF Say, Broadcast, TypeOK, Places, runVars, clientVars
<1>5. Unsaid \subseteq Unsaid' \cup {l} /\ (run = "done" => Unsaid \subseteq Unsaid')
  <2>1. \A v \in Writers : v # w => writing'[v] = writing[v]
    BY <1>0 DEF Say, Broadcast, TypeOK
  <2>2. late \subseteq late' /\ (run = "done" => l \in late')
    BY DEF Say, Broadcast
  <2>3. ASSUME NEW x \in Unsaid, x # l PROVE x \in Unsaid'
    <3>1. CASE x \in late
      BY <2>2, <3>1 DEF Unsaid
    <3>2. CASE x \notin late
      <4>1. PICK v \in Writers : x = writing[v] /\ x # 0
        BY <2>3, <3>2 DEF Unsaid
      <4>2. v # w
        BY <2>3, <4>1
      <4>3. QED
        BY <2>1, <4>1, <4>2 DEF Unsaid
    <3>3. QED
      BY <3>1, <3>2
  <2>4. run = "done" => l \in Unsaid'
    BY <2>2 DEF Unsaid
  <2>5. QED
    BY <2>3, <2>4
<1>6. ASSUME NEW c \in Clients PROVE Stream(c)'
  <2> HIDE DEF l
  <2>1. /\ pc'[c] = pc[c] /\ got'[c] = got[c] /\ skipped'[c] = skipped[c] /\ next'[c] = next[c]
        /\ subs' = subs /\ early' = early /\ gone' = gone /\ run' = run /\ lines' = lines
    BY DEF Say, Broadcast, clientVars, runVars
  <2>2. Attached(c)' <=> Attached(c)
    BY <2>1 DEF Attached
  <2>3. Fresh(c) /\ Marks(c) /\ Feed(c)
    BY <1>0 DEF Stream
  <2>4. CASE c \in subs /\ pc[c] # "closed"
    <3>1. In(queue'[c]) = In(queue[c]) \cup {l} /\ EndMark \notin In(queue[c])
      BY <1>3, <2>3, <2>4 DEF Marks
    <3>2. EndMark \notin In(queue'[c])
      BY <1>1, <3>1
    <3>3. Attached(c)
      BY <1>0, <2>3, <2>4 DEF Fresh, Attached, TypeOK
    <3>4. Fresh(c)'
      BY <2>1, <2>2, <2>3, <3>3 DEF Fresh, Attached
    <3>5. Marks(c)'
      BY <2>1, <2>2, <2>3, <3>2 DEF Marks, In
    <3>6. Feed(c)'
      BY <1>5, <2>1, <2>2, <2>3, <2>4, <3>1, <3>2 DEF Feed, Marks
    <3>7. QED
      BY <3>4, <3>5, <3>6 DEF Stream
  <2>5. CASE ~(c \in subs /\ pc[c] # "closed")
    <3>1. queue'[c] = queue[c] /\ In(queue'[c]) = In(queue[c])
      BY <1>3, <2>5
    <3>2. Fresh(c)' /\ Marks(c)'
      BY <2>1, <2>2, <2>3, <3>1 DEF Fresh, Marks
    <3>3. Attached(c) /\ c \notin early => run = "done" /\ EndMark \in In(queue[c])
      BY <2>3, <2>5 DEF Feed, Marks, Attached
    <3>4. EndMark \in got[c] => run = "done"
      BY <2>3 DEF Marks
    <3>5. Feed(c)'
      BY <1>5, <2>1, <2>2, <2>3, <3>1, <3>3, <3>4 DEF Feed
    <3>6. QED
      BY <3>2, <3>5 DEF Stream
  <2>6. QED
    BY <2>4, <2>5
<1>7. QED
  BY <1>4, <1>6 DEF StreamInv

(* The verdict reaches every queue that is listed.                          *)
LEMMA TellVerdictStep == ASSUME StreamInv, TellVerdict PROVE StreamInv'
<1>0. TypeOK /\ Places /\ \A c \in Clients : Stream(c)
  BY DEF StreamInv
<1>1. Verdict \in Events /\ Verdict # EndMark
  BY StreamAssumption DEF Events
<1>2. PutAll(Verdict) /\ run = "tell" /\ run' = "close"
  BY DEF TellVerdict
<1>3. /\ queue' \in [Clients -> Seq(Events)]
      /\ \A c \in Clients :
           IF c \in subs /\ pc[c] # "closed"
             THEN /\ In(queue'[c]) = In(queue[c]) \cup {Verdict}
                  /\ queue'[c] = Append(queue[c], Verdict)
                  /\ Len(queue'[c]) = Len(queue[c]) + 1
                  /\ \A i \in 1..Len(queue[c]) : queue'[c][i] = queue[c][i]
             ELSE queue'[c] = queue[c]
  BY <1>0, <1>1, <1>2, PutAllPuts
<1>4. TypeOK' /\ Places'
  BY <1>0, <1>3 DEF TellVerdict, TypeOK, Places, Steps, lineVars, clientVars
<1>5. Unsaid' = Unsaid /\ lines' = lines
  BY DEF TellVerdict, Unsaid, lineVars
<1>6. ASSUME NEW c \in Clients PROVE Stream(c)'
  <2>1. /\ pc'[c] = pc[c] /\ got'[c] = got[c] /\ skipped'[c] = skipped[c] /\ next'[c] = next[c]
        /\ subs' = subs /\ early' = early /\ gone' = gone
    BY DEF TellVerdict, clientVars
  <2>2. Attached(c)' <=> Attached(c)
    BY <2>1 DEF Attached
  <2>3. Fresh(c) /\ Marks(c) /\ Feed(c)
    BY <1>0 DEF Stream
  <2>4. EndMark \notin In(queue[c]) /\ EndMark \notin got[c]
    BY <1>2, <2>3 DEF Marks
  <2>5. CASE c \in subs /\ pc[c] # "closed"
    <3>1. In(queue'[c]) = In(queue[c]) \cup {Verdict}
      BY <1>3, <2>5
    <3>2. EndMark \notin In(queue'[c])
      BY <1>1, <2>4, <3>1
    <3>3. Attached(c)
      BY <1>0, <2>3, <2>5 DEF Fresh, Attached, TypeOK
    <3>4. Fresh(c)' /\ Marks(c)'
      BY <1>2, <2>1, <2>2, <2>3, <2>4, <3>2, <3>3 DEF Fresh, Attached, Marks, In
    <3>5. Feed(c)'
      BY <1>2, <1>5, <2>1, <2>2, <2>3, <2>4, <2>5, <3>1, <3>2 DEF Feed
    <3>6. QED
      BY <3>4, <3>5 DEF Stream
  <2>6. CASE ~(c \in subs /\ pc[c] # "closed")
    <3>1. queue'[c] = queue[c] /\ In(queue'[c]) = In(queue[c])
      BY <1>3, <2>6
    <3>2. Fresh(c)' /\ Marks(c)'
      BY <1>2, <2>1, <2>2, <2>3, <2>4, <3>1 DEF Fresh, Marks
    <3>3. c \notin early => ~Attached(c)
      BY <2>3, <2>4, <2>6 DEF Feed, Attached
    <3>4. Feed(c)'
      BY <1>5, <2>1, <2>2, <2>3, <2>4, <3>1, <3>3 DEF Feed, Attached
    <3>5. QED
      BY <3>2, <3>4 DEF Stream
  <2>7. QED
    BY <2>5, <2>6
<1>7. QED
  BY <1>4, <1>6 DEF StreamInv

(* So does the end mark, after it, and the list is thrown away.             *)
LEMMA CloseStreamsStep == ASSUME StreamInv, CloseStreams PROVE StreamInv'
<1>0. TypeOK /\ Places /\ \A c \in Clients : Stream(c)
  BY DEF StreamInv
<1>1. EndMark \in Events
  BY DEF Events
<1>2. PutAll(EndMark) /\ run = "close" /\ run' = "done" /\ subs' = {}
  BY DEF CloseStreams
<1>3. /\ queue' \in [Clients -> Seq(Events)]
      /\ \A c \in Clients :
           IF c \in subs /\ pc[c] # "closed"
             THEN /\ In(queue'[c]) = In(queue[c]) \cup {EndMark}
                  /\ queue'[c] = Append(queue[c], EndMark)
                  /\ Len(queue'[c]) = Len(queue[c]) + 1
                  /\ \A i \in 1..Len(queue[c]) : queue'[c][i] = queue[c][i]
             ELSE queue'[c] = queue[c]
  BY <1>0, <1>1, <1>2, PutAllPuts
<1>4. TypeOK' /\ Places'
  BY <1>0, <1>3 DEF CloseStreams, TypeOK, Places, Steps, lineVars, clientVars
<1>5. Unsaid' = Unsaid /\ lines' = lines
  BY DEF CloseStreams, Unsaid, lineVars
<1>6. ASSUME NEW c \in Clients PROVE Stream(c)'
  <2>1. /\ pc'[c] = pc[c] /\ got'[c] = got[c] /\ skipped'[c] = skipped[c] /\ next'[c] = next[c]
        /\ early' = early /\ gone' = gone
    BY DEF CloseStreams, clientVars
  <2>2. Attached(c)' <=> Attached(c)
    BY <2>1 DEF Attached
  <2>3. Fresh(c) /\ Marks(c) /\ Feed(c)
    BY <1>0 DEF Stream
  <2>4. EndMark \notin In(queue[c]) /\ EndMark \notin got[c]
    BY <1>2, <2>3 DEF Marks
  <2>5. CASE c \in subs /\ pc[c] # "closed"
    <3>1. In(queue'[c]) = In(queue[c]) \cup {EndMark}
      BY <1>3, <2>5
    <3>2. Attached(c)
      BY <1>0, <2>3, <2>5 DEF Fresh, Attached, TypeOK
    <3>3. Fresh(c)'
      BY <1>2, <2>1, <2>2, <2>3, <3>2 DEF Fresh, Attached
    <3>4. \A i \in 1..Len(queue'[c]) : queue'[c][i] = EndMark => i = Len(queue'[c])
      <4>1. Len(queue[c]) \in Nat /\ Len(queue'[c]) = Len(queue[c]) + 1
        BY <1>0, <1>3, <2>5 DEF TypeOK
      <4>2. \A i \in 1..Len(queue[c]) : queue'[c][i] # EndMark
        BY <1>3, <2>4, <2>5 DEF In
      <4>3. QED
        BY <4>1, <4>2
    <3>5. Marks(c)'
      BY <1>2, <2>1, <2>2, <2>4, <3>2, <3>4 DEF Marks
    <3>6. Feed(c)'
      BY <1>2, <1>5, <2>1, <2>2, <2>3, <2>4, <2>5, <3>1 DEF Feed
    <3>7. QED
      BY <3>3, <3>5, <3>6 DEF Stream
  <2>6. CASE ~(c \in subs /\ pc[c] # "closed")
    <3>1. queue'[c] = queue[c] /\ In(queue'[c]) = In(queue[c])
      BY <1>3, <2>6
    <3>2. Fresh(c)' /\ Marks(c)'
      BY <1>2, <2>1, <2>2, <2>3, <2>4, <3>1 DEF Fresh, Marks
    <3>3. c \notin early => ~Attached(c)
      BY <2>3, <2>4, <2>6 DEF Feed, Attached
    <3>4. Feed(c)'
      BY <1>5, <2>1, <2>2, <2>3, <2>4, <3>1, <3>3 DEF Feed, Attached
    <3>5. QED
      BY <3>2, <3>4 DEF Stream
  <2>7. QED
    BY <2>5, <2>6
<1>7. QED
  BY <1>4, <1>6 DEF StreamInv

-----------------------------------------------------------------------------
(* A client's step is nobody else's.                                        *)
LEMMA OtherStreams ==
  ASSUME StreamInv, NEW c \in Clients, \A d \in Clients \ {c} : Same(d),
         UNCHANGED <<runVars, lineVars, late>>, Stream(c)'
  PROVE  \A d \in Clients : Stream(d)'
<1>1. Unsaid' = Unsaid
  BY DEF Unsaid, lineVars
<1>2. ASSUME NEW d \in Clients \ {c} PROVE Stream(d)'
  BY <1>1, <1>2, StreamUntouched DEF StreamInv, runVars, lineVars
<1>3. QED
  BY <1>2

(* The replay: the client takes the lock, and line after line.              *)
LEMMA ConnectStep == ASSUME StreamInv, NEW c \in Clients, Connect(c) PROVE StreamInv'
<1>0. TypeOK /\ Places /\ Stream(c)
  BY DEF StreamInv
<1>1. PICK from \in Nat : /\ next' = [next EXCEPT ![c] = from + 1]
                          /\ skipped' = [skipped EXCEPT ![c] = from]
  <2> DEFINE f == IF run \in {"created", "done"} THEN kept
                  ELSE IF kept > ReplayLimit THEN kept - ReplayLimit ELSE 0
  <2>1. f \in Nat
    BY <1>0, StreamAssumption DEF TypeOK
  <2>2. next' = [next EXCEPT ![c] = f + 1] /\ skipped' = [skipped EXCEPT ![c] = f]
    BY DEF Connect
  <2> HIDE DEF f
  <2>3. QED
    BY <2>1, <2>2
<1>2. TypeOK'
  BY <1>0, <1>1 DEF Connect, TypeOK, runVars, lineVars
<1>3. Places'
  <2>1. /\ row # "none" /\ lock = Nobody /\ lock' = c /\ pc' = [pc EXCEPT ![c] = "replay"]
        /\ UNCHANGED <<runVars, lineVars>>
    BY DEF Connect, Free
  <2>2. ASSUME NEW d \in Clients PROVE pc'[d] = "replay" <=> d = c
    <3>1. pc[d] # "replay"
      BY <1>0, <2>1, StreamAssumption DEF Places
    <3>2. QED
      BY <1>0, <2>1, <3>1 DEF TypeOK
  <2>3. QED
    BY <1>0, <2>1, <2>2 DEF Places, runVars, lineVars
<1>4. \A d \in Clients \ {c} : Same(d)
  BY <1>0, <1>1 DEF Connect, Same, TypeOK
<1>5. Stream(c)'
  <2>1. /\ pc[c] = "off" /\ pc'[c] = "replay" /\ next'[c] = from + 1 /\ skipped'[c] = from
        /\ UNCHANGED <<runVars, lineVars, subs, queue, got, early, gone, late>>
    BY <1>0, <1>1 DEF Connect, TypeOK
  <2>2. (from + 1)..((from + 1) - 1) = {}
    OBVIOUS
  <2>3. Fresh(c)'
    BY <1>0, <2>1, <2>2 DEF Stream, Fresh, Attached
  <2>4. queue[c] = <<>> /\ EndMark \notin got[c] /\ In(queue[c]) = {} /\ Len(queue[c]) = 0
    BY <1>0, <2>1, EmptyIn, StreamAssumption DEF Stream, Fresh
  <2>5. Marks(c)' /\ Feed(c)'
    BY <2>1, <2>4 DEF Marks, Feed, Attached
  <2>6. QED
    BY <2>3, <2>5 DEF Stream
<1>6. \A d \in Clients : Stream(d)'
  BY <1>4, <1>5, OtherStreams DEF Connect
<1>7. QED
  BY <1>2, <1>3, <1>6 DEF StreamInv

(* Each line that the replay yields fills up what it owes.                  *)
LEMMA ReplayLineStep == ASSUME StreamInv, NEW c \in Clients, ReplayLine(c) PROVE StreamInv'
<1>0. TypeOK /\ Places /\ Stream(c)
  BY DEF StreamInv
<1>1. /\ pc[c] = "replay" /\ next[c] \in Nat /\ skipped[c] \in Nat
      /\ got'[c] = got[c] \cup {next[c]} /\ next'[c] = next[c] + 1
      /\ UNCHANGED <<runVars, lineVars, lock, subs, queue, pc, skipped, early, gone, late>>
  BY <1>0 DEF ReplayLine, TypeOK
<1>2. TypeOK' /\ Places'
  BY <1>0, <1>1 DEF ReplayLine, TypeOK, Places, Events, runVars, lineVars
<1>3. \A d \in Clients \ {c} : Same(d)
  BY <1>0 DEF ReplayLine, Same, TypeOK
<1>4. Stream(c)'
  <2>1. (skipped[c] + 1)..(next[c] - 1) \subseteq got[c] /\ got[c] \subseteq Nat
        /\ queue[c] = <<>> /\ c \notin subs
    BY <1>0, <1>1 DEF Stream, Fresh
  <2>2. (skipped[c] + 1)..((next[c] + 1) - 1) \subseteq got'[c]
    BY <1>1, <2>1
  <2>3. Fresh(c)'
    BY <1>1, <2>1, <2>2 DEF Fresh, Attached
  <2>4. EndMark \notin got'[c] /\ In(queue[c]) = {} /\ Len(queue[c]) = 0
    BY <1>1, <2>1, EmptyIn, StreamAssumption
  <2>5. Marks(c)' /\ Feed(c)'
    BY <1>1, <2>4 DEF Marks, Feed, Attached
  <2>6. QED
    BY <2>3, <2>5 DEF Stream
<1>5. \A d \in Clients : Stream(d)'
  BY <1>1, <1>3, <1>4, OtherStreams
<1>6. QED
  BY <1>2, <1>5 DEF StreamInv

(* The replay has yielded all that is kept: from here on it is the queue    *)
(* that brings the lines, and what is appended already is still unsaid.     *)
LEMMA RegisterStep == ASSUME StreamInv, NEW c \in Clients, Register(c) PROVE StreamInv'
<1>0. TypeOK /\ Places /\ Stream(c)
  BY DEF StreamInv
<1>1. /\ pc[c] = "replay" /\ ~(next[c] <= kept) /\ next[c] \in Nat /\ kept \in Nat
      /\ subs' = subs \cup {c} /\ lock' = Nobody /\ pc' = [pc EXCEPT ![c] = "check"]
      /\ early' = IF run = "created" THEN early \cup {c} ELSE early
      /\ next' = [next EXCEPT ![c] = 1]
      /\ UNCHANGED <<runVars, lineVars, queue, got, skipped, gone, late>>
  BY <1>0 DEF Register, Replayed, TypeOK
<1>2. TypeOK'
  BY <1>0, <1>1 DEF TypeOK, runVars, lineVars
<1>3. Places'
  <2>1. lock = c
    BY <1>0, <1>1 DEF Places
  <2>2. ASSUME NEW d \in Clients PROVE pc'[d] = "replay" <=> lock' = d
    <3>1. pc[d] = "replay" <=> d = c
      BY <1>0, <2>1 DEF Places
    <3>2. QED
      BY <1>0, <1>1, <3>1, StreamAssumption DEF TypeOK
  <2>3. QED
    BY <1>0, <1>1, <2>2 DEF Places, runVars, lineVars
<1>4. \A d \in Clients \ {c} : Same(d)
  BY <1>0, <1>1 DEF Same, TypeOK
<1>5. Stream(c)'
  <2>1. /\ pc'[c] = "check" /\ c \in subs' /\ queue'[c] = queue[c] /\ got'[c] = got[c]
        /\ skipped'[c] = skipped[c] /\ run' = run /\ lines' = lines /\ kept' = kept
        /\ run = "created" => c \in early'
        /\ Unsaid' = Unsaid
    BY <1>0, <1>1 DEF TypeOK, runVars, lineVars, Unsaid
  <2>2. /\ (skipped[c] + 1)..(next[c] - 1) \subseteq got[c] /\ got[c] \subseteq Nat
        /\ queue[c] = <<>>
    BY <1>0, <1>1 DEF Stream, Fresh
  <2>3. EndMark \notin got[c] /\ In(queue[c]) = {} /\ Len(queue[c]) = 0
    BY <2>2, EmptyIn, StreamAssumption
  <2>4. run # "none"
    <3>1. lock = c
      BY <1>0, <1>1 DEF Places
    <3>2. QED
      BY <1>0, <3>1, StreamAssumption DEF Places
  <2>5. Fresh(c)'
    BY <1>0, <2>1, <2>4 DEF Stream, Fresh, Attached
  <2>6. Marks(c)'
    BY <2>1, <2>3 DEF Marks
  <2>7. run # "done" => (skipped[c] + 1)..lines \subseteq got[c]
    <3>1. run # "done" => kept = lines
      BY <1>0 DEF Places
    <3>2. run # "done" => lines <= next[c] - 1 /\ lines \in Nat /\ skipped[c] \in Nat
      BY <1>0, <1>1, <3>1 DEF TypeOK
    <3>3. run # "done" => \A l \in (skipped[c] + 1)..lines : l \in (skipped[c] + 1)..(next[c] - 1)
      BY <1>1, <3>2
    <3>4. QED
      BY <2>2, <3>3
  <2>8. Feed(c)'
    BY <2>1, <2>3, <2>7 DEF Feed, Attached
  <2>9. QED
    BY <2>5, <2>6, <2>8 DEF Stream
<1>6. \A d \in Clients : Stream(d)'
  BY <1>1, <1>4, <1>5, OtherStreams
<1>7. QED
  BY <1>2, <1>3, <1>6 DEF StreamInv

(* The row is looked at again: a final one ends the stream with its verdict,*)
(* one that is not leaves everything that will be said still to be put in   *)
(* the queue.                                                               *)
LEMMA CheckRowStep == ASSUME StreamInv, NEW c \in Clients, CheckRow(c) PROVE StreamInv'
<1>0. TypeOK /\ Places /\ Stream(c)
  BY DEF StreamInv
<1>1. /\ pc[c] = "check"
      /\ pc' = [pc EXCEPT ![c] = IF row = "final" THEN "closed" ELSE "live"]
      /\ got' = [got EXCEPT ![c] = IF row = "final" THEN @ \cup {Verdict} ELSE @]
      /\ queue' = [queue EXCEPT ![c] = IF row = "final" THEN <<>> ELSE @]
      /\ UNCHANGED <<runVars, lineVars, lock, subs, next, skipped, early, gone, late>>
  BY DEF CheckRow
<1>2. TypeOK'
  BY <1>0, <1>1, EmptyIn DEF TypeOK, Events, runVars, lineVars
<1>3. Places'
  <2>1. \A d \in Clients : pc'[d] = "replay" <=> pc[d] = "replay"
    BY <1>0, <1>1 DEF TypeOK
  <2>2. QED
    BY <1>0, <1>1, <2>1 DEF Places, runVars, lineVars
<1>4. \A d \in Clients \ {c} : Same(d)
  BY <1>0, <1>1 DEF Same, TypeOK
<1>5. Stream(c)'
  <2>1. /\ skipped'[c] = skipped[c] /\ next'[c] = next[c] /\ run' = run /\ lines' = lines
        /\ Unsaid' = Unsaid /\ subs' = subs /\ early' = early /\ gone' = gone
    BY <1>1 DEF runVars, lineVars, Unsaid
  <2>2. Fresh(c) /\ Marks(c) /\ Feed(c)
    BY <1>0 DEF Stream
  <2>3. CASE row = "final"
    <3>1. pc'[c] = "closed" /\ got'[c] = got[c] \cup {Verdict} /\ queue'[c] = <<>>
      BY <1>0, <1>1, <2>3 DEF TypeOK
    <3>2. In(queue'[c]) = {} /\ Len(queue'[c]) = 0
      BY <3>1, EmptyIn
    <3>3. EndMark \notin got[c] /\ EndMark \notin got'[c]
      BY <1>1, <2>2, <3>1, StreamAssumption DEF Marks
    <3>4. Fresh(c)'
      BY <3>1 DEF Fresh, Attached
    <3>5. Marks(c)'
      BY <3>2, <3>3 DEF Marks
    <3>6. Feed(c)'
      BY <3>1, <3>3 DEF Feed, Attached
    <3>7. QED
      BY <3>4, <3>5, <3>6 DEF Stream
  <2>4. CASE row # "final"
    <3>1. pc'[c] = "live" /\ got'[c] = got[c] /\ queue'[c] = queue[c]
      BY <1>0, <1>1, <2>4 DEF TypeOK
    <3>2. Attached(c) /\ Attached(c)' /\ run \notin {"tell", "close", "done"}
          /\ In(queue'[c]) = In(queue[c])
      BY <1>0, <1>1, <2>4, <3>1 DEF Attached, Places
    <3>3. Fresh(c)'
      BY <2>1, <2>2, <3>1, <3>2 DEF Fresh
    <3>4. Marks(c)'
      BY <1>1, <2>1, <2>2, <3>1, <3>2 DEF Marks
    <3>5. Feed(c)'
      BY <2>1, <2>2, <3>1, <3>2 DEF Feed, Marks
    <3>6. QED
      BY <3>3, <3>4, <3>5 DEF Stream
  <2>5. QED
    BY <2>3, <2>4
<1>6. \A d \in Clients : Stream(d)'
  BY <1>1, <1>4, <1>5, OtherStreams
<1>7. QED
  BY <1>2, <1>3, <1>6 DEF StreamInv

(* What was in the queue goes to the client. The end mark comes last, when  *)
(* all else has been sent.                                                  *)
LEMMA ForwardStep == ASSUME StreamInv, NEW c \in Clients, Forward(c) PROVE StreamInv'
<1> DEFINE h == Head(queue[c])
           t == Tail(queue[c])
<1>0. TypeOK /\ Places /\ Stream(c)
  BY DEF StreamInv
<1>1. /\ pc[c] = "live" /\ queue[c] # <<>>
      /\ got' = [got EXCEPT ![c] = @ \cup {h}]
      /\ queue' = [queue EXCEPT ![c] = t]
      /\ pc' = [pc EXCEPT ![c] = IF h = EndMark THEN "closed" ELSE @]
      /\ UNCHANGED <<runVars, lineVars, lock, subs, next, skipped, early, gone, late>>
  BY DEF Forward
<1>2. queue[c] \in Seq(Events)
  BY <1>0 DEF TypeOK
<1>3. /\ h \in Events /\ t \in Seq(Events)
      /\ Len(t) = Len(queue[c]) - 1 /\ Len(queue[c]) \in Nat \ {0}
      /\ \A i \in 1..Len(t) : t[i] = queue[c][i + 1]
      /\ h = queue[c][1]
      /\ In(queue[c]) = In(t) \cup {h}
  BY <1>1, <1>2, TailIn
<1> HIDE DEF h, t
<1>4. TypeOK'
  BY <1>0, <1>1, <1>3 DEF TypeOK, runVars, lineVars
<1>5. Places'
  <2>1. \A d \in Clients : pc'[d] = "replay" <=> pc[d] = "replay"
    BY <1>0, <1>1 DEF TypeOK
  <2>2. QED
    BY <1>0, <1>1, <2>1 DEF Places, runVars, lineVars
<1>6. \A d \in Clients \ {c} : Same(d)
  BY <1>0, <1>1 DEF Same, TypeOK
<1>7. Stream(c)'
  <2>1. /\ skipped'[c] = skipped[c] /\ next'[c] = next[c] /\ run' = run /\ lines' = lines
        /\ Unsaid' = Unsaid /\ subs' = subs /\ early' = early /\ gone' = gone
        /\ got'[c] = got[c] \cup {h} /\ queue'[c] = t
        /\ pc'[c] = IF h = EndMark THEN "closed" ELSE "live"
    BY <1>0, <1>1 DEF TypeOK, runVars, lineVars, Unsaid
  <2>2. Fresh(c) /\ Marks(c) /\ Feed(c) /\ Attached(c)
    BY <1>0, <1>1 DEF Stream, Attached
  <2>3. got'[c] \cup In(queue'[c]) = got[c] \cup In(queue[c])
    BY <1>3, <2>1
  <2>4. EndMark \notin got[c]
    BY <1>1, <2>2 DEF Marks
  <2>5. CASE h = EndMark
    <3>1. Len(queue[c]) = 1 /\ Len(t) = 0
      <4>1. 1 \in 1..Len(queue[c]) /\ queue[c][1] = EndMark
        BY <1>3, <2>5
      <4>2. 1 = Len(queue[c])
        BY <2>2, <4>1 DEF Marks
      <4>3. QED
        BY <1>3, <4>2
    <3>2. 1..0 = {}
      OBVIOUS
    <3>3. In(t) = {}
      BY <3>1, <3>2 DEF In
    <3>4. pc'[c] = "closed" /\ In(queue[c]) = {EndMark} /\ run = "done"
      BY <1>3, <2>1, <2>2, <2>5, <3>3 DEF Marks
    <3>5. Fresh(c)'
      BY <3>4 DEF Fresh, Attached
    <3>6. Marks(c)'
      BY <2>1, <3>1, <3>3, <3>4 DEF Marks
    <3>7. c \notin early => /\ (skipped[c] + 1)..lines \subseteq got'[c] \cup Unsaid
                            /\ Verdict \in got'[c]
      BY <1>1, <2>1, <2>2, <2>5, <3>4, StreamAssumption DEF Feed
    <3>8. Feed(c)'
      BY <2>1, <3>4, <3>7 DEF Feed, Attached
    <3>9. QED
      BY <3>5, <3>6, <3>8 DEF Stream
  <2>6. CASE h # EndMark
    <3>1. pc'[c] = "live" /\ Attached(c)' /\ EndMark \notin got'[c]
      BY <2>1, <2>4, <2>6 DEF Attached
    <3>2. EndMark \in In(t) <=> EndMark \in In(queue[c])
      BY <1>3, <2>6
    <3>3. Fresh(c)'
      BY <2>1, <2>2, <3>1 DEF Fresh
    <3>4. \A i \in 1..Len(t) : t[i] = EndMark => i = Len(t)
      <4>1. \A i \in 1..Len(t) : i + 1 \in 1..Len(queue[c]) /\ t[i] = queue[c][i + 1]
        BY <1>3
      <4>2. \A i \in 1..Len(t) : t[i] = EndMark => i + 1 = Len(queue[c])
        BY <2>2, <4>1 DEF Marks
      <4>3. QED
        BY <1>3, <4>2
    <3>5. Marks(c)'
      BY <2>1, <2>2, <3>1, <3>2, <3>4 DEF Marks
    <3>6. Feed(c)'
      <4>1. In(queue'[c]) = In(t)
        BY <2>1
      <4>2. QED
        BY <1>1, <2>1, <2>2, <2>3, <3>1, <3>2, <4>1 DEF Feed
    <3>7. QED
      BY <3>3, <3>5, <3>6 DEF Stream
  <2>7. QED
    BY <2>5, <2>6
<1>8. \A d \in Clients : Stream(d)'
  BY <1>1, <1>6, <1>7, OtherStreams
<1>9. QED
  BY <1>4, <1>5, <1>8 DEF StreamInv

(* A client that goes away owes nothing and is owed nothing.                *)
LEMMA DisconnectStep == ASSUME StreamInv, NEW c \in Clients, Disconnect(c) PROVE StreamInv'
<1>0. TypeOK /\ Places /\ Stream(c)
  BY DEF StreamInv
<1>1. /\ pc[c] \in {"replay", "live"} /\ pc' = [pc EXCEPT ![c] = "closed"]
      /\ lock' = Nobody \/ lock' = lock
      /\ subs' \subseteq subs /\ \A d \in Clients \ {c} : d \in subs' <=> d \in subs
      /\ gone' = gone \cup {c} /\ queue' = [queue EXCEPT ![c] = <<>>]
      /\ UNCHANGED <<runVars, lineVars, next, got, skipped, early, late>>
  BY DEF Disconnect
<1>2. TypeOK'
  BY <1>0, <1>1, EmptyIn DEF TypeOK, runVars, lineVars
<1>3. Places'
  <2>1. (pc[c] = "replay" /\ lock' = Nobody) \/ (pc[c] = "live" /\ lock' = lock)
    BY DEF Disconnect
  <2>2. ASSUME NEW d \in Clients PROVE pc'[d] = "replay" <=> lock' = d
    <3>1. pc[d] = "replay" <=> lock = d
      BY <1>0 DEF Places
    <3>2. pc[c] = "replay" => lock = c
      BY <1>0 DEF Places
    <3>3. d = c => pc'[d] = "closed"
      BY <1>0, <1>1 DEF TypeOK
    <3>4. d # c => pc'[d] = pc[d]
      BY <1>0, <1>1 DEF TypeOK
    <3>5. QED
      BY <2>1, <3>1, <3>2, <3>3, <3>4, StreamAssumption
  <2>3. run = "none" => lock' = Nobody
    BY <1>0, <1>1 DEF Places
  <2>4. QED
    BY <1>0, <1>1, <2>2, <2>3 DEF Places, runVars, lineVars
<1>4. \A d \in Clients \ {c} : Same(d)
  BY <1>0, <1>1 DEF Same, TypeOK
<1>5. Stream(c)'
  <2>1. /\ pc'[c] = "closed" /\ c \in gone' /\ queue'[c] = <<>> /\ got'[c] = got[c]
    BY <1>0, <1>1 DEF TypeOK
  <2>2. In(queue'[c]) = {} /\ Len(queue'[c]) = 0
    BY <2>1, EmptyIn
  <2>3. EndMark \notin got[c]
    BY <1>0, <1>1 DEF Stream, Marks
  <2>4. QED
    BY <2>1, <2>2, <2>3 DEF Stream, Fresh, Marks, Feed, Attached
<1>6. \A d \in Clients : Stream(d)'
  BY <1>1, <1>4, <1>5, OtherStreams
<1>7. QED
  BY <1>2, <1>3, <1>6 DEF StreamInv

-----------------------------------------------------------------------------
(* Every step of the server and of its clients keeps the invariant.         *)
LEMMA StreamNext == StreamInv /\ [Next]_vars => StreamInv'
<1> SUFFICES ASSUME StreamInv, [Next]_vars PROVE StreamInv'
  OBVIOUS
<1>1. CASE RunnerStep
  BY <1>1, QuietStep, OpenBufferStep, TellVerdictStep, CloseStreamsStep DEF RunnerStep
<1>2. ASSUME NEW w \in Writers, Say(w) PROVE StreamInv'
  BY <1>2, SayStep
<1>3. ASSUME NEW r \in Readers, ReadPipe(r) PROVE StreamInv'
  BY <1>3, QuietStep
<1>4. ASSUME NEW c \in Clients, ClientStep(c) PROVE StreamInv'
  BY <1>4, ConnectStep, ReplayLineStep, RegisterStep, CheckRowStep, ForwardStep DEF ClientStep
<1>5. ASSUME NEW c \in Clients, Disconnect(c) PROVE StreamInv'
  BY <1>5, DisconnectStep
<1>6. CASE UNCHANGED vars
  <2>1. UNCHANGED <<runVars, lineVars, clientVars, lock, subs, queue, late>>
    BY <1>6 DEF vars
  <2>2. TypeOK /\ Places /\ \A c \in Clients : Stream(c)
    BY DEF StreamInv
  <2>3. TypeOK' /\ Places'
    BY <2>1, <2>2 DEF TypeOK, Places, runVars, lineVars, clientVars
  <2>4. Unsaid' = Unsaid /\ \A c \in Clients : Same(c)
    BY <2>1 DEF Unsaid, Same, lineVars, clientVars
  <2>5. \A c \in Clients : Stream(c)'
    BY <2>1, <2>2, <2>4, StreamUntouched DEF runVars, lineVars
  <2>6. QED
    BY <2>3, <2>5 DEF StreamInv
<1>7. QED
  BY <1>1, <1>2, <1>3, <1>4, <1>5, <1>6 DEF Next

(* The invariant of the log stream, for any number of lines and clients.    *)
THEOREM StreamInvariant == Spec => []StreamInv
<1>1. Init => StreamInv
  BY StreamInit
<1>2. StreamInv /\ [Next]_vars => StreamInv'
  BY StreamNext
<1>3. QED
  BY <1>1, <1>2, PTL DEF Spec

(* Type correctness: queues hold lines, the verdict and the end mark.       *)
THEOREM StreamTypeCorrect == Spec => []TypeOK
<1>1. StreamInv => TypeOK
  BY DEF StreamInv
<1>2. QED
  BY <1>1, StreamInvariant, PTL

(* A stream that its client did not break off ends with the verdict, and    *)
(* one that ran to the end mark was sent every line since its replay began, *)
(* but those nobody was sent: whatever the interleaving of subscribe,       *)
(* append_log, _broadcast and finish_execution.                             *)
THEOREM StreamIsWholeHolds == Spec => []StreamIsWhole
<1>1. StreamInv => StreamIsWhole
  BY DEF StreamInv, Stream, Feed, StreamIsWhole
<1>2. QED
  BY <1>1, StreamInvariant, PTL

-----------------------------------------------------------------------------
(* The safe half of StreamsEnd: when the run is done, a stream that is     *)
(* still live, and that start_execution did not detach, has the verdict    *)
(* and the end mark before it. It cannot be left waiting in queue.get.     *)
LiveStreamWillEnd ==
  \A c \in Clients \ early :
    pc[c] = "live" /\ run = "done" =>
      EndMark \in In(queue[c]) /\ Verdict \in got[c] \cup In(queue[c])

(* Who registers after the end reads the final row, and does not go live.  *)
NoneLeftBehind == run = "done" => \A c \in subs : pc[c] # "live"

(* Every step keeps that.                                                  *)
LEMMA NoneLeftBehindStep == StreamInv /\ NoneLeftBehind /\ [Next]_vars => NoneLeftBehind'
<1> SUFFICES ASSUME TypeOK, Places, NoneLeftBehind, [Next]_vars PROVE NoneLeftBehind'
  BY DEF StreamInv
<1> USE DEF NoneLeftBehind
<1>1. CASE RunnerStep
  BY <1>1 DEF RunnerStep, CreateRow, OpenBuffer, ProcessEnds, Finish, WriteRow, TellVerdict,
              CloseStreams
<1>2. ASSUME NEW w \in Writers, Say(w) PROVE NoneLeftBehind'
  BY <1>2 DEF Say, Broadcast, runVars, clientVars
<1>3. ASSUME NEW r \in Readers, ReadPipe(r) PROVE NoneLeftBehind'
  BY <1>3 DEF ReadPipe, ReadLine, ReadEnd, runVars, clientVars
<1>4. ASSUME NEW c \in Clients, ClientStep(c) \/ Disconnect(c) PROVE NoneLeftBehind'
  <2>1. CASE Connect(c) \/ ReplayLine(c) \/ Forward(c) \/ Disconnect(c)
    BY <2>1 DEF Connect, ReplayLine, Forward, Disconnect, TypeOK, runVars
  <2>2. CASE Register(c)
    BY <2>2 DEF Register, TypeOK, runVars
  <2>3. CASE CheckRow(c)
    <3>1. UNCHANGED <<run, subs>> /\ pc' = [pc EXCEPT ![c] = pc'[c]]
      BY <2>3 DEF CheckRow, TypeOK, runVars
    <3>2. run = "done" => pc'[c] = "closed"
      BY <2>3 DEF CheckRow, TypeOK, Places
    <3> QED
      BY <3>1, <3>2 DEF TypeOK
  <2> QED
    BY <1>4, <2>1, <2>2, <2>3 DEF ClientStep
<1>5. CASE UNCHANGED vars
  BY <1>5 DEF vars, runVars, clientVars
<1> QED
  BY <1>1, <1>2, <1>3, <1>4, <1>5 DEF Next

(* No live stream of a run that is done waits for something that will not  *)
(* come.                                                                   *)
THEOREM LiveStreamWillEndHolds == Spec => []LiveStreamWillEnd
<1>1. Init => NoneLeftBehind
  BY DEF Init, NoneLeftBehind
<1>2. StreamInv /\ NoneLeftBehind => LiveStreamWillEnd
  BY DEF StreamInv, Stream, Feed, Attached, NoneLeftBehind, LiveStreamWillEnd
<1> QED
  BY <1>1, <1>2, StreamInvariant, NoneLeftBehindStep, PTL DEF Spec
=============================================================================
