--------------------------- MODULE WorkerPool_proofs ---------------------------
(***************************************************************************)
(* The pool does what JobRunner promises, for any number of workers, any   *)
(* capacities and any number of updates.  What makes it true: an update is *)
(* in one place only, and when polling the places stand in a line, from    *)
(* the jobs channel back to the library, in which the numbers increase.    *)
(***************************************************************************)
EXTENDS WorkerPool, FiniteSetTheorems, SequenceTheorems, TLAPS

Increasing(s) == \A i, j \in DOMAIN s : i < j => s[i] < s[j]

(* Nothing but the library numbers updates, so a new one has a new number. *)
Numbered ==
    /\ Waiting \subseteq 1..fetched
    /\ Running \subseteq 1..fetched
    /\ handled \subseteq 1..fetched

OnePlace ==
    /\ IsInjective(updates) /\ IsInjective(jobs)
    /\ incoming \cap (Range(updates) \cup {held} \cup Range(jobs)) = {}
    /\ Range(updates) \cap ({held} \cup Range(jobs)) = {}
    /\ held \notin Range(jobs)
    /\ Waiting \cap (Running \cup handled) = {}
    /\ Running \cap handled = {}
    /\ \A v, w \in Workers : doing[v] # None /\ doing[v] = doing[w] => v = w

InLine ==
    /\ Increasing(jobs) /\ Increasing(updates)
    /\ \A x \in Range(jobs), y \in ({held} \ {None}) \cup Range(updates) \cup incoming :
          x < y
    /\ held # None => \A y \in Range(updates) \cup incoming : held < y
    /\ \A x \in Range(updates), y \in incoming : x < y
    /\ \A x, y \in incoming : x = y

Places ==
    /\ held # None <=> loop = "send"
    /\ \A w \in Workers : doing[w] # None <=> workers[w] = "busy"
    /\ loop = "returned" => \A w \in Workers : workers[w] = "done"
    /\ loop \notin {"select", "send"} => cancelled

Inv == TypeOK /\ Numbered /\ OnePlace /\ (mode = "polling" => InLine) /\ Places

-----------------------------------------------------------------------------
(* A channel as a sequence: sending and receiving.                         *)
LEMMA Put ==
  ASSUME NEW s \in Seq(Updates), NEW x \in Updates
  PROVE  /\ Append(s, x) \in Seq(Updates)
         /\ Len(Append(s, x)) = Len(s) + 1
         /\ Len(s) \in Nat
         /\ Range(Append(s, x)) = Range(s) \cup {x}
         /\ IsInjective(s) /\ x \notin Range(s) => IsInjective(Append(s, x))
         /\ Increasing(s) /\ (\A y \in Range(s) : y < x) => Increasing(Append(s, x))
  <1> DEFINE t == Append(s, x)
  <1>1. /\ t \in Seq(Updates) /\ Len(t) = Len(s) + 1
        /\ \A i \in 1..Len(s) : t[i] = s[i]
        /\ t[Len(s) + 1] = x
    BY AppendProperties
  <1>2. /\ Len(s) \in Nat
        /\ DOMAIN s = 1..Len(s) /\ DOMAIN t = 1..(Len(s) + 1)
    BY <1>1, LenProperties
  <1> HIDE DEF t
  <1>3. Range(t) = Range(s) \cup {x}
    <2>1. \A i \in 1..(Len(s) + 1) : i \in 1..Len(s) \/ i = Len(s) + 1
      BY <1>2
    <2>2. \A i \in 1..Len(s) : i \in 1..(Len(s) + 1)
      BY <1>2
    <2>3. Len(s) + 1 \in 1..(Len(s) + 1)
      BY <1>2
    <2> QED BY <1>1, <1>2, <2>1, <2>2, <2>3 DEF Range
  <1>4. IsInjective(s) /\ x \notin Range(s) => IsInjective(t)
    <2> SUFFICES ASSUME IsInjective(s), x \notin Range(s),
                        NEW i \in DOMAIN t, NEW j \in DOMAIN t, t[i] = t[j]
                 PROVE  i = j
      BY DEF IsInjective
    <2>1. \A k \in 1..Len(s) : s[k] # x
      BY <1>2 DEF Range
    <2> QED BY <1>1, <1>2, <2>1 DEF IsInjective
  <1>5. Increasing(s) /\ (\A y \in Range(s) : y < x) => Increasing(t)
    <2> SUFFICES ASSUME Increasing(s), \A y \in Range(s) : y < x,
                        NEW i \in DOMAIN t, NEW j \in DOMAIN t, i < j
                 PROVE  t[i] < t[j]
      BY DEF Increasing
    <2>1. i \in 1..Len(s) /\ s[i] < x
      BY <1>2 DEF Range
    <2> QED BY <1>1, <1>2, <2>1 DEF Increasing
  <1> QED BY <1>1, <1>2, <1>3, <1>4, <1>5 DEF t

LEMMA Get ==
  ASSUME NEW s \in Seq(Updates), s # <<>>
  PROVE  /\ Head(s) \in Updates
         /\ Tail(s) \in Seq(Updates)
         /\ Len(Tail(s)) = Len(s) - 1
         /\ Len(s) \in Nat
         /\ Range(s) = {Head(s)} \cup Range(Tail(s))
         /\ IsInjective(s) => IsInjective(Tail(s)) /\ Head(s) \notin Range(Tail(s))
         /\ Increasing(s) => /\ Increasing(Tail(s))
                             /\ \A y \in Range(Tail(s)) : Head(s) < y
  <1> DEFINE t == Tail(s)
  <1>1. /\ Head(s) \in Updates /\ t \in Seq(Updates) /\ Len(t) = Len(s) - 1
        /\ \A i \in 1..Len(t) : t[i] = s[i + 1]
        /\ Head(s) = s[1]
    BY HeadTailProperties
  <1>2. /\ Len(s) \in Nat \ {0}
        /\ DOMAIN s = 1..Len(s) /\ DOMAIN t = 1..(Len(s) - 1)
    BY <1>1, LenProperties, EmptySeq
  <1> HIDE DEF t
  <1>3. /\ \A i \in DOMAIN s : i = 1 \/ (i - 1 \in DOMAIN t /\ t[i - 1] = s[i])
        /\ \A i \in DOMAIN t : i + 1 \in DOMAIN s /\ t[i] = s[i + 1]
        /\ 1 \in DOMAIN s
    BY <1>1, <1>2
  <1>4. Range(s) = {Head(s)} \cup Range(t)
    <2>1. ASSUME NEW y \in Range(s) PROVE y \in {Head(s)} \cup Range(t)
      <3>1. PICK i \in DOMAIN s : y = s[i]
        BY <2>1 DEF Range
      <3> QED BY <1>1, <1>3, <3>1 DEF Range
    <2>2. Head(s) \in Range(s)
      BY <1>1, <1>3 DEF Range
    <2>3. ASSUME NEW y \in Range(t) PROVE y \in Range(s)
      <3>1. PICK i \in DOMAIN t : y = t[i]
        BY <2>3 DEF Range
      <3> QED BY <1>3, <3>1 DEF Range
    <2> QED BY <2>1, <2>2, <2>3
  <1>5. ASSUME IsInjective(s)
        PROVE  IsInjective(t) /\ Head(s) \notin Range(t)
    <2>1. IsInjective(t)
      BY <1>1, <1>2, <1>3, <1>5 DEF IsInjective
    <2>2. \A i \in DOMAIN t : t[i] # s[1]
      BY <1>2, <1>3, <1>5 DEF IsInjective
    <2> QED BY <1>1, <2>1, <2>2 DEF Range
  <1>6. ASSUME Increasing(s)
        PROVE  Increasing(t) /\ \A y \in Range(t) : Head(s) < y
    <2>1. Increasing(t)
      BY <1>1, <1>2, <1>3, <1>6 DEF Increasing
    <2>2. \A i \in DOMAIN t : s[1] < t[i]
      BY <1>2, <1>3, <1>6 DEF Increasing
    <2> QED BY <1>1, <2>1, <2>2 DEF Range
  <1> QED BY <1>1, <1>2, <1>4, <1>5, <1>6 DEF t

LEMMA NoneIsNoUpdate == None \notin Updates /\ Updates \subseteq Nat
  BY MaxUpdatesAssumption DEF None, Updates

-----------------------------------------------------------------------------
LEMMA InitInv == Init => Inv
  <1> SUFFICES ASSUME Init PROVE Inv
    OBVIOUS
  <1>1. /\ <<>> \in Seq(Updates) /\ Len(<<>>) = 0 /\ DOMAIN <<>> = {}
        /\ Range(<<>>) = {} /\ IsInjective(<<>>) /\ Increasing(<<>>)
    BY EmptySeq DEF Range, IsInjective, Increasing
  <1>2. TypeOK
    <2>1. 0 <= UpdatesCap /\ 0 <= JobsCap /\ 0 \in 0..MaxUpdates
      BY CapsAssumption, MaxUpdatesAssumption
    <2>2. /\ updates \in Seq(Updates) /\ Len(updates) <= UpdatesCap
          /\ jobs \in Seq(Updates) /\ Len(jobs) <= JobsCap
      BY <1>1, <2>1 DEF Init
    <2>3. /\ workers \in [Workers -> {"select", "busy", "done"}]
          /\ doing \in [Workers -> Updates \cup {None}]
      BY DEF Init
    <2>4. /\ mode \in Modes /\ cancelled \in BOOLEAN /\ closed \in BOOLEAN
          /\ fetched \in 0..MaxUpdates
          /\ incoming \subseteq Updates /\ handled \subseteq Updates
          /\ loop \in LoopPlaces /\ held \in Updates \cup {None}
      BY <2>1 DEF Init, LoopPlaces
    <2> QED BY <2>2, <2>3, <2>4 DEF TypeOK
  <1>3. Waiting = {} /\ Running = {} /\ handled = {}
    BY <1>1 DEF Init, Waiting, Running
  <1>4. Numbered /\ OnePlace /\ InLine /\ Places
    BY <1>1, <1>3 DEF Init, Numbered, OnePlace, InLine, Places, None
  <1> QED BY <1>2, <1>4 DEF Inv

(* The steps that move no update: the signal and the shutdown of the loop. *)
LEMMA StandInv ==
  ASSUME Inv,
         \/ Cancel \/ CloseJobs \/ StopSource \/ HandlersAreGone \/ Return
         \/ \E w \in Workers : StopWorker(w)
         \/ UNCHANGED vars
  PROVE  Inv'
  <1>1. UNCHANGED <<mode, sourceVars, held, jobs, doing, handled>>
    BY DEF Cancel, CloseJobs, StopSource, HandlersAreGone, Return, StopWorker,
           vars, loopVars, workerVars
  <1>2. TypeOK'
    BY DEF Inv, TypeOK, Cancel, CloseJobs, StopSource, HandlersAreGone, Return,
           StopWorker, vars, sourceVars, loopVars, workerVars, LoopPlaces
  <1>3. UNCHANGED <<Waiting, Running>>
    BY <1>1 DEF Waiting, Running, sourceVars
  <1>4. Numbered' /\ OnePlace' /\ (mode' = "polling" => InLine')
    BY <1>1, <1>3 DEF Inv, Numbered, OnePlace, InLine, Increasing, sourceVars
  <1>5. Places'
    BY DEF Inv, TypeOK, Places, Cancel, CloseJobs, StopSource, HandlersAreGone,
           Return, StopWorker, vars, sourceVars, loopVars, workerVars
  <1> QED BY <1>2, <1>4, <1>5 DEF Inv

LEMMA FetchInv ==
  ASSUME Inv, Fetch
  PROVE  Inv'
  <1> DEFINE u == fetched + 1
  <1>1. /\ fetched' = u /\ incoming' = incoming \cup {u}
        /\ fetched < MaxUpdates
        /\ mode = "polling" => incoming = {}
        /\ UNCHANGED <<mode, cancelled, updates, loopVars, jobs, workerVars>>
    BY DEF Fetch
  <1>2. /\ fetched \in Nat /\ u \in Updates /\ u \notin 1..fetched
        /\ 1..fetched \subseteq 1..u
    BY <1>1, MaxUpdatesAssumption DEF Inv, TypeOK, Updates
  <1>3. \A x \in 1..fetched : x < u
    BY <1>2
  <1> HIDE DEF u
  <1>4. TypeOK'
    BY <1>1, <1>2, MaxUpdatesAssumption
       DEF Inv, TypeOK, Updates, loopVars, workerVars
  <1>5. Waiting' = Waiting \cup {u} /\ Running' = Running
    BY <1>1 DEF Waiting, Running, loopVars, workerVars
  <1>6. Numbered'
    <2>1. u \in 1..u
      BY <1>2 DEF u
    <2> QED BY <1>1, <1>2, <1>5, <2>1 DEF Inv, Numbered, workerVars
  <1>7. /\ u \notin Waiting \cup Running \cup handled
        /\ u \notin Range(updates) /\ u \notin Range(jobs) /\ u # held
    <2>1. u \notin Waiting \cup Running \cup handled
      BY <1>2 DEF Inv, Numbered
    <2>2. held = None \/ held \in Waiting
      BY DEF Waiting
    <2>3. u # None
      BY <1>2, NoneIsNoUpdate
    <2> QED BY <2>1, <2>2, <2>3 DEF Waiting
  <1>8. OnePlace'
    BY <1>1, <1>5, <1>7 DEF Inv, OnePlace, loopVars, workerVars
  <1>9. ASSUME mode = "polling" PROVE InLine'
    <2>1. \A x \in Range(jobs) \cup ({held} \ {None}) \cup Range(updates) : x < u
      BY <1>3 DEF Inv, Numbered, Waiting
    <2>2. incoming' = {u}
      BY <1>1, <1>9
    <2> QED BY <1>1, <1>9, <2>1, <2>2 DEF Inv, InLine, Increasing, loopVars
  <1>10. Places'
    BY <1>1 DEF Inv, Places, loopVars, workerVars
  <1> QED BY <1>1, <1>4, <1>6, <1>8, <1>9, <1>10 DEF Inv

LEMMA OfferInv ==
  ASSUME Inv, NEW u \in incoming, Offer(u)
  PROVE  Inv' /\ UNCHANGED <<Waiting, Running>>
  <1>1. /\ Len(updates) < UpdatesCap
        /\ updates' = Append(updates, u) /\ incoming' = incoming \ {u}
        /\ UNCHANGED <<mode, cancelled, fetched, loopVars, jobs, workerVars>>
    BY DEF Offer
  <1>2. u \in Updates /\ updates \in Seq(Updates)
    BY DEF Inv, TypeOK
  <1>3. u \notin Range(updates) /\ u # held /\ u \notin Range(jobs)
    BY DEF Inv, OnePlace
  <1>4. /\ updates' \in Seq(Updates) /\ Len(updates') = Len(updates) + 1
        /\ Len(updates) \in Nat
        /\ Range(updates') = Range(updates) \cup {u}
        /\ IsInjective(updates')
        /\ Increasing(updates) /\ (\A y \in Range(updates) : y < u) =>
              Increasing(updates')
    BY <1>1, <1>2, <1>3, Put DEF Inv, OnePlace
  <1>5. TypeOK'
    BY <1>1, <1>4, CapsAssumption DEF Inv, TypeOK, loopVars, workerVars
  <1>6. Waiting' = Waiting /\ Running' = Running
    BY <1>1, <1>4 DEF Waiting, Running, loopVars, workerVars
  <1>7. Numbered'
    BY <1>1, <1>6 DEF Inv, Numbered, workerVars
  <1>8. OnePlace'
    BY <1>1, <1>3, <1>4, <1>6 DEF Inv, OnePlace, loopVars, workerVars
  <1>9. ASSUME mode = "polling" PROVE InLine'
    <2>1. /\ incoming' = {}
          /\ \A y \in Range(updates) : y < u
          /\ \A x \in Range(jobs) : x < u
          /\ held # None => held < u
      BY <1>1, <1>9 DEF Inv, InLine
    <2> QED BY <1>1, <1>4, <1>9, <2>1 DEF Inv, InLine, loopVars
  <1>10. Places'
    BY <1>1 DEF Inv, Places, loopVars, workerVars
  <1> QED BY <1>1, <1>5, <1>6, <1>7, <1>8, <1>9, <1>10 DEF Inv

LEMMA TakeUpdateInv ==
  ASSUME Inv, TakeUpdate
  PROVE  Inv' /\ UNCHANGED <<Waiting, Running>>
  <1>1. /\ loop = "select" /\ updates # <<>> /\ loop' = "send"
        /\ held' = Head(updates) /\ updates' = Tail(updates)
        /\ UNCHANGED <<mode, cancelled, fetched, incoming, closed, jobs, workerVars>>
    BY DEF TakeUpdate
  <1>2. updates \in Seq(Updates) /\ held = None
    BY <1>1 DEF Inv, TypeOK, Places
  <1>3. /\ held' \in Updates /\ updates' \in Seq(Updates)
        /\ Len(updates') = Len(updates) - 1 /\ Len(updates) \in Nat
        /\ Range(updates) = {held'} \cup Range(updates')
        /\ IsInjective(updates') /\ held' \notin Range(updates')
        /\ Increasing(updates) =>
              Increasing(updates') /\ \A y \in Range(updates') : held' < y
    BY <1>1, <1>2, Get DEF Inv, OnePlace
  <1>4. held' # None
    BY <1>3, NoneIsNoUpdate
  <1>5. TypeOK'
    BY <1>1, <1>3, CapsAssumption DEF Inv, TypeOK, LoopPlaces, workerVars
  <1>6. Waiting' = Waiting /\ Running' = Running
    BY <1>1, <1>2, <1>3, <1>4 DEF Waiting, Running, workerVars
  <1>7. Numbered'
    BY <1>1, <1>6 DEF Inv, Numbered, workerVars
  <1>8. OnePlace'
    BY <1>1, <1>3, <1>6 DEF Inv, OnePlace, workerVars
  <1>9. ASSUME mode = "polling" PROVE InLine'
    BY <1>1, <1>3, <1>9 DEF Inv, InLine
  <1>10. Places'
    BY <1>1, <1>4 DEF Inv, Places, workerVars
  <1> QED BY <1>1, <1>5, <1>6, <1>7, <1>8, <1>9, <1>10 DEF Inv

LEMMA SendJobInv ==
  ASSUME Inv, SendJob
  PROVE  Inv' /\ UNCHANGED <<Waiting, Running>>
  <1>1. /\ loop = "send" /\ loop' = "select"
        /\ Len(jobs) < JobsCap /\ jobs' = Append(jobs, held) /\ held' = None
        /\ UNCHANGED <<mode, cancelled, sourceVars, closed, workerVars>>
    BY DEF SendJob
  <1>2. held # None /\ held \in Updates /\ jobs \in Seq(Updates)
    BY <1>1 DEF Inv, TypeOK, Places
  <1>3. /\ jobs' \in Seq(Updates) /\ Len(jobs') = Len(jobs) + 1 /\ Len(jobs) \in Nat
        /\ Range(jobs') = Range(jobs) \cup {held}
        /\ IsInjective(jobs')
        /\ Increasing(jobs) /\ (\A y \in Range(jobs) : y < held) => Increasing(jobs')
    BY <1>1, <1>2, Put DEF Inv, OnePlace
  <1>4. TypeOK'
    BY <1>1, <1>3, CapsAssumption DEF Inv, TypeOK, LoopPlaces, sourceVars, workerVars
  <1>5. Waiting' = Waiting /\ Running' = Running
    BY <1>1, <1>2, <1>3 DEF Waiting, Running, sourceVars, workerVars
  <1>6. Numbered'
    BY <1>1, <1>5 DEF Inv, Numbered, sourceVars, workerVars
  <1>7. OnePlace'
    <2>1. None \notin incoming \cup Range(updates) \cup Range(jobs')
      BY <1>2, <1>3, NoneIsNoUpdate, RangeOfSeq DEF Inv, TypeOK
    <2> QED BY <1>1, <1>2, <1>3, <1>5, <2>1 DEF Inv, OnePlace, sourceVars, workerVars
  <1>8. ASSUME mode = "polling" PROVE InLine'
    BY <1>1, <1>2, <1>3, <1>8 DEF Inv, InLine, sourceVars
  <1>9. Places'
    BY <1>1 DEF Inv, Places, workerVars
  <1> QED BY <1>1, <1>4, <1>5, <1>6, <1>7, <1>8, <1>9 DEF Inv

LEMMA TakeJobInv ==
  ASSUME Inv, NEW w \in Workers, TakeJob(w)
  PROVE  /\ Inv'
         /\ Head(jobs) \in Updates /\ Head(jobs) \in Waiting
         /\ Waiting' = Waiting \ {Head(jobs)}
         /\ Running' = Running \cup {Head(jobs)}
         /\ mode = "polling" => \A x \in Waiting : Head(jobs) <= x
         /\ doing[w] = None
  <1> DEFINE u == Head(jobs)
  <1>1. /\ workers[w] = "select" /\ jobs # <<>>
        /\ doing' = [doing EXCEPT ![w] = u] /\ jobs' = Tail(jobs)
        /\ workers' = [workers EXCEPT ![w] = "busy"]
        /\ UNCHANGED <<mode, cancelled, sourceVars, loopVars, handled>>
    BY DEF TakeJob
  <1>2. jobs \in Seq(Updates) /\ doing[w] = None
    BY <1>1 DEF Inv, TypeOK, Places
  <1>3. /\ u \in Updates /\ jobs' \in Seq(Updates)
        /\ Len(jobs') = Len(jobs) - 1 /\ Len(jobs) \in Nat
        /\ Range(jobs) = {u} \cup Range(jobs')
        /\ IsInjective(jobs') /\ u \notin Range(jobs')
        /\ Increasing(jobs) => Increasing(jobs') /\ \A y \in Range(jobs') : u < y
    BY <1>1, <1>2, Get DEF Inv, OnePlace
  <1> HIDE DEF u
  <1>4. u # None
    BY <1>3, NoneIsNoUpdate
  <1>5. /\ doing'[w] = u
        /\ \A v \in Workers \ {w} : doing'[v] = doing[v]
        /\ workers'[w] = "busy"
        /\ \A v \in Workers \ {w} : workers'[v] = workers[v]
    BY <1>1 DEF Inv, TypeOK
  <1>6. TypeOK'
    BY <1>1, <1>3, CapsAssumption DEF Inv, TypeOK, sourceVars, loopVars
  <1>7. u \in Waiting /\ u \notin Running \cup handled
    BY <1>3 DEF Inv, OnePlace, Waiting
  <1>8. Waiting' = Waiting \ {u}
    <2>1. u \notin incoming \cup Range(updates) \cup ({held} \ {None})
      BY <1>3 DEF Inv, OnePlace
    <2> QED BY <1>1, <1>3, <2>1 DEF Waiting, sourceVars, loopVars
  <1>9. Running' = Running \cup {u}
    BY <1>2, <1>4, <1>5 DEF Running
  <1>10. Numbered'
    BY <1>1, <1>7, <1>8, <1>9 DEF Inv, Numbered, sourceVars
  <1>11. OnePlace'
    <2>1. \A x, v \in Workers : doing'[v] # None /\ doing'[v] = doing'[x] => v = x
      <3>1. \A v \in Workers : doing[v] # u
        BY <1>4, <1>7 DEF Running
      <3> QED BY <1>5, <3>1 DEF Inv, OnePlace
    <2>2. Waiting' \cap (Running' \cup handled') = {} /\ Running' \cap handled' = {}
      BY <1>1, <1>7, <1>8, <1>9 DEF Inv, OnePlace
    <2> QED BY <1>1, <1>3, <2>1, <2>2 DEF Inv, OnePlace, sourceVars, loopVars
  <1>12. ASSUME mode = "polling" PROVE InLine'
    BY <1>1, <1>3, <1>12 DEF Inv, InLine, sourceVars, loopVars
  <1>13. Places'
    BY <1>1, <1>4, <1>5 DEF Inv, Places, loopVars
  <1>14. ASSUME mode = "polling" PROVE \A x \in Waiting : u <= x
    <2>1. Waiting \subseteq Nat /\ u \in Nat
      <3>1. fetched \in Nat /\ Waiting \subseteq 1..fetched
        BY DEF Inv, TypeOK, Numbered
      <3> QED BY <1>3, <3>1, NoneIsNoUpdate
    <2>2. \A x \in Waiting : x = u \/ u < x
      BY <1>3, <1>14 DEF Inv, InLine, Waiting
    <2> QED BY <2>1, <2>2
  <1> QED BY <1>1, <1>2, <1>3, <1>6, <1>7, <1>8, <1>9, <1>10, <1>11, <1>12,
             <1>13, <1>14
          DEF Inv, u

LEMMA FinishJobInv ==
  ASSUME Inv, NEW w \in Workers, FinishJob(w)
  PROVE  /\ Inv'
         /\ doing[w] \in Running
         /\ doing[w] \in Updates
         /\ Waiting' = Waiting
         /\ Running' = Running \ {doing[w]}
         /\ handled' = handled \cup {doing[w]}
  <1> DEFINE u == doing[w]
  <1>1. /\ workers[w] = "busy"
        /\ handled' = handled \cup {u}
        /\ doing' = [doing EXCEPT ![w] = None]
        /\ workers' = [workers EXCEPT ![w] = "select"]
        /\ UNCHANGED <<mode, cancelled, sourceVars, loopVars, jobs>>
    BY DEF FinishJob
  <1>2. u # None /\ u \in Updates /\ u \in Running
    BY <1>1 DEF Inv, TypeOK, Places, Running
  <1>3. /\ doing'[w] = None
        /\ \A v \in Workers \ {w} : doing'[v] = doing[v] /\ doing[v] # u
        /\ workers'[w] = "select"
        /\ \A v \in Workers \ {w} : workers'[v] = workers[v]
    BY <1>1, <1>2 DEF Inv, TypeOK, OnePlace
  <1> HIDE DEF u
  <1>4. TypeOK'
    BY <1>1, <1>2 DEF Inv, TypeOK, sourceVars, loopVars
  <1>5. Waiting' = Waiting
    BY <1>1 DEF Waiting, sourceVars, loopVars
  <1>6. Running' = Running \ {u}
    BY <1>3 DEF Running, u
  <1>7. Numbered'
    BY <1>1, <1>2, <1>5, <1>6 DEF Inv, Numbered, sourceVars
  <1>8. OnePlace'
    <2>1. \A x, v \in Workers : doing'[v] # None /\ doing'[v] = doing'[x] => v = x
      BY <1>3 DEF Inv, OnePlace
    <2>2. Waiting' \cap (Running' \cup handled') = {} /\ Running' \cap handled' = {}
      BY <1>1, <1>2, <1>5, <1>6 DEF Inv, OnePlace
    <2> QED BY <1>1, <2>1, <2>2 DEF Inv, OnePlace, sourceVars, loopVars
  <1>9. mode' = "polling" => InLine'
    BY <1>1 DEF Inv, InLine, Increasing, sourceVars, loopVars
  <1>10. Places'
    BY <1>1, <1>3 DEF Inv, Places, loopVars
  <1> QED BY <1>1, <1>2, <1>4, <1>5, <1>6, <1>7, <1>8, <1>9, <1>10 DEF Inv, u

LEMMA NextInv ==
  ASSUME Inv, [Next]_vars
  PROVE  Inv'
  BY StandInv, FetchInv, OfferInv, TakeUpdateInv, SendJobInv, TakeJobInv,
     FinishJobInv DEF Next, LoopStep, WorkerStep

(* The inductive invariant, for any workers, capacities and updates.       *)
THEOREM InvHolds == Spec => []Inv
  BY InitInv, NextInv, PTL DEF Spec

(* The channels keep to their capacities, and everything has its type.     *)
THEOREM TypesHold == Spec => []TypeOK
  BY InvHolds, PTL DEF Inv

-----------------------------------------------------------------------------
(* A worker with nothing in hand leaves room for one more running job.     *)
LEMMA RoomToRun ==
  ASSUME Inv, NEW w \in Workers, doing[w] = None
  PROVE  Cardinality(Running) < Cardinality(Workers)
  <1> DEFINE busy == {v \in Workers : doing[v] # None}
  <1> DEFINE f == [v \in busy |-> doing[v]]
  <1>1. /\ IsFiniteSet(Workers \ {w})
        /\ Cardinality(Workers \ {w}) = Cardinality(Workers) - 1
        /\ Cardinality(Workers) \in Nat
    BY WorkersAssumption, FS_RemoveElement, FS_CardinalityType
  <1>2. busy \in SUBSET (Workers \ {w})
    OBVIOUS
  <1>3. IsFiniteSet(busy) /\ Cardinality(busy) <= Cardinality(Workers \ {w})
    BY <1>1, <1>2, FS_Subset
  <1>4. f \in Surjection(busy, Running)
    BY DEF Surjection, Running
  <1> HIDE DEF f, busy
  <1>5. IsFiniteSet(Running) /\ Cardinality(Running) <= Cardinality(busy)
    BY <1>3, <1>4, FS_Surjection
  <1>6. Cardinality(Running) \in Nat /\ Cardinality(busy) \in Nat
        /\ Cardinality(Workers \ {w}) \in Nat
    BY <1>1, <1>3, <1>5, FS_CardinalityType
  <1> QED BY <1>1, <1>3, <1>5, <1>6

(* JobRunner counts as this module does.                                   *)
LEMMA SameCount == \A S : Runner!Cardinality(S) = Cardinality(S)
  BY Zenon DEF Runner!Cardinality, Cardinality

LEMMA InitRefines == Init => Runner!Init
  <1> SUFFICES ASSUME Init PROVE Runner!Init
    OBVIOUS
  <1>1. Waiting = {} /\ Running = {} /\ handled = {}
    BY EmptySeq DEF Init, Waiting, Running, Range
  <1>2. Phase = "open"
    BY DEF Init, Phase
  <1> QED BY <1>1, <1>2 DEF Runner!Init

LEMMA NextRefines ==
  ASSUME Inv, [Next]_vars
  PROVE  [Runner!Next]_(Runner!vars)
  <1> DEFINE Still == UNCHANGED <<mode, Waiting, Running, handled>>
  <1>1. CASE Fetch
    <2>1. /\ fetched + 1 \in Updates
          /\ fetched + 1 \notin Waiting \cup Running \cup handled
      BY <1>1, MaxUpdatesAssumption DEF Fetch, Inv, TypeOK, Numbered, Updates
    <2>2. /\ Waiting' = Waiting \cup {fetched + 1}
          /\ UNCHANGED <<mode, Running, handled, Phase>>
      BY <1>1 DEF Fetch, Waiting, Running, Phase, loopVars, workerVars
    <2>3. Runner!Arrive(fetched + 1)
      BY <2>1, <2>2 DEF Runner!Arrive
    <2> QED BY <2>1, <2>3 DEF Runner!Next
  <1>2. ASSUME NEW u \in incoming, Offer(u) PROVE UNCHANGED Runner!vars
    BY <1>2, OfferInv DEF Offer, Phase, Runner!vars, loopVars, workerVars
  <1>3. CASE TakeUpdate
    BY <1>3, TakeUpdateInv DEF TakeUpdate, Phase, Runner!vars, workerVars
  <1>4. CASE SendJob
    BY <1>4, SendJobInv DEF SendJob, Phase, Runner!vars, workerVars
  <1>5. ASSUME NEW w \in Workers, TakeJob(w)
        PROVE  Runner!Next
    <2>1. Runner!Start(Head(jobs))
      <3>1. UNCHANGED <<mode, handled, Phase>>
        BY <1>5 DEF TakeJob, Phase, loopVars
      <3>2. Phase # "returned"
        BY <1>5 DEF TakeJob, Inv, Places, Phase
      <3>3. Cardinality(Running) < Cardinality(Workers)
        BY <1>5, TakeJobInv, RoomToRun
      <3>4. /\ Head(jobs) \in Waiting
            /\ Waiting' = Waiting \ {Head(jobs)}
            /\ Running' = Running \cup {Head(jobs)}
            /\ mode = "polling" => \A x \in Waiting : Head(jobs) <= x
        BY <1>5, TakeJobInv
      <3> HIDE DEF Waiting, Running, Phase
      <3>5. Runner!Cardinality(Running) < Cardinality(Workers)
        BY <3>3, SameCount
      <3> QED BY <3>1, <3>2, <3>4, <3>5 DEF Runner!Start
    <2> QED BY <1>5, <2>1, TakeJobInv DEF Runner!Next
  <1>6. ASSUME NEW w \in Workers, FinishJob(w)
        PROVE  Runner!Next
    <2>1. UNCHANGED <<mode, Phase>>
      BY <1>6 DEF FinishJob, Phase, loopVars
    <2>2. Runner!Finish(doing[w])
      BY <1>6, <2>1, FinishJobInv DEF Runner!Finish
    <2> QED BY <1>6, <2>2, FinishJobInv DEF Runner!Next
  <1>7. CASE Cancel
    <2>1. Still
      BY <1>7 DEF Cancel, Waiting, Running, sourceVars, loopVars, workerVars
    <2>2. Phase = "open" /\ Phase' = "closing"
      BY <1>7 DEF Cancel, Inv, Places, Phase, loopVars
    <2> QED BY <2>1, <2>2 DEF Runner!Next, Runner!Cancel
  <1>8. CASE CloseJobs \/ StopSource \/ HandlersAreGone
    <2>1. Still
      BY <1>8 DEF CloseJobs, StopSource, HandlersAreGone, Waiting, Running,
           sourceVars, workerVars
    <2>2. UNCHANGED Phase
      BY <1>8 DEF CloseJobs, StopSource, HandlersAreGone, Phase
    <2> QED BY <2>1, <2>2 DEF Runner!vars
  <1>9. CASE Return
    <2>1. Still
      BY <1>9 DEF Return, Waiting, Running, sourceVars, workerVars
    <2>2. Phase = "closing" /\ Phase' = "returned"
      BY <1>9 DEF Return, Inv, Places, Phase
    <2>3. Running = {}
      <3>1. \A w \in Workers : doing[w] = None
        BY <1>9 DEF Return, Inv, Places
      <3> QED BY <3>1 DEF Running
    <2> QED BY <2>1, <2>2, <2>3 DEF Runner!Next, Runner!Return
  <1>10. ASSUME NEW w \in Workers, StopWorker(w) PROVE UNCHANGED Runner!vars
    BY <1>10 DEF StopWorker, Waiting, Running, Phase, Runner!vars, sourceVars,
         loopVars
  <1>11. CASE UNCHANGED vars
    BY <1>11 DEF vars, Waiting, Running, Phase, Runner!vars, sourceVars, loopVars,
         workerVars
  <1> QED BY <1>1, <1>2, <1>3, <1>4, <1>5, <1>6, <1>7, <1>8, <1>9, <1>10, <1>11
          DEF Next, LoopStep, WorkerStep

(* Every behaviour of the pool is one of JobRunner: an update is taken at   *)
(* most once, in order when polling, and nothing runs after the return.    *)
THEOREM PoolIsJobRunner == Spec => ImplementsJobRunner
  BY InvHolds, InitRefines, NextRefines, PTL
     DEF Spec, ImplementsJobRunner, Runner!Spec
=============================================================================
