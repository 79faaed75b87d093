-------------------------- MODULE LsCommand_proofs --------------------------
(***************************************************************************)
(* LsInv and ActiveAnswerIsRight for every finite set of hosts, whichever  *)
(* of them are serial and whichever hang.                                  *)
(***************************************************************************)
EXTENDS LsCommand, FiniteSetTheorems, TLAPS

\* The answer is given once, when the command returns.
AnswerAtReturn == answer # "pending" => main = "return"

IInv == LsInv /\ ActiveAnswerIsRight /\ AnswerAtReturn

LEMMA InitIInv == Init => IInv
<1> SUFFICES ASSUME Init PROVE IInv
  OBVIOUS
<1>1. TypeOK
  BY LsAssumption DEF Init, TypeOK, States, Errors
<1>2. OneCallAtATime /\ CallsArePending
  BY DEF Init, OneCallAtATime, CallsArePending
<1>3. ItemsAccountedFor
  BY DEF Init, ItemsAccountedFor
<1>4. OneSource
  BY DEF Init, OneSource
<1> QED BY <1>1, <1>2, <1>3, <1>4 DEF Init, IInv, LsInv, ActiveAnswerIsRight, AnswerAtReturn

\* The end of a call frees the lock if the caller held it, and nobody else's.
LEMMA EndCallKeeps ==
    ASSUME TypeOK, OneCallAtATime, NEW h \in Hosts, NEW g \in Goroutines, EndCall(g, h)
    PROVE  /\ OneCallAtATime'
           /\ calling' \subseteq Goroutines /\ holder' \subseteq Goroutines
           /\ calling' = calling \ {g}
<1>1. OneCallAtATime'
  BY DEF EndCall, OneCallAtATime
<1> QED BY <1>1 DEF TypeOK, EndCall

LEMMA StepIInv == IInv /\ [Next]_vars => IInv'
<1> SUFFICES ASSUME IInv, [Next]_vars PROVE IInv'
  OBVIOUS
<1>0. TypeOK /\ OneCallAtATime /\ ItemsAccountedFor /\ CallsArePending /\ OneSource
      /\ ActiveAnswerIsRight /\ AnswerAtReturn
  BY DEF IInv, LsInv
<1>g. ASSUME NEW k \in {"main", "query", "wait"}, NEW h \in Hosts
      PROVE <<k, h>> \in Goroutines /\ <<k, h>>[2] = h
  BY DEF Goroutines
<1>c. \A g \in calling : \E k \in {"main", "query", "wait"}, h \in Hosts :
         g = <<k, h>> /\ g[2] = h /\ AtCall(<<k, h>>, h)
  <2> TAKE g \in calling
  <2>1. g \in {"main", "query", "wait"} \X Hosts /\ AtCall(g, g[2])
    BY <1>0 DEF TypeOK, Goroutines, CallsArePending
  <2>2. PICK k \in {"main", "query", "wait"}, h \in Hosts : g = <<k, h>>
    BY <2>1
  <2>3. g[2] = h /\ AtCall(<<k, h>>, h)
    BY <2>1, <2>2
  <2> QED BY <2>2, <2>3
<1>1. CASE StartQueries
  <2>1. TypeOK'
    BY <1>0, <1>1 DEF StartQueries, TypeOK
  <2>2. calling = {}
    BY <1>0, <1>1, <1>c DEF StartQueries, AtCall, ItemsAccountedFor
  <2>3. OneCallAtATime' /\ CallsArePending'
    BY <1>0, <1>1, <2>2 DEF StartQueries, OneCallAtATime, CallsArePending
  <2>4. ItemsAccountedFor'
    BY <1>0, <1>1 DEF StartQueries, ItemsAccountedFor, TypeOK
  <2>5. OneSource'
    <3> SUFFICES ASSUME NEW h \in Hosts
                 PROVE /\ query'[h] # "done" /\ (wait'[h] \notin {"name", "deliver", "done"})
      BY DEF OneSource
    <3> QED BY <1>1 DEF StartQueries
  <2>6. ActiveAnswerIsRight' /\ AnswerAtReturn'
    BY <1>0, <1>1 DEF StartQueries, ActiveAnswerIsRight, AnswerAtReturn
  <2> QED BY <2>1, <2>3, <2>4, <2>5, <2>6 DEF IInv, LsInv
<1>2. CASE Return
  <2>1. TypeOK'
    BY <1>0, <1>2 DEF Return, TypeOK, ActiveAnswer
  <2>2. collected \subseteq list
    BY <1>0, <1>2 DEF Return, ItemsAccountedFor
  <2>3. collected = list
    <3>1. IsFiniteSet(list)
      BY <1>0, LsAssumption, FS_Subset DEF TypeOK
    <3> QED BY <1>2, <2>2, <3>1, FS_Subset DEF Return
  <2>4. OneCallAtATime' /\ OneSource'
    BY <1>0, <1>2 DEF Return, OneCallAtATime, OneSource
  <2>5. CallsArePending'
    BY <1>0, <1>2 DEF Return, CallsArePending, AtCall
  <2>6. ItemsAccountedFor'
    BY <1>0, <1>2, <2>3 DEF Return, ItemsAccountedFor, TypeOK
  <2>7. ActiveAnswerIsRight'
    <3>1. \A h \in list : item[h] # "timeout" => query[h] = "done" /\ item[h] = found[h].state
      BY <1>0, <2>3 DEF OneSource, ItemsAccountedFor, TypeOK
    <3>2. answer' = ActiveAnswer
      BY <1>2 DEF Return
    <3>3. ActiveAnswer = "nohost" => \A h \in list : query[h] = "done"
      BY <3>1 DEF ActiveAnswer
    <3>4. ActiveAnswer = "active" => \E h \in Active : query[h] = "done" /\ found[h].state = "running"
      BY <3>1 DEF ActiveAnswer, ActiveItem
    <3> QED BY <1>2, <3>2, <3>3, <3>4 DEF ActiveAnswerIsRight, Return
  <2>8. AnswerAtReturn'
    BY <1>2 DEF Return, AnswerAtReturn
  <2> QED BY <2>1, <2>4, <2>5, <2>6, <2>7, <2>8 DEF IInv, LsInv
<1>3. ASSUME NEW g \in Goroutines, BeginCall(g) PROVE IInv'
  <2>1. TypeOK'
    BY <1>0, <1>3 DEF BeginCall, TypeOK
  <2>2. OneCallAtATime'
    BY <1>0, <1>3 DEF BeginCall, OneCallAtATime
  <2>3. CallsArePending'
    BY <1>0, <1>3 DEF BeginCall, CallsArePending, AtCall
  <2>4. ItemsAccountedFor' /\ OneSource'
    BY <1>0, <1>3 DEF BeginCall, ItemsAccountedFor, OneSource
  <2>5. ActiveAnswerIsRight' /\ AnswerAtReturn'
    BY <1>0, <1>3 DEF BeginCall, ActiveAnswerIsRight, AnswerAtReturn
  <2> QED BY <2>1, <2>2, <2>3, <2>4, <2>5 DEF IInv, LsInv
<1>4. ASSUME NEW h \in Hosts, FilterHost(h) PROVE IInv'
  <2> DEFINE g == <<"main", h>>
  <2>1. OneCallAtATime' /\ calling' \subseteq Goroutines /\ holder' \subseteq Goroutines
        /\ calling' = calling \ {g}
    BY <1>0, <1>4, <1>g, EndCallKeeps DEF FilterHost
  <2>2. TypeOK'
    BY <1>0, <1>4, <2>1 DEF FilterHost, TypeOK
  <2>3. CallsArePending'
    <3> SUFFICES ASSUME NEW c \in calling' PROVE AtCall(c, c[2])'
      BY DEF CallsArePending
    <3>1. PICK k \in {"main", "query", "wait"}, j \in Hosts :
             c = <<k, j>> /\ c[2] = j /\ AtCall(<<k, j>>, j)
      BY <1>c, <2>1
    <3> QED BY <1>4, <2>1, <3>1 DEF FilterHost, AtCall
  <2>4. ItemsAccountedFor' /\ OneSource'
    BY <1>0, <1>4 DEF FilterHost, ItemsAccountedFor, OneSource
  <2>5. ActiveAnswerIsRight' /\ AnswerAtReturn'
    BY <1>0, <1>4 DEF FilterHost, ActiveAnswerIsRight, AnswerAtReturn
  <2> QED BY <2>1, <2>2, <2>3, <2>4, <2>5 DEF IInv, LsInv
\* A call of attemptGetHostState returns and its goroutine goes on.
<1>5. ASSUME NEW h \in Hosts, NEW place \in {"state", "name", "send"},
             NEW s \in States \ {"timeout"}, NEW e \in Errors,
             query[h] \in {"url", "state", "name"},
             EndCall(<<"query", h>>, h), QueryGoesOn(h, place, s, e)
      PROVE  IInv'
  <2> DEFINE g == <<"query", h>>
  <2>1. OneCallAtATime' /\ calling' \subseteq Goroutines /\ holder' \subseteq Goroutines
        /\ calling' = calling \ {g}
    BY <1>0, <1>5, <1>g, EndCallKeeps
  <2>2. TypeOK'
    BY <1>0, <1>5, <2>1 DEF QueryGoesOn, TypeOK
  <2>3. CallsArePending'
    <3> SUFFICES ASSUME NEW c \in calling' PROVE AtCall(c, c[2])'
      BY DEF CallsArePending
    <3>1. PICK k \in {"main", "query", "wait"}, j \in Hosts :
             c = <<k, j>> /\ c[2] = j /\ AtCall(<<k, j>>, j)
      BY <1>c, <2>1
    <3>2. k = "query" => j # h
      BY <2>1, <3>1
    <3> QED BY <1>0, <1>5, <3>1, <3>2 DEF QueryGoesOn, AtCall, TypeOK
  <2>4. ItemsAccountedFor'
    BY <1>0, <1>5 DEF QueryGoesOn, ItemsAccountedFor, TypeOK
  <2>5. OneSource'
    BY <1>0, <1>5 DEF QueryGoesOn, OneSource, TypeOK
  <2>6. ActiveAnswerIsRight' /\ AnswerAtReturn'
    BY <1>0, <1>5, LsAssumption DEF QueryGoesOn, ActiveAnswerIsRight, AnswerAtReturn, TypeOK
  <2> QED BY <2>1, <2>2, <2>3, <2>4, <2>5, <2>6 DEF IInv, LsInv
<1>6. ASSUME NEW h \in Hosts, URLReturns(h) PROVE IInv'
  BY <1>5, <1>6 DEF URLReturns, States, Errors
<1>7. ASSUME NEW h \in Hosts, StateReturns(h) PROVE IInv'
  <2>1. PICK s \in {"none", "running", "stopped"} :
          QueryGoesOn(h, "name", s,
              CASE found[h].err = "empty" -> IF s = "none" THEN "error" ELSE ""
                [] found[h].err = "notrunning" -> ""
                [] OTHER -> found[h].err)
    BY <1>7 DEF StateReturns
  <2> DEFINE e == CASE found[h].err = "empty" -> IF s = "none" THEN "error" ELSE ""
                    [] found[h].err = "notrunning" -> ""
                    [] OTHER -> found[h].err
  <2>2. e \in Errors
    BY <1>0 DEF TypeOK, Errors
  <2>3. s \in States \ {"timeout"}
    BY DEF States
  <2>4. QueryGoesOn(h, "name", s, e)
    BY <2>1
  <2> HIDE DEF e
  <2> QED BY <1>5, <1>7, <2>2, <2>3, <2>4 DEF StateReturns
<1>8. ASSUME NEW h \in Hosts, NameReturns(h) PROVE IInv'
  <2>1. found[h].state \in States \ {"timeout"} /\ found[h].err \in Errors
    BY <1>0 DEF TypeOK
  <2> QED BY <1>5, <1>8, <2>1 DEF NameReturns
<1>9. ASSUME NEW h \in Hosts, SelectItem(h) PROVE IInv'
  <2>1. TypeOK'
    BY <1>0, <1>9 DEF SelectItem, TypeOK
  <2>2. OneCallAtATime'
    BY <1>0, <1>9 DEF SelectItem, OneCallAtATime
  <2>3. CallsArePending'
    BY <1>0, <1>9 DEF SelectItem, CallsArePending, AtCall, TypeOK
  <2>4. ItemsAccountedFor'
    BY <1>0, <1>9 DEF SelectItem, ItemsAccountedFor, TypeOK
  <2>5. OneSource'
    BY <1>0, <1>9 DEF SelectItem, OneSource, TypeOK
  <2>6. ActiveAnswerIsRight' /\ AnswerAtReturn'
    BY <1>0, <1>9, LsAssumption DEF SelectItem, ActiveAnswerIsRight, AnswerAtReturn, TypeOK
  <2> QED BY <2>1, <2>2, <2>3, <2>4, <2>5, <2>6 DEF IInv, LsInv
<1>10. ASSUME NEW h \in Hosts, SelectTimeout(h) PROVE IInv'
  <2>1. TypeOK'
    BY <1>0, <1>10 DEF SelectTimeout, TypeOK, States
  <2>2. OneCallAtATime'
    BY <1>0, <1>10 DEF SelectTimeout, OneCallAtATime
  <2>3. CallsArePending'
    BY <1>0, <1>10 DEF SelectTimeout, CallsArePending, AtCall, TypeOK
  <2>4. ItemsAccountedFor'
    BY <1>0, <1>10 DEF SelectTimeout, ItemsAccountedFor, TypeOK
  <2>5. OneSource'
    BY <1>0, <1>10 DEF SelectTimeout, OneSource, TypeOK
  <2>6. ActiveAnswerIsRight' /\ AnswerAtReturn'
    BY <1>0, <1>10 DEF SelectTimeout, ActiveAnswerIsRight, AnswerAtReturn
  <2> QED BY <2>1, <2>2, <2>3, <2>4, <2>5, <2>6 DEF IInv, LsInv
<1>11. ASSUME NEW h \in Hosts, TimeoutNameReturns(h) PROVE IInv'
  <2> DEFINE g == <<"wait", h>>
  <2>1. OneCallAtATime' /\ calling' \subseteq Goroutines /\ holder' \subseteq Goroutines
        /\ calling' = calling \ {g}
    BY <1>0, <1>11, <1>g, EndCallKeeps DEF TimeoutNameReturns
  <2>2. TypeOK'
    BY <1>0, <1>11, <2>1 DEF TimeoutNameReturns, TypeOK
  <2>3. CallsArePending'
    <3> SUFFICES ASSUME NEW c \in calling' PROVE AtCall(c, c[2])'
      BY DEF CallsArePending
    <3>1. PICK k \in {"main", "query", "wait"}, j \in Hosts :
             c = <<k, j>> /\ c[2] = j /\ AtCall(<<k, j>>, j)
      BY <1>c, <2>1
    <3>2. k = "wait" => j # h
      BY <2>1, <3>1
    <3> QED BY <1>0, <1>11, <3>1, <3>2 DEF TimeoutNameReturns, AtCall, TypeOK
  <2>4. ItemsAccountedFor'
    BY <1>0, <1>11 DEF TimeoutNameReturns, ItemsAccountedFor, TypeOK
  <2>5. OneSource'
    BY <1>0, <1>11 DEF TimeoutNameReturns, OneSource, TypeOK
  <2>6. ActiveAnswerIsRight' /\ AnswerAtReturn'
    BY <1>0, <1>11 DEF TimeoutNameReturns, ActiveAnswerIsRight, AnswerAtReturn
  <2> QED BY <2>1, <2>2, <2>3, <2>4, <2>5, <2>6 DEF IInv, LsInv
<1>12. ASSUME NEW h \in Hosts, Deliver(h) PROVE IInv'
  <2>1. TypeOK'
    BY <1>0, <1>12 DEF Deliver, TypeOK
  <2>2. OneCallAtATime'
    BY <1>0, <1>12 DEF Deliver, OneCallAtATime
  <2>3. CallsArePending'
    BY <1>0, <1>12 DEF Deliver, CallsArePending, AtCall, TypeOK
  <2>4. ItemsAccountedFor'
    BY <1>0, <1>12 DEF Deliver, ItemsAccountedFor, TypeOK
  <2>5. OneSource'
    BY <1>0, <1>12 DEF Deliver, OneSource, TypeOK
  <2>6. ActiveAnswerIsRight' /\ AnswerAtReturn'
    BY <1>0, <1>12 DEF Deliver, ActiveAnswerIsRight, AnswerAtReturn
  <2> QED BY <2>1, <2>2, <2>3, <2>4, <2>5, <2>6 DEF IInv, LsInv
<1>13. CASE UNCHANGED vars
  BY <1>0, <1>13 DEF vars, IInv, LsInv, TypeOK, OneCallAtATime, ItemsAccountedFor,
     CallsArePending, AtCall, OneSource, ActiveAnswerIsRight, AnswerAtReturn
<1> QED
  BY <1>1, <1>2, <1>3, <1>4, <1>6, <1>7, <1>8, <1>9, <1>10, <1>11, <1>12, <1>13
     DEF Next, Terminated

\* ls and active on any number of hosts, any of them serial and any of them
\* hanging: calls on virtualbox hosts exclude each other, every host sends one
\* item, and none is sent on the closed channel (ls.go:266-363).
THEOREM LsInvariant == Spec => []LsInv
<1>1. IInv => LsInv
  BY DEF IInv
<1> QED BY InitIInv, StepIInv, <1>1, PTL DEF Spec

\* active reports no active host only when every driver answered in time, and a
\* host only when its driver said it runs (active.go:46-60).
THEOREM ActiveIsRight == Spec => []ActiveAnswerIsRight
<1>1. IInv => ActiveAnswerIsRight
  BY DEF IInv
<1> QED BY InitIInv, StepIInv, <1>1, PTL DEF Spec
=============================================================================
