------------------------- MODULE RemoteScriptProofs -------------------------
(***************************************************************************)
(* Theorems about the remote script for any number of tracks, handler      *)
(* threads, plugins and listeners, and whatever discover does meanwhile.   *)
(***************************************************************************)
EXTENDS RemoteScript, SequenceLemmas

----------------------------------------------------------------------------
(* Type correctness *)

SetOK ==
    /\ tracks \in Seq(Track) /\ IsInjective(tracks)
    /\ deleted \subseteq Track
    /\ value \in [Track -> Value]

\* A parameter has finitely many listeners: each is the work of one step.
ListeningOK ==
    /\ installed \in [Track -> SUBSET Listener]
    /\ \A t \in Track : IsFiniteSet(installed[t])
    /\ table \in Seq(Entry)

FoundOK == DOMAIN found \subseteq Id /\ Range(found) \subseteq Looper
ServerOK == port \in Plugin \cup {NoPlugin} /\ {hooked, serving, unloaded} \subseteq BOOLEAN

\* start_listening has a looper in hand when it records a listener.
ThreadsOK ==
    /\ thread \in [Thread -> ThreadState]
    /\ \A p \in Thread : At(p, "record") => Head(thread[p].rest) \in Looper

ShadowOK ==
    /\ DOMAIN shadow = Plugin
    /\ \A p \in Plugin : \A i \in DOMAIN shadow[p] : shadow[p][i] \in Push /\ shadow[p][i].id = i

TypeInv == SetOK /\ ListeningOK /\ FoundOK /\ ServerOK /\ ThreadsOK /\ ShadowOK

LEMMA TypeInvImpliesTypeOK == TypeInv => TypeOK
  BY DEF TypeInv, TypeOK, SetOK, ListeningOK, FoundOK, ServerOK, ThreadsOK, ShadowOK

\* What a request carries (MessageProtocol).
LEMMA RequestType ==
    ASSUME NEW r \in Request
    PROVE  /\ r \in Jobs
           /\ r.op \in Op
           /\ r.op = "hello" => r.plugin \in Plugin
  BY DEF Request, Jobs

LEMMA JobType ==
    ASSUME NEW j \in Jobs
    PROVE  /\ j.op \in {"set_feedback", "discover"} => j.op \in Op
           /\ j.op = "set_feedback" => j.id \in Id /\ j.value \in Value
  BY DEF Request, Jobs

\* What a thread is doing, taken apart by where it is.
LEMMA StateAt ==
    ASSUME NEW s \in ThreadState
    PROVE  /\ s.job \in Jobs
           /\ s.pc = "stop" => /\ s.job.op \in {"rescan", "unload", "discover"} /\ s.rest = << >>
                              /\ s.item \in [next : Nat \ {0}, used : Nat]
           /\ s.pc = "clear" => s.job.op \in {"rescan", "unload", "discover"}
           /\ s.pc = "scan" => s.job.op \in ScanOps
           /\ s.pc = "push" => /\ s.job.op \in ScanOps /\ s.rest = << >>
                              /\ s.item \in [unsent : SUBSET Push]
           /\ s.pc = "install" => /\ s.job.op \in ScanOps /\ s.rest \in Seq(Track)
                                 /\ s.item \in Outcomes
           /\ s.pc = "record" => /\ s.job.op \in ScanOps /\ s.rest \in Seq(Track) \ {<< >>}
                                /\ s.item \in Listener
           /\ s.pc = "notify" => /\ s.job.op \in {"edit", "set_feedback"} /\ s.rest \in Seq(Looper)
                                /\ s.item \in Outcomes
           /\ s.pc = "send" => /\ s.job.op \in {"edit", "set_feedback"} /\ s.rest \in Seq(Looper)
                              /\ s.item \in Push
           /\ s.pc = "apply" => s.job.op = "set_feedback"
           /\ s.pc = "halt" => s.job.op = "unload"
           /\ s.pc \in {"start", "init", "hook"} => s.job.op = "boot"
           /\ s = [pc |-> s.pc, job |-> s.job, rest |-> s.rest, item |-> s.item]
  BY DEF ThreadState, States

\* States that a step goes to.
LEMMA StateType ==
    ASSUME NEW pc, NEW job \in Jobs, NEW rest, NEW item,
           \/ pc = "stop" /\ job.op \in {"rescan", "unload", "discover"} /\ rest = << >>
              /\ item \in [next : Nat \ {0}, used : Nat]
           \/ pc = "push" /\ job.op \in ScanOps /\ rest = << >> /\ item \in [unsent : SUBSET Push]
           \/ pc = "record" /\ job.op \in ScanOps /\ rest \in Seq(Track) \ {<< >>} /\ item \in Listener
           \/ pc = "send" /\ job.op \in {"edit", "set_feedback"} /\ rest \in Seq(Looper) /\ item \in Push
    PROVE  State(pc, job, rest, item) \in ThreadState /\ State(pc, job, rest, item).pc = pc
  BY DEF State, ThreadState, States

LEMMA DoingState ==
    ASSUME NEW pc, NEW job \in Jobs, NEW rest,
           \/ pc \in {"init", "hook"} /\ job.op = "boot" /\ rest = << >>
           \/ pc = "clear" /\ job.op \in {"rescan", "unload", "discover"} /\ rest = << >>
           \/ pc = "scan" /\ job.op \in ScanOps /\ rest = << >>
           \/ pc = "install" /\ job.op \in ScanOps /\ rest \in Seq(Track)
           \/ pc = "halt" /\ job.op = "unload" /\ rest = << >>
           \/ pc = "notify" /\ job.op \in {"edit", "set_feedback"} /\ rest \in Seq(Looper)
           \/ pc = "apply" /\ job.op = "set_feedback" /\ rest = << >>
    PROVE  Doing(pc, job, rest) \in ThreadState /\ Doing(pc, job, rest).pc = pc
  BY DEF Doing, State, Outcome, Outcomes, ThreadState, States, ScanOps

LEMMA IdleState == Idle \in ThreadState /\ Idle.pc = "idle"
  BY DEF Idle, Doing, State, NoJob, Jobs, Outcome, Outcomes, ThreadState, States

LEMMA AnsweringState ==
    ASSUME NEW job \in Jobs, job.op \in Op, NEW success \in BOOLEAN
    PROVE  Answering(job, success) \in ThreadState /\ Answering(job, success).pc = "reply"
  BY DEF Answering, State, Outcome, Outcomes, ThreadState, States

LEMMA StoppingState ==
    ASSUME ListeningOK, NEW job \in Jobs, job.op \in {"rescan", "unload", "discover"}
    PROVE  Stopping(job) \in ThreadState /\ Stopping(job).pc = "stop"
  <1>1. Len(table) \in Nat
    BY LenProperties DEF ListeningOK
  <1>2. [next |-> 1, used |-> Len(table)] \in [next : Nat \ {0}, used : Nat]
    BY <1>1
  <1>3. QED
    BY <1>2, StateType DEF Stopping

LEMMA BecomesType ==
    ASSUME ThreadsOK, NEW p \in Thread, NEW s \in ThreadState, Becomes(p, s),
           s.pc = "record" => Head(s.rest) \in Looper
    PROVE  ThreadsOK'
  BY DEF ThreadsOK, Becomes, At

----------------------------------------------------------------------------
\* A looper's id: its place in the set is one of the ids.
LEMMA LooperIdType ==
    ASSUME SetOK, NEW i \in LooperIds
    PROVE  i \in Nat /\ i \in Id /\ tracks[i] \in Looper /\ tracks[i] \in Track /\ Read(i) \in Push
  <1>1. DOMAIN tracks \subseteq Id
    BY TrackAssumption, ListLength DEF SetOK, Id
  <1>2. i \in DOMAIN tracks /\ tracks[i] \in Looper
    BY DEF LooperIds
  <1>3. tracks[i] \in Track
    BY <1>2, LooperAssumption
  <1>4. DOMAIN tracks \subseteq Nat
    BY LenProperties DEF SetOK
  <1>5. QED
    BY <1>1, <1>2, <1>3, <1>4 DEF Read, Push, SetOK

\* A push that is sent becomes the entry of its id.
LEMMA SendType ==
    ASSUME ServerOK, ShadowOK, PluginAssumption, NEW e \in Push, SendEvent(e)
    PROVE  ShadowOK'
  <1>1. CASE port = NoPlugin
    BY <1>1 DEF SendEvent, ShadowOK
  <1>2. CASE port # NoPlugin
    <2>1. port \in Plugin /\ shadow' = [shadow EXCEPT ![port] = Told(@, e)]
      BY <1>2 DEF SendEvent, ServerOK
    <2>2. \A i \in DOMAIN Told(shadow[port], e) :
              Told(shadow[port], e)[i] \in Push /\ Told(shadow[port], e)[i].id = i
      BY <2>1 DEF Told, ShadowOK
    <2>3. QED
      BY <2>1, <2>2 DEF ShadowOK
  <1>3. QED
    BY <1>1, <1>2

\* param.value = v: as many notifications as there are listeners.
LEMMA AssignType ==
    ASSUME SetOK, ListeningOK, ThreadsOK, NEW p \in Thread, NEW t \in Looper, NEW v \in Value,
           NEW job \in Jobs, job.op \in {"edit", "set_feedback"},
           Assign(p, t, v, job)
    PROVE  value' \in [Track -> Value] /\ ThreadsOK'
  <1> DEFINE rest == [k \in 1..Cardinality(installed[t]) |-> t]
  <1>1. t \in Track
    BY LooperAssumption
  <1>2. Cardinality(installed[t]) \in Nat
    BY <1>1, FS_CardinalityType DEF ListeningOK
  <1>3. rest \in Seq(Looper)
    BY <1>2
  <1>4. value' \in [Track -> Value]
    BY <1>1 DEF Assign, SetOK
  <1>5. Becomes(p, Doing("notify", job, rest))
    BY DEF Assign
  <1> HIDE DEF rest
  <1>6. QED
    BY <1>3, <1>4, <1>5, DoingState, BecomesType

----------------------------------------------------------------------------
(* Each handler step keeps the types.  A step that only moves its thread on *)
(* leaves every other part of the state as it was.                          *)

LEMMA ThreadStepType ==
    ASSUME TypeInv, NEW p \in Thread, NEW s \in ThreadState, Becomes(p, s),
           s.pc = "record" => Head(s.rest) \in Looper,
           UNCHANGED <<live, installed, table, found, shadow, port>>, ServerOK'
    PROVE  TypeInv'
  <1>1. ThreadsOK'
    BY BecomesType DEF TypeInv
  <1>2. SetOK' /\ ListeningOK' /\ FoundOK' /\ ShadowOK'
    BY DEF TypeInv, SetOK, ListeningOK, FoundOK, ShadowOK, live
  <1>3. QED
    BY <1>1, <1>2 DEF TypeInv

LEMMA StopType ==
    ASSUME TypeInv, NEW p \in Thread,
           StopEntry(p) \/ StopLoopEnds(p) \/ StopRaises(p) \/ ClearTable(p)
    PROVE  TypeInv'
  <1>0. thread[p] \in ThreadState
    BY DEF TypeInv, ThreadsOK
  <1>1. ASSUME StopEntry(p) PROVE TypeInv'
    <2> DEFINE it == thread[p].item
               s == State("stop", Job(p), << >>, [it EXCEPT !.next = @ + 1])
    <2>1. /\ Job(p) \in Jobs /\ Job(p).op \in {"rescan", "unload", "discover"}
          /\ it \in [next : Nat \ {0}, used : Nat] /\ it.next <= Len(table)
      BY <1>0, <1>1, StateAt DEF StopEntry, At, Job
    <2>2. [it EXCEPT !.next = @ + 1] \in [next : Nat \ {0}, used : Nat]
      BY <2>1
    <2>5. s \in ThreadState /\ s.pc # "record"
      BY <2>1, <2>2, StateType
    <2>6. Becomes(p, s)
      BY <1>1 DEF StopEntry
    <2>7. ThreadsOK'
      BY <2>5, <2>6, BecomesType DEF TypeInv
    <2>8. it.next \in 1..Len(table) /\ table[it.next] \in Entry
      BY <2>1, LenProperties, ElementOfSeq DEF TypeInv, ListeningOK
    <2>9. ListeningOK'
      <3>1. installed' = [installed EXCEPT ![table[it.next].track] = @ \ table[it.next].listeners]
        BY <1>1 DEF StopEntry
      <3>2. \A t \in Track : installed'[t] \in SUBSET installed[t]
        BY <3>1 DEF TypeInv, ListeningOK
      <3>3. \A t \in Track : IsFiniteSet(installed'[t])
        BY <3>2, FS_Subset DEF TypeInv, ListeningOK
      <3>4. table' = table
        BY <1>1 DEF StopEntry
      <3>5. installed' \in [Track -> SUBSET Listener]
        BY <3>1 DEF TypeInv, ListeningOK
      <3>6. QED
        BY <3>3, <3>4, <3>5 DEF TypeInv, ListeningOK
    <2>10. SetOK' /\ FoundOK' /\ ServerOK' /\ ShadowOK'
      BY <1>1 DEF StopEntry, TypeInv, SetOK, FoundOK, ServerOK, ShadowOK, live, server
    <2>11. QED
      BY <2>7, <2>9, <2>10 DEF TypeInv
  <1>2. ASSUME StopLoopEnds(p) PROVE TypeInv'
    <2>1. thread[p].pc = "stop" /\ Becomes(p, Doing("clear", Job(p), << >>))
      BY <1>2 DEF StopLoopEnds, At
    <2>2. Doing("clear", Job(p), << >>) \in ThreadState /\ Doing("clear", Job(p), << >>).pc = "clear"
      BY <1>0, <2>1, StateAt, DoingState DEF Job
    <2>3. UNCHANGED <<live, installed, table, found, shadow, port>> /\ ServerOK'
      BY <1>2 DEF StopLoopEnds, listening, server, TypeInv, ServerOK
    <2>4. QED
      BY <2>1, <2>2, <2>3, ThreadStepType
  <1>3. ASSUME StopRaises(p) PROVE TypeInv'
    <2>1. Becomes(p, Idle)
      BY <1>3 DEF StopRaises
    <2>2. UNCHANGED <<live, installed, table, found, shadow, port>> /\ ServerOK'
      BY <1>3 DEF StopRaises, listening, server, TypeInv, ServerOK
    <2>3. QED
      BY <2>1, <2>2, IdleState, ThreadStepType
  <1>4. ASSUME ClearTable(p) PROVE TypeInv'
    <2> DEFINE s == Doing(AfterStop(Job(p)), Job(p), << >>)
    <2>1. thread[p].pc = "clear" /\ Becomes(p, s)
      BY <1>4 DEF ClearTable, At
    <2>2. Job(p) \in Jobs /\ Job(p).op \in {"rescan", "unload", "discover"}
      BY <1>0, <2>1, StateAt DEF Job
    <2>3. s \in ThreadState /\ s.pc # "record"
      BY <2>2, DoingState DEF AfterStop, ScanOps
    <2>4. ThreadsOK'
      BY <2>1, <2>3, BecomesType DEF TypeInv
    <2>5. ListeningOK'
      BY <1>4 DEF ClearTable, TypeInv, ListeningOK
    <2>6. SetOK' /\ FoundOK' /\ ServerOK' /\ ShadowOK'
      BY <1>4 DEF ClearTable, TypeInv, SetOK, FoundOK, ServerOK, ShadowOK, live, server
    <2>7. QED
      BY <2>4, <2>5, <2>6 DEF TypeInv
  <1>5. QED
    BY <1>1, <1>2, <1>3, <1>4

LEMMA ScanType ==
    ASSUME TypeInv, NEW p \in Thread, Scan(p) \/ PushFound(p) \/ PushDone(p)
    PROVE  TypeInv'
  <1>0. thread[p] \in ThreadState
    BY DEF TypeInv, ThreadsOK
  <1>1. ASSUME Scan(p) PROVE TypeInv'
    <2> DEFINE s == State("push", Job(p), << >>, [unsent |-> Announcements])
    <2>1. thread[p].pc = "scan" /\ Becomes(p, s)
      BY <1>1 DEF Scan, At
    <2>2. Job(p) \in Jobs /\ Job(p).op \in ScanOps
      BY <1>0, <2>1, StateAt DEF Job
    <2>3. Announcements \subseteq Push
      BY LooperIdType DEF TypeInv, Announcements
    <2>5. s \in ThreadState /\ s.pc # "record"
      BY <2>2, <2>3, StateType
    <2>6. ThreadsOK'
      BY <2>1, <2>5, BecomesType DEF TypeInv
    <2>7. FoundOK'
      <3>1. found' = [i \in LooperIds |-> tracks[i]]
        BY <1>1 DEF Scan, Discovered
      <3>2. QED
        BY <3>1, LooperIdType DEF TypeInv, FoundOK, Range
    <2>8. SetOK' /\ ListeningOK' /\ ServerOK' /\ ShadowOK'
      BY <1>1 DEF Scan, TypeInv, SetOK, ListeningOK, ServerOK, ShadowOK, live, listening, server
    <2>9. QED
      BY <2>6, <2>7, <2>8 DEF TypeInv
  <1>2. ASSUME PushFound(p) PROVE TypeInv'
    <2> DEFINE s(e) == State("push", Job(p), << >>, [unsent |-> thread[p].item.unsent \ {e}])
    <2>1. PICK e \in Lowest(thread[p].item.unsent) : SendEvent(e) /\ Becomes(p, s(e))
      BY <1>2 DEF PushFound
    <2>2. /\ Job(p) \in Jobs /\ Job(p).op \in ScanOps
          /\ thread[p].item \in [unsent : SUBSET Push]
      BY <1>0, <1>2, StateAt DEF PushFound, At, Job
    <2>6. s(e) \in ThreadState /\ s(e).pc # "record"
      BY <2>2, StateType
    <2>7. ThreadsOK'
      BY <2>1, <2>6, BecomesType DEF TypeInv
    <2>8. e \in Push
      BY <2>1, <2>2 DEF Lowest
    <2>9. ShadowOK'
      BY <2>1, <2>8, SendType, PluginAssumption DEF TypeInv
    <2>10. SetOK' /\ ListeningOK' /\ FoundOK' /\ ServerOK'
      BY <1>2 DEF PushFound, TypeInv, SetOK, ListeningOK, FoundOK, ServerOK, live, listening, server
    <2>11. QED
      BY <2>7, <2>9, <2>10 DEF TypeInv
  <1>3. ASSUME PushDone(p) PROVE TypeInv'
    <2>1. thread[p].pc = "push" /\ Becomes(p, Doing("install", Job(p), tracks))
      BY <1>3 DEF PushDone, At
    <2>2. Doing("install", Job(p), tracks) \in ThreadState /\ Doing("install", Job(p), tracks).pc = "install"
      BY <1>0, <2>1, StateAt, DoingState DEF Job, TypeInv, SetOK
    <2>3. UNCHANGED <<live, installed, table, found, shadow, port>> /\ ServerOK'
      BY <1>3 DEF PushDone, listening, server, TypeInv, ServerOK
    <2>4. QED
      BY <2>1, <2>2, <2>3, ThreadStepType
  <1>4. QED
    BY <1>1, <1>2, <1>3

LEMMA InstallType ==
    ASSUME TypeInv, NEW p \in Thread, Install(p) \/ Record(p) \/ InstallDone(p)
    PROVE  TypeInv'
  <1>0. thread[p] \in ThreadState
    BY DEF TypeInv, ThreadsOK
  <1>1. ASSUME Install(p) PROVE TypeInv'
    <2> DEFINE t == Head(thread[p].rest)
               l == CHOOSE x \in Unused : TRUE
    <2>1. /\ Job(p) \in Jobs /\ Job(p).op \in ScanOps
          /\ thread[p].rest \in Seq(Track) /\ thread[p].rest # << >>
      BY <1>0, <1>1, StateAt DEF Install, At, Job
    <2>2. t \in Track /\ Tail(thread[p].rest) \in Seq(Track)
      BY <2>1, HeadTailProperties
    <2>3. SetOK' /\ FoundOK' /\ ServerOK' /\ ShadowOK' /\ table' = table
      BY <1>1 DEF Install, TypeInv, SetOK, FoundOK, ServerOK, ShadowOK, live, server
    <2>4. CASE t \in Range(tracks) \cap Looper
      <3> DEFINE s == State("record", Job(p), thread[p].rest, l)
      <3>1. /\ Unused # {}
            /\ installed' = [installed EXCEPT ![t] = @ \cup {l}]
            /\ Becomes(p, s)
        BY <1>1, <2>4 DEF Install
      <3>2. l \in Listener
        BY <3>1 DEF Unused
      <3>3. s.rest = thread[p].rest
        BY DEF State
      <3>4. s \in ThreadState /\ Head(s.rest) \in Looper
        BY <2>1, <2>4, <3>2, <3>3, StateType
      <3>5. ThreadsOK'
        BY <3>1, <3>4, BecomesType DEF TypeInv
      <3>6. \A u \in Track : IsFiniteSet(installed'[u])
        <4>1. IsFiniteSet(installed[t] \cup {l})
          BY <2>2, FS_AddElement DEF TypeInv, ListeningOK
        <4>2. QED
          BY <3>1, <4>1 DEF TypeInv, ListeningOK
      <3>7. ListeningOK'
        BY <2>3, <3>1, <3>2, <3>6 DEF TypeInv, ListeningOK
      <3>8. QED
        BY <2>3, <3>5, <3>7 DEF TypeInv
    <2>5. CASE t \notin Range(tracks) \cap Looper
      <3> DEFINE s == Doing("install", Job(p), Tail(thread[p].rest))
      <3>1. Becomes(p, s) /\ installed' = installed
        BY <1>1, <2>5 DEF Install
      <3>2. s \in ThreadState /\ s.pc = "install"
        BY <2>1, <2>2, DoingState, Zenon
      <3>3. s \in ThreadState /\ s.pc # "record"
        BY <3>2
      <3>4. ThreadsOK'
        BY <3>1, <3>3, BecomesType DEF TypeInv
      <3>5. QED
        BY <2>3, <3>1, <3>4 DEF TypeInv, ListeningOK
    <2>6. QED
      BY <2>4, <2>5
  <1>2. ASSUME Record(p) PROVE TypeInv'
    <2> DEFINE t == Head(thread[p].rest)
               l == thread[p].item
    <2>1. /\ thread[p].pc = "record" /\ Job(p) \in Jobs /\ Job(p).op \in ScanOps
          /\ thread[p].rest \in Seq(Track) /\ thread[p].rest # << >> /\ l \in Listener
      BY <1>0, <1>2, StateAt DEF Record, At, Job
    <2>2. Tail(thread[p].rest) \in Seq(Track) /\ t \in Looper
      BY <2>1, HeadTailProperties DEF TypeInv, ThreadsOK, At
    <2>3. ThreadsOK'
      <3>1. Becomes(p, Doing("install", Job(p), Tail(thread[p].rest)))
        BY <1>2 DEF Record
      <3>2. QED
        BY <2>1, <2>2, <3>1, DoingState, BecomesType DEF TypeInv
    <2>4. Recorded(t, l) \in Seq(Entry)
      <3>1. table \in Seq(Entry) /\ DOMAIN table = 1..Len(table) /\ Len(table) \in Nat
        BY LenProperties DEF TypeInv, ListeningOK
      <3>2. CASE \E i \in DOMAIN table : table[i].track = t
        <4>1. \A i \in DOMAIN table :
                  (IF table[i].track = t THEN [table[i] EXCEPT !.listeners = @ \cup {l}]
                   ELSE table[i]) \in Entry
          <5> SUFFICES ASSUME NEW i \in DOMAIN table
                       PROVE  [table[i] EXCEPT !.listeners = @ \cup {l}] \in Entry /\ table[i] \in Entry
            OBVIOUS
          <5>1. table[i] \in Entry
            BY <3>1, ElementOfSeq
          <5>2. QED
            BY <2>1, <5>1 DEF Entry
        <4>2. QED
          BY <3>1, <3>2, <4>1 DEF Recorded
      <3>3. CASE ~\E i \in DOMAIN table : table[i].track = t
        <4>1. [track |-> t, listeners |-> {l}] \in Entry
          BY <2>1, <2>2 DEF Entry
        <4>2. QED
          BY <3>1, <3>3, <4>1, AppendProperties DEF Recorded
      <3>4. QED
        BY <3>2, <3>3
    <2>5. ListeningOK'
      BY <1>2, <2>4 DEF Record, TypeInv, ListeningOK
    <2>6. SetOK' /\ FoundOK' /\ ServerOK' /\ ShadowOK'
      BY <1>2 DEF Record, TypeInv, SetOK, FoundOK, ServerOK, ShadowOK, live, server
    <2>7. QED
      BY <2>3, <2>5, <2>6 DEF TypeInv
  <1>3. ASSUME InstallDone(p) PROVE TypeInv'
    <2>1. thread[p].pc = "install" /\ Job(p) \in Jobs /\ Job(p).op \in ScanOps
      BY <1>0, <1>3, StateAt DEF InstallDone, At, Job
    <2>2. UNCHANGED <<live, installed, table, found, shadow, port>> /\ ServerOK'
      BY <1>3 DEF InstallDone, listening, server, TypeInv, ServerOK
    <2>3. CASE Job(p).op = "boot"
      <3>1. Becomes(p, Doing("hook", Job(p), << >>))
        BY <1>3, <2>3 DEF InstallDone
      <3>2. QED
        BY <2>1, <2>2, <2>3, <3>1, DoingState, ThreadStepType
    <2>4. CASE Job(p).op = "rescan"
      <3>1. Becomes(p, Idle)
        BY <1>3, <2>4 DEF InstallDone
      <3>2. QED
        BY <2>2, <3>1, IdleState, ThreadStepType
    <2>5. CASE Job(p).op = "discover"
      <3>1. Becomes(p, Answering(Job(p), TRUE))
        BY <1>3, <2>5 DEF InstallDone
      <3>2. QED
        BY <2>1, <2>2, <2>5, <3>1, JobType, AnsweringState, ThreadStepType
    <2>6. QED
      BY <2>1, <2>3, <2>4, <2>5 DEF ScanOps
  <1>4. QED
    BY <1>1, <1>2, <1>3

LEMMA NotifyType ==
    ASSUME TypeInv, NEW p \in Thread, ReadChanged(p) \/ SendChanged(p) \/ NotifyDone(p)
    PROVE  TypeInv'
  <1>0. thread[p] \in ThreadState
    BY DEF TypeInv, ThreadsOK
  <1>1. ASSUME ReadChanged(p) PROVE TypeInv'
    <2> DEFINE found_at == Matches(Head(thread[p].rest))
               s1 == Doing("notify", Job(p), Tail(thread[p].rest))
               s2 == State("send", Job(p), Tail(thread[p].rest), Read(Min(found_at)))
    <2>1. /\ Job(p) \in Jobs /\ Job(p).op \in {"edit", "set_feedback"}
          /\ thread[p].rest \in Seq(Looper) /\ thread[p].rest # << >>
      BY <1>0, <1>1, StateAt DEF ReadChanged, At, Job
    <2>2. Tail(thread[p].rest) \in Seq(Looper)
      BY <2>1, HeadTailProperties
    <2>3. UNCHANGED <<live, installed, table, found, shadow, port>> /\ ServerOK'
      BY <1>1 DEF ReadChanged, listening, server, TypeInv, ServerOK
    <2>4. Becomes(p, IF found_at = {} THEN s1 ELSE s2)
      BY <1>1 DEF ReadChanged
    <2>5. CASE found_at = {}
      <3>1. s1 \in ThreadState /\ s1.pc # "record"
        BY <2>1, <2>2, DoingState
      <3>2. QED
        BY <2>3, <2>4, <2>5, <3>1, ThreadStepType
    <2>6. CASE found_at # {}
      <3>1. found_at \subseteq LooperIds /\ found_at \in SUBSET Nat
        BY LooperIdType DEF Matches, TypeInv
      <3>2. Read(Min(found_at)) \in Push
        BY <2>6, <3>1, FirstPosition, LooperIdType DEF TypeInv
      <3>3. s2 \in ThreadState /\ s2.pc # "record"
        BY <2>1, <2>2, <3>2, StateType
      <3>4. QED
        BY <2>3, <2>4, <2>6, <3>3, ThreadStepType
    <2>7. QED
      BY <2>5, <2>6
  <1>2. ASSUME SendChanged(p) PROVE TypeInv'
    <2>1. /\ thread[p].pc = "send" /\ Job(p) \in Jobs /\ Job(p).op \in {"edit", "set_feedback"}
          /\ thread[p].rest \in Seq(Looper) /\ thread[p].item \in Push
      BY <1>0, <1>2, StateAt DEF SendChanged, At, Job
    <2>2. ThreadsOK'
      <3>1. Becomes(p, Doing("notify", Job(p), thread[p].rest))
        BY <1>2 DEF SendChanged
      <3>2. QED
        BY <2>1, <3>1, DoingState, BecomesType DEF TypeInv
    <2>3. ShadowOK'
      BY <1>2, <2>1, SendType, PluginAssumption DEF SendChanged, TypeInv
    <2>4. SetOK' /\ ListeningOK' /\ FoundOK' /\ ServerOK'
      BY <1>2 DEF SendChanged, TypeInv, SetOK, ListeningOK, FoundOK, ServerOK, live, listening, server
    <2>5. QED
      BY <2>2, <2>3, <2>4 DEF TypeInv
  <1>3. ASSUME NotifyDone(p) PROVE TypeInv'
    <2>1. /\ thread[p].pc = "notify" /\ Job(p) \in Jobs /\ Job(p).op \in {"edit", "set_feedback"}
      BY <1>0, <1>3, StateAt DEF NotifyDone, At, Job
    <2>2. UNCHANGED <<live, installed, table, found, shadow, port>> /\ ServerOK'
      BY <1>3 DEF NotifyDone, listening, server, TypeInv, ServerOK
    <2>3. CASE Job(p).op = "edit"
      <3>1. Becomes(p, Idle)
        BY <1>3, <2>3 DEF NotifyDone
      <3>2. QED
        BY <2>2, <3>1, IdleState, ThreadStepType
    <2>4. CASE Job(p).op = "set_feedback"
      <3>1. Becomes(p, Answering(Job(p), TRUE))
        BY <1>3, <2>4 DEF NotifyDone
      <3>2. QED
        BY <2>1, <2>2, <2>4, <3>1, JobType, AnsweringState, ThreadStepType
    <2>5. QED
      BY <2>1, <2>3, <2>4
  <1>4. QED
    BY <1>1, <1>2, <1>3

LEMMA BootType ==
    ASSUME TypeInv, StartServer \/ ResetFound \/ HookTracks \/ StopServer
    PROVE  TypeInv'
  <1>0. Main \in Thread /\ thread[Main] \in ThreadState /\ Job(Main) \in Jobs
    BY StateAt DEF TypeInv, ThreadsOK, Thread, Job
  <1>1. ASSUME StartServer PROVE TypeInv'
    <2>1. thread[Main].pc = "start" /\ Becomes(Main, Doing("init", Job(Main), << >>))
      BY <1>1 DEF StartServer, At
    <2>2. Job(Main).op = "boot"
      BY <1>0, <2>1, StateAt DEF Job
    <2>3. UNCHANGED <<live, installed, table, found, shadow, port>> /\ ServerOK'
      BY <1>1 DEF StartServer, listening, TypeInv, ServerOK
    <2>4. QED
      BY <1>0, <2>1, <2>2, <2>3, DoingState, ThreadStepType
  <1>2. ASSUME ResetFound PROVE TypeInv'
    <2>1. thread[Main].pc = "init" /\ Becomes(Main, Doing("scan", Job(Main), << >>))
      BY <1>2 DEF ResetFound, At
    <2>2. Job(Main).op = "boot"
      BY <1>0, <2>1, StateAt DEF Job
    <2>3. ThreadsOK'
      BY <1>0, <2>1, <2>2, DoingState, BecomesType DEF TypeInv, ScanOps
    <2>4. FoundOK'
      BY <1>2 DEF ResetFound, FoundOK, Range
    <2>5. SetOK' /\ ListeningOK' /\ ServerOK' /\ ShadowOK'
      BY <1>2 DEF ResetFound, TypeInv, SetOK, ListeningOK, ServerOK, ShadowOK, live, listening, server
    <2>6. QED
      BY <2>3, <2>4, <2>5 DEF TypeInv
  <1>3. ASSUME HookTracks PROVE TypeInv'
    <2>1. UNCHANGED <<live, installed, table, found, shadow, port>> /\ ServerOK'
      BY <1>3 DEF HookTracks, listening, TypeInv, ServerOK
    <2>2. QED
      BY <1>0, <1>3, <2>1, IdleState, ThreadStepType DEF HookTracks
  <1>4. ASSUME StopServer PROVE TypeInv'
    <2>1. UNCHANGED <<live, installed, table, found, shadow, port>> /\ ServerOK'
      BY <1>4 DEF StopServer, listening, TypeInv, ServerOK
    <2>2. QED
      BY <1>0, <1>4, <2>1, IdleState, ThreadStepType DEF StopServer
  <1>5. QED
    BY <1>1, <1>2, <1>3, <1>4

\* _on_tracks_changed starts stop_listening, or is no longer called.
LEMMA TracksChangedType ==
    ASSUME TypeInv, TracksChanged
    PROVE  ThreadsOK'
  <1>1. CASE hooked
    <2>1. [op |-> "rescan"] \in Jobs
      BY DEF Jobs
    <2>2. Becomes(Main, Stopping([op |-> "rescan"])) /\ Main \in Thread
      BY <1>1 DEF TracksChanged, Thread
    <2>3. Stopping([op |-> "rescan"]) \in ThreadState /\ Stopping([op |-> "rescan"]).pc = "stop"
      BY <2>1, StoppingState DEF TypeInv
    <2>4. QED
      BY <2>2, <2>3, BecomesType DEF TypeInv
  <1>2. CASE ~hooked
    BY <1>2 DEF TracksChanged, TypeInv, ThreadsOK, At
  <1>3. QED
    BY <1>1, <1>2

LEMMA UserType ==
    ASSUME TypeInv, User
    PROVE  TypeInv'
  <1>0. Main \in Thread
    BY DEF Thread
  <1>1. ASSUME NEW t \in Track, NEW v \in Value, UserSetsParameter(t, v) PROVE TypeInv'
    <2>1. [op |-> "edit"] \in Jobs
      BY DEF Jobs
    <2>2. value' \in [Track -> Value] /\ ThreadsOK'
      BY <1>0, <1>1, <2>1, AssignType DEF UserSetsParameter, TypeInv
    <2>3. SetOK' /\ ListeningOK' /\ FoundOK' /\ ServerOK' /\ ShadowOK'
      BY <1>1, <2>2
      DEF UserSetsParameter, TypeInv, SetOK, ListeningOK, FoundOK, ServerOK, ShadowOK, listening, server
    <2>4. QED
      BY <2>2, <2>3 DEF TypeInv
  <1>2. ASSUME NEW t \in Track, NEW i \in 1..Len(tracks) + 1, UserInsertsTrack(t, i) PROVE TypeInv'
    <2>1. /\ tracks' = InsertAt(tracks, i, t) /\ t \notin Range(tracks)
          /\ UNCHANGED <<deleted, value, listening, found, server, shadow>>
      BY <1>2 DEF UserInsertsTrack
    <2>2. tracks' \in Seq(Track) /\ IsInjective(tracks')
      BY <2>1, Inserted, InsertedOnce DEF TypeInv, SetOK
    <2>3. ThreadsOK'
      BY <1>2, TracksChangedType DEF UserInsertsTrack
    <2>4. SetOK' /\ ListeningOK' /\ FoundOK' /\ ServerOK' /\ ShadowOK'
      BY <2>1, <2>2 DEF TypeInv, SetOK, ListeningOK, FoundOK, ServerOK, ShadowOK, listening, server
    <2>5. QED
      BY <2>3, <2>4 DEF TypeInv
  <1>3. ASSUME NEW i \in DOMAIN tracks, UserDeletesTrack(i) PROVE TypeInv'
    <2>1. /\ tracks' = RemoveAt(tracks, i) /\ deleted' = deleted \cup {tracks[i]}
          /\ installed' = [installed EXCEPT ![tracks[i]] = {}]
          /\ UNCHANGED <<value, table, found, server, shadow>>
      BY <1>3 DEF UserDeletesTrack
    <2>2. i \in 1..Len(tracks) /\ tracks[i] \in Track
      BY LenProperties, ElementOfSeq DEF TypeInv, SetOK
    <2>3. tracks' \in Seq(Track) /\ IsInjective(tracks')
      BY <2>1, <2>2, Removed, RemovedOnce DEF TypeInv, SetOK
    <2>4. ThreadsOK'
      BY <1>3, TracksChangedType DEF UserDeletesTrack
    <2>5. ListeningOK'
      BY <2>1, <2>2, FS_EmptySet DEF TypeInv, ListeningOK
    <2>6. SetOK' /\ FoundOK' /\ ServerOK' /\ ShadowOK'
      BY <2>1, <2>2, <2>3 DEF TypeInv, SetOK, FoundOK, ServerOK, ShadowOK, server
    <2>7. QED
      BY <2>4, <2>5, <2>6 DEF TypeInv
  <1>4. ASSUME Disconnect PROVE TypeInv'
    <2>1. [op |-> "unload"] \in Jobs
      BY DEF Jobs
    <2>2. Stopping([op |-> "unload"]) \in ThreadState /\ Stopping([op |-> "unload"]).pc = "stop"
      BY <2>1, StoppingState DEF TypeInv
    <2>3. UNCHANGED <<live, installed, table, found, shadow, port>> /\ ServerOK'
      BY <1>4 DEF Disconnect, listening, TypeInv, ServerOK
    <2>4. QED
      BY <1>0, <1>4, <2>2, <2>3, ThreadStepType DEF Disconnect
  <1>5. QED
    BY <1>1, <1>2, <1>3, <1>4 DEF User

LEMMA ReceiveType ==
    ASSUME TypeInv, NEW w \in Worker, Receive(w)
    PROVE  TypeInv'
  <1>0. w \in Thread
    BY DEF Thread
  <1>1. ASSUME NEW r \in Request, Hello(w, r) PROVE TypeInv'
    <2>1. Answering(r, TRUE) \in ThreadState /\ Answering(r, TRUE).pc = "reply"
      BY RequestType, AnsweringState
    <2>2. ThreadsOK'
      BY <1>0, <1>1, <2>1, BecomesType DEF Hello, TypeInv
    <2>3. ServerOK'
      BY <1>1, RequestType DEF Hello, TypeInv, ServerOK
    <2>4. SetOK' /\ ListeningOK' /\ FoundOK' /\ ShadowOK'
      BY <1>1 DEF Hello, TypeInv, SetOK, ListeningOK, FoundOK, ShadowOK, live, listening
    <2>5. QED
      BY <2>2, <2>3, <2>4 DEF TypeInv
  <1>2. ASSUME NEW r \in Request, Decline(w, r) PROVE TypeInv'
    <2> DEFINE success == r.op = "ping"
    <2>1. Becomes(w, Answering(r, success)) /\ success \in BOOLEAN
      BY <1>2 DEF Decline
    <2> HIDE DEF success
    <2>2. Answering(r, success) \in ThreadState /\ Answering(r, success).pc = "reply"
      BY <2>1, RequestType, AnsweringState
    <2>3. UNCHANGED <<live, installed, table, found, shadow, port>> /\ ServerOK'
      BY <1>2 DEF Decline, listening, server, TypeInv, ServerOK
    <2>4. QED
      BY <1>0, <2>1, <2>2, <2>3, ThreadStepType
  <1>3. ASSUME NEW r \in Request, Discover(w, r) PROVE TypeInv'
    <2>1. Stopping(r) \in ThreadState /\ Stopping(r).pc = "stop"
      BY <1>3, RequestType, StoppingState DEF Discover, TypeInv
    <2>2. UNCHANGED <<live, installed, table, found, shadow, port>> /\ ServerOK'
      BY <1>3 DEF Discover, listening, server, TypeInv, ServerOK
    <2>3. QED
      BY <1>0, <1>3, <2>1, <2>2, ThreadStepType DEF Discover
  <1>4. ASSUME NEW r \in Request, SetFeedback(w, r) PROVE TypeInv'
    <2>1. UNCHANGED <<live, installed, table, found, shadow, port>> /\ ServerOK'
      BY <1>4 DEF SetFeedback, listening, server, TypeInv, ServerOK
    <2>2. CASE r.id \in DOMAIN found
      <3>1. Doing("apply", r, << >>) \in ThreadState /\ Doing("apply", r, << >>).pc = "apply"
        BY <1>4, RequestType, DoingState DEF SetFeedback
      <3>2. QED
        BY <1>0, <1>4, <2>1, <2>2, <3>1, ThreadStepType DEF SetFeedback
    <2>3. CASE r.id \notin DOMAIN found
      <3>1. Answering(r, FALSE) \in ThreadState /\ Answering(r, FALSE).pc = "reply"
        BY RequestType, AnsweringState
      <3>2. QED
        BY <1>0, <1>4, <2>1, <2>3, <3>1, ThreadStepType DEF SetFeedback
    <2>4. QED
      BY <2>2, <2>3
  <1>5. QED
    BY <1>1, <1>2, <1>3, <1>4 DEF Receive

LEMMA AnswerType ==
    ASSUME TypeInv, NEW w \in Worker, Apply(w) \/ Reply(w)
    PROVE  TypeInv'
  <1>0. w \in Thread /\ thread[w] \in ThreadState
    BY DEF Thread, TypeInv, ThreadsOK
  <1>1. ASSUME Apply(w) PROVE TypeInv'
    <2>1. Job(w) \in Jobs /\ Job(w).op = "set_feedback"
      BY <1>0, <1>1, StateAt DEF Apply, At, Job
    <2>2. Job(w).op \in Op /\ Job(w).value \in Value
      BY <2>1, JobType
    <2>3. UNCHANGED <<tracks, deleted, listening, found, server, shadow>>
      BY <1>1 DEF Apply
    <2>4. value' \in [Track -> Value] /\ ThreadsOK'
      <3>1. CASE Job(w).id \in LooperIds
        <4>1. tracks[Job(w).id] \in Looper
          BY <3>1 DEF LooperIds
        <4>2. Assign(w, tracks[Job(w).id], Job(w).value, Job(w))
          BY <1>1, <3>1 DEF Apply
        <4>3. QED
          BY <1>0, <2>1, <2>2, <4>1, <4>2, AssignType DEF TypeInv
      <3>2. CASE Job(w).id \notin LooperIds
        <4>1. Becomes(w, Answering(Job(w), FALSE)) /\ value' = value
          BY <1>1, <3>2 DEF Apply
        <4>2. Answering(Job(w), FALSE) \in ThreadState /\ Answering(Job(w), FALSE).pc = "reply"
          BY <2>1, <2>2, AnsweringState
        <4>3. QED
          BY <1>0, <4>1, <4>2, BecomesType DEF TypeInv, SetOK
      <3>3. QED
        BY <3>1, <3>2
    <2>5. SetOK' /\ ListeningOK' /\ FoundOK' /\ ServerOK' /\ ShadowOK'
      BY <2>3, <2>4 DEF TypeInv, SetOK, ListeningOK, FoundOK, ServerOK, ShadowOK, listening, server
    <2>6. QED
      BY <2>4, <2>5 DEF TypeInv
  <1>2. ASSUME Reply(w) PROVE TypeInv'
    <2>1. UNCHANGED <<live, installed, table, found, shadow, port>> /\ ServerOK'
      BY <1>2 DEF Reply, listening, server, TypeInv, ServerOK
    <2>2. QED
      BY <1>0, <1>2, <2>1, IdleState, ThreadStepType DEF Reply
  <1>3. QED
    BY <1>1, <1>2

LEMMA InitType == Init => TypeInv
  <1> SUFFICES ASSUME Init PROVE TypeInv
    OBVIOUS
  <1>1. SetOK
    BY InitialAssumption DEF Init, SetOK
  <1>2. ListeningOK
    BY FS_EmptySet DEF Init, ListeningOK
  <1>3. FoundOK /\ ServerOK /\ ShadowOK
    <2>1. DOMAIN << >> = {}
      OBVIOUS
    <2>2. FoundOK
      BY <2>1 DEF Init, FoundOK, Range
    <2>3. ServerOK
      BY DEF Init, ServerOK
    <2>4. ShadowOK
      BY <2>1 DEF Init, ShadowOK
    <2>5. QED
      BY <2>2, <2>3, <2>4
  <1>4. ThreadsOK
    <2> DEFINE boot == Doing("start", [op |-> "boot"], << >>)
    <2>1. boot \in ThreadState /\ boot.pc = "start"
      BY DEF Doing, State, Jobs, Outcome, Outcomes, ThreadState, States
    <2>2. thread = [p \in Thread |-> IF p = Main THEN boot ELSE Idle]
      BY DEF Init
    <2> HIDE DEF boot
    <2>3. QED
      BY <2>1, <2>2, IdleState DEF ThreadsOK, At
  <1>5. QED
    BY <1>1, <1>2, <1>3, <1>4 DEF TypeInv

\* Every step keeps the types, whichever thread takes it.
LEMMA StepType == TypeInv /\ [Next]_vars => TypeInv'
  <1> SUFFICES ASSUME TypeInv, [Next]_vars PROVE TypeInv'
    OBVIOUS
  <1>1. ASSUME NEW p \in Thread, Continue(p) PROVE TypeInv'
    BY <1>1, StopType, ScanType, InstallType, NotifyType DEF Continue
  <1>2. CASE ContinueMain
    BY <1>1, <1>2, BootType DEF ContinueMain, Thread
  <1>3. ASSUME NEW w \in Worker, ContinueWorker(w) PROVE TypeInv'
    BY <1>1, <1>3, AnswerType DEF ContinueWorker, Thread
  <1>4. CASE UNCHANGED vars
    BY <1>4 DEF vars, TypeInv, SetOK, ListeningOK, FoundOK, ServerOK, ThreadsOK, ShadowOK, At
  <1>5. QED
    BY <1>2, <1>3, <1>4, UserType, ReceiveType DEF Next

LEMMA TypesHold == Spec => []TypeInv
  <1>1. TypeInv /\ [Next]_vars => TypeInv'
    BY StepType
  <1>2. QED
    BY InitType, <1>1, PTL DEF Spec

\* However threads and edits interleave, discover included, every thread is
\* where its code can be, with a job of that place; ids stay within the list
\* of tracks, pushes within their row and walks within the set.
THEOREM ScriptTypeOK == Spec => []TypeOK
  BY TypesHold, TypeInvImpliesTypeOK, PTL

\* `value` has one entry per track that may ever exist: an assignment changes
\* the entry it names and no other.
ValueIsFunction == value = [t \in Track |-> value[t]]

\* Setting an entry leaves the entries of the tracks outside Looper alone, when
\* the track it belongs to is in Looper.
LEMMA AssignSparesOthers ==
    ASSUME ValueIsFunction,
           NEW p, NEW t \in Looper, NEW v, NEW job,
           Assign(p, t, v, job)
    PROVE  /\ ValueIsFunction'
           /\ \A u \in Track \ Looper : value'[u] = value[u]
PROOF
  BY DEF Assign, ValueIsFunction

\* What a thread does next, whatever it is in the middle of, assigns nothing:
\* only the user and set_feedback's second half do.
LEMMA ContinueSparesValues ==
    ASSUME NEW p, Continue(p)
    PROVE  value' = value
PROOF
  BY DEF Continue, StopEntry, StopLoopEnds, StopRaises, ClearTable, Scan,
         PushFound, PushDone, Install, Record, InstallDone, ReadChanged,
         SendChanged, NotifyDone, live

\* One step of the system: values stay a function on the tracks, and those of
\* devices that are not loopers stay what they are.
LEMMA StepSparesOthers ==
    ASSUME ValueIsFunction, [Next]_vars
    PROVE  /\ ValueIsFunction'
           /\ \A u \in Track \ Looper : value'[u] = value[u]
PROOF
  <1> DEFINE Spared == /\ ValueIsFunction'
                       /\ \A u \in Track \ Looper : value'[u] = value[u]
  <1>0. value' = value => Spared
    BY DEF ValueIsFunction
  <1>1. ASSUME ContinueMain PROVE Spared
    <2>1. value' = value
      BY <1>1, ContinueSparesValues
      DEF ContinueMain, StartServer, ResetFound, HookTracks, StopServer, live
    <2> QED BY <1>0, <2>1
  <1>2. ASSUME NEW w \in Worker, ContinueWorker(w) PROVE Spared
    <2>1. CASE Apply(w)
      <3>1. CASE Job(w).id \in LooperIds
        <4>1. tracks[Job(w).id] \in Looper
          BY <3>1 DEF LooperIds
        <4>2. Assign(w, tracks[Job(w).id], Job(w).value, Job(w))
          BY <2>1, <3>1 DEF Apply
        <4> QED BY <4>1, <4>2, AssignSparesOthers
      <3>2. CASE Job(w).id \notin LooperIds
        <4>1. value' = value
          BY <2>1, <3>2 DEF Apply
        <4> QED BY <1>0, <4>1
      <3> QED BY <3>1, <3>2
    <2>2. CASE ~Apply(w)
      <3>1. value' = value
        BY <1>2, <2>2, ContinueSparesValues DEF ContinueWorker, Reply, live
      <3> QED BY <1>0, <3>1
    <2> QED BY <2>1, <2>2
  <1>3. ASSUME User PROVE Spared
    <2>1. ASSUME NEW t \in Track, NEW v \in Value, UserSetsParameter(t, v) PROVE Spared
      <3>1. t \in Looper /\ Assign(Main, t, v, [op |-> "edit"])
        BY <2>1 DEF UserSetsParameter
      <3> QED BY <3>1, AssignSparesOthers
    <2>2. ASSUME NEW t \in Track, NEW i, UserInsertsTrack(t, i) PROVE Spared
      BY <1>0, <2>2 DEF UserInsertsTrack
    <2>3. ASSUME NEW i, UserDeletesTrack(i) PROVE Spared
      BY <1>0, <2>3 DEF UserDeletesTrack
    <2>4. CASE Disconnect
      BY <1>0, <2>4 DEF Disconnect, live
    <2> QED BY <1>3, <2>1, <2>2, <2>3, <2>4 DEF User
  <1>4. ASSUME NEW w \in Worker, Receive(w) PROVE Spared
    <2>1. value' = value
      BY <1>4 DEF Receive, Hello, Decline, Discover, SetFeedback, live
    <2> QED BY <1>0, <2>1
  <1>5. CASE UNCHANGED vars
    <2>1. value' = value BY <1>5 DEF vars
    <2> QED BY <1>0, <2>1
  <1> QED BY <1>1, <1>2, <1>3, <1>4, <1>5 DEF Next

\* However stale the index a command carries and however handlers and edits
\* interleave, no device that is not a looper is ever written
\* (LooperDiscovery._set_looper_param).
THEOREM NothingElseWritten == Spec => OnlyLoopersWritten
PROOF
  <1>1. Init => ValueIsFunction
    BY DEF Init, ValueIsFunction
  <1>2. ValueIsFunction /\ [Next]_vars =>
            ValueIsFunction' /\ [\A t \in Track \ Looper : value'[t] = value[t]]_vars
    BY StepSparesOthers
  <1> QED BY <1>1, <1>2, PTL DEF Spec, OnlyLoopersWritten
----------------------------------------------------------------------------
(* Listeners.  The shipped plugin never sends discover, so the main thread  *)
(* alone scans, and nothing changes the tables under it.                    *)

\* Only Live's main thread walks the tables; it answers nobody.
MainAlone ==
    /\ \A w \in Worker : thread[w].pc \in {"idle", "apply", "notify", "send", "reply"}
    /\ thread[Main].pc \notin {"apply", "reply"}
    /\ thread[Main].pc \in {"notify", "send"} => Job(Main).op = "edit"

\* Where the main thread's walk of _param_listeners has got to.
From == IF At(Main, "stop") THEN thread[Main].item.next ELSE 1
InTable(t, l, from) ==
    \E i \in DOMAIN table : i >= from /\ table[i].track = t /\ l \in table[i].listeners

\* What is attached is still ahead of the walk, which nobody disturbs, or is
\* being recorded.
AccountedOK ==
    /\ At(Main, "stop") => thread[Main].item.used = Len(table)
    /\ \A t \in Track : \A l \in installed[t] :
          \/ InTable(t, l, From)
          \/ At(Main, "record") /\ l = thread[Main].item /\ t = Head(thread[Main].rest)

\* The tracks of S have one listener each, the others none.
OneEach(S) ==
    \A t \in Track : IF t \in S THEN \E l \in Listener : installed[t] = {l} ELSE installed[t] = {}
LooperTracks == Range(tracks) \cap Looper
Quiet == thread[Main].pc \in {"idle", "notify", "send"}

HeardOK ==
    LET rest == thread[Main].rest
    IN /\ thread[Main].pc \in {"start", "init", "clear", "scan", "push", "halt"} => OneEach({})
       /\ At(Main, "install") => IsInjective(rest) /\ OneEach(LooperTracks \ Range(rest))
       /\ At(Main, "record") => IsInjective(rest) /\ OneEach(LooperTracks \ Range(Tail(rest)))
       /\ At(Main, "hook") => OneEach(LooperTracks)
       /\ Quiet => OneEach(IF unloaded THEN {} ELSE LooperTracks)

\* Which of Live's callbacks are registered, by what the main thread does.
FlagsOK ==
    /\ Job(Main).op = "boot" => ~unloaded
    /\ Job(Main).op = "rescan" => hooked /\ ~unloaded
    /\ Job(Main).op = "unload" => unloaded
    /\ Quiet => IF unloaded THEN ~hooked /\ ~serving ELSE hooked

AloneInv == MainAlone /\ AccountedOK /\ HeardOK /\ FlagsOK

LEMMA MainBecomes ==
    ASSUME ThreadsOK, ThreadAssumption, MainAlone, NEW s, Becomes(Main, s),
           s.pc \notin {"apply", "reply"},
           s.pc \in {"notify", "send"} => s.job.op = "edit"
    PROVE  thread'[Main] = s /\ MainAlone'
  <1>1. Main \in Thread /\ Worker \subseteq Thread /\ Main \notin Worker
    BY ThreadAssumption DEF Thread
  <1>2. thread'[Main] = s /\ \A w \in Worker : thread'[w] = thread[w]
    BY <1>1 DEF Becomes, ThreadsOK
  <1>3. QED
    BY <1>2 DEF MainAlone, Job

\* What a worker does without discover disturbs nothing of all this.
LEMMA WorkerBecomes ==
    ASSUME ThreadsOK, ThreadAssumption, AloneInv, NEW w \in Worker, NEW s, Becomes(w, s),
           s.pc \in {"idle", "apply", "notify", "send", "reply"},
           UNCHANGED <<tracks, installed, table, hooked, serving, unloaded>>
    PROVE  AloneInv'
  <1>1. Main \in Thread /\ Worker \subseteq Thread /\ Main \notin Worker
    BY ThreadAssumption DEF Thread
  <1>2. thread'[Main] = thread[Main] /\ \A v \in Worker : thread'[v] \in {thread[v], s}
    BY <1>1 DEF Becomes, ThreadsOK
  <1>3. MainAlone'
    BY <1>2 DEF AloneInv, MainAlone, Job
  <1>4. AccountedOK'
    BY <1>2 DEF AloneInv, AccountedOK, InTable, From, At
  <1>5. HeardOK' /\ FlagsOK'
    BY <1>2 DEF AloneInv, HeardOK, FlagsOK, OneEach, LooperTracks, Quiet, At, Job
  <1>6. QED
    BY <1>3, <1>4, <1>5 DEF AloneInv

\* The main thread goes on elsewhere, with all listeners as they were.
LEMMA StillAccounted ==
    ASSUME AccountedOK, installed' = installed, table' = table,
           thread[Main].pc \notin {"stop", "record"}, thread'[Main].pc # "stop"
    PROVE  AccountedOK'
  BY DEF AccountedOK, InTable, From, At

LEMMA NothingToAccount ==
    ASSUME OneEach({}), installed' = installed, thread'[Main].pc # "stop"
    PROVE  AccountedOK' /\ OneEach({})'
  BY DEF AccountedOK, OneEach, At

\* stop_listening as the main thread runs it: it gets through the table and
\* then no listener of the script's is attached anywhere.
LEMMA StopAlone ==
    ASSUME TypeInv, ThreadAssumption, AloneInv,
           StopEntry(Main) \/ StopLoopEnds(Main) \/ StopRaises(Main) \/ ClearTable(Main)
    PROVE  AloneInv'
  <1> DEFINE it == thread[Main].item
  <1>0. Main \in Thread /\ thread[Main] \in ThreadState
    BY DEF TypeInv, ThreadsOK, Thread
  <1>1. ASSUME StopEntry(Main) PROVE AloneInv'
    <2> DEFINE s == State("stop", Job(Main), << >>, [it EXCEPT !.next = @ + 1])
    <2>1. /\ At(Main, "stop") /\ it.used = Len(table) /\ it.next <= Len(table)
          /\ installed' = [installed EXCEPT ![table[it.next].track] = @ \ table[it.next].listeners]
          /\ Becomes(Main, s) /\ UNCHANGED <<live, table, found, server, shadow>>
      BY <1>1 DEF StopEntry
    <2>2. it \in [next : Nat \ {0}, used : Nat]
      BY <1>0, <2>1, StateAt DEF At
    <2>3. s.pc = "stop" /\ s.job = Job(Main) /\ s.item.next = it.next + 1 /\ s.item.used = it.used
      BY <2>2 DEF State
    <2>4. thread'[Main] = s /\ MainAlone'
      BY <2>1, <2>3, MainBecomes DEF TypeInv, AloneInv
    <2> HIDE DEF s
    <2>5. From' = it.next + 1 /\ From = it.next
      BY <2>1, <2>3, <2>4 DEF From, At
    <2>6. ASSUME NEW t \in Track, NEW l \in installed'[t] PROVE InTable(t, l, From)'
      <3>1. l \in installed[t]
        BY <2>1, <2>6 DEF TypeInv, ListeningOK
      <3>2. PICK i \in DOMAIN table : i >= it.next /\ table[i].track = t /\ l \in table[i].listeners
        BY <2>1, <2>5, <3>1 DEF AloneInv, AccountedOK, InTable, At
      <3>3. i # it.next
        BY <2>1, <2>6, <3>2 DEF TypeInv, ListeningOK
      <3>4. i \in Nat /\ it.next \in Nat
        BY <2>2, LenProperties DEF TypeInv, ListeningOK
      <3>5. i >= it.next + 1 /\ table' = table
        BY <2>1, <3>2, <3>3, <3>4
      <3>6. QED
        BY <2>5, <3>2, <3>5 DEF InTable
    <2>7. AccountedOK'
      BY <2>1, <2>3, <2>4, <2>6 DEF AccountedOK, At
    <2>8. HeardOK' /\ FlagsOK'
      BY <2>1, <2>3, <2>4 DEF AloneInv, HeardOK, FlagsOK, Quiet, At, Job, server
    <2>9. QED
      BY <2>4, <2>7, <2>8 DEF AloneInv
  <1>2. ASSUME StopLoopEnds(Main) PROVE AloneInv'
    <2> DEFINE s == Doing("clear", Job(Main), << >>)
    <2>1. /\ At(Main, "stop") /\ it.next > Len(table) /\ Becomes(Main, s)
          /\ UNCHANGED <<live, listening, found, server, shadow>>
      BY <1>2 DEF StopLoopEnds
    <2>2. s.pc = "clear" /\ s.job = Job(Main)
      BY DEF Doing, State
    <2>3. thread'[Main] = s /\ MainAlone'
      BY <2>1, <2>2, MainBecomes DEF TypeInv, AloneInv
    <2> HIDE DEF s
    <2>4. ASSUME NEW t \in Track, NEW l \in installed[t] PROVE FALSE
      <3>1. PICK i \in DOMAIN table : i >= it.next
        BY <2>1, <2>4 DEF AloneInv, AccountedOK, InTable, From, At
      <3>2. i \in 1..Len(table) /\ Len(table) \in Nat /\ it.next \in Nat
        BY <1>0, <2>1, StateAt, LenProperties DEF TypeInv, ListeningOK, At
      <3>3. QED
        BY <2>1, <3>1, <3>2
    <2>5. OneEach({})
      BY <2>4 DEF OneEach, TypeInv, ListeningOK
    <2>6. AccountedOK' /\ OneEach({})'
      BY <2>1, <2>2, <2>3, <2>5, NothingToAccount DEF listening
    <2>7. HeardOK' /\ FlagsOK'
      BY <2>1, <2>2, <2>3, <2>6 DEF AloneInv, HeardOK, FlagsOK, Quiet, At, Job, server
    <2>8. QED
      BY <2>3, <2>6, <2>7 DEF AloneInv
  <1>3. ASSUME StopRaises(Main) PROVE FALSE
    BY <1>3 DEF StopRaises, AloneInv, AccountedOK
  <1>4. ASSUME ClearTable(Main) PROVE AloneInv'
    <2> DEFINE s == Doing(AfterStop(Job(Main)), Job(Main), << >>)
    <2>1. /\ thread[Main].pc = "clear" /\ Becomes(Main, s)
          /\ UNCHANGED <<live, installed, found, server, shadow>>
      BY <1>4 DEF ClearTable, At
    <2>2. s.pc \in {"scan", "halt"} /\ s.job = Job(Main)
      BY DEF Doing, State, AfterStop
    <2>3. thread'[Main] = s /\ MainAlone'
      BY <2>1, <2>2, MainBecomes DEF TypeInv, AloneInv
    <2> HIDE DEF s
    <2>4. AccountedOK' /\ OneEach({})'
      BY <2>1, <2>2, <2>3, NothingToAccount DEF AloneInv, HeardOK
    <2>5. HeardOK' /\ FlagsOK'
      BY <2>1, <2>2, <2>3, <2>4 DEF AloneInv, HeardOK, FlagsOK, Quiet, At, Job, server
    <2>6. QED
      BY <2>3, <2>4, <2>5 DEF AloneInv
  <1>5. QED
    BY <1>1, <1>2, <1>3, <1>4

\* The push of what was found leaves the listeners alone; the walk of
\* start_listening begins with no track heard.
LEMMA ScanAlone ==
    ASSUME TypeInv, ThreadAssumption, AloneInv, Scan(Main) \/ PushFound(Main) \/ PushDone(Main)
    PROVE  AloneInv'
  <1>1. PICK s : /\ Becomes(Main, s) /\ s.job = Job(Main)
                 /\ \/ s.pc = "push"
                    \/ s.pc = "install" /\ s.rest = tracks
                 /\ thread[Main].pc \in {"scan", "push"}
                 /\ UNCHANGED <<live, installed, table, hooked, serving, unloaded>>
    <2>1. CASE Scan(Main)
      <3>1. Becomes(Main, State("push", Job(Main), << >>, [unsent |-> Announcements]))
        BY <2>1 DEF Scan
      <3>2. QED
        BY <2>1, <3>1 DEF Scan, State, At, listening, server
    <2>2. CASE PushFound(Main)
      <3>1. PICK e \in Lowest(thread[Main].item.unsent) :
                Becomes(Main, State("push", Job(Main), << >>, [unsent |-> thread[Main].item.unsent \ {e}]))
        BY <2>2 DEF PushFound
      <3>2. QED
        BY <2>2, <3>1 DEF PushFound, State, At, listening, server
    <2>3. CASE PushDone(Main)
      <3>1. Becomes(Main, Doing("install", Job(Main), tracks))
        BY <2>3 DEF PushDone
      <3>2. QED
        BY <2>3, <3>1 DEF PushDone, Doing, State, At, listening, server
    <2>4. QED
      BY <2>1, <2>2, <2>3
  <1>2. thread'[Main] = s /\ MainAlone'
    BY <1>1, MainBecomes DEF TypeInv, AloneInv
  <1>3. AccountedOK' /\ OneEach({})'
    BY <1>1, <1>2, NothingToAccount DEF AloneInv, HeardOK
  <1>4. HeardOK'
    <2>1. CASE s.pc = "push"
      BY <1>2, <1>3, <2>1 DEF HeardOK, At, Quiet
    <2>2. CASE s.pc = "install" /\ s.rest = tracks
      <3>1. IsInjective(tracks) /\ tracks' = tracks /\ LooperTracks \ Range(tracks) = {}
        BY <1>1 DEF TypeInv, SetOK, live, LooperTracks
      <3>2. (LooperTracks \ Range(tracks))' = {}
        BY <3>1 DEF LooperTracks
      <3>3. QED
        BY <1>2, <1>3, <2>2, <3>1, <3>2 DEF HeardOK, At, Quiet
    <2>3. QED
      BY <1>1, <2>1, <2>2
  <1>5. FlagsOK'
    BY <1>1, <1>2 DEF AloneInv, FlagsOK, Quiet, Job
  <1>6. QED
    BY <1>2, <1>3, <1>4, <1>5 DEF AloneInv

\* setdefault(...).append(...): every entry stays and holds what it held, and
\* one holds the listener.
LEMMA RecordedKeeps ==
    ASSUME table \in Seq(Entry), NEW t, NEW l
    PROVE  /\ \A i \in DOMAIN table :
                 /\ i \in DOMAIN Recorded(t, l)
                 /\ Recorded(t, l)[i].track = table[i].track
                 /\ table[i].listeners \subseteq Recorded(t, l)[i].listeners
           /\ \E i \in DOMAIN Recorded(t, l) :
                 /\ i >= 1
                 /\ Recorded(t, l)[i].track = t
                 /\ l \in Recorded(t, l)[i].listeners
  <1>1. /\ DOMAIN table = 1..Len(table) /\ Len(table) \in Nat
        /\ \A i \in DOMAIN table : table[i] \in Entry
    BY LenProperties, ElementOfSeq
  <1>2. CASE \E i \in DOMAIN table : table[i].track = t
    <2>1. Recorded(t, l) = [i \in DOMAIN table |->
              IF table[i].track = t THEN [table[i] EXCEPT !.listeners = @ \cup {l}] ELSE table[i]]
      BY <1>2 DEF Recorded
    <2>2. ASSUME NEW i \in DOMAIN table
          PROVE  /\ [table[i] EXCEPT !.listeners = @ \cup {l}].track = table[i].track
                 /\ [table[i] EXCEPT !.listeners = @ \cup {l}].listeners = table[i].listeners \cup {l}
      BY <1>1 DEF Entry
    <2>3. QED
      BY <1>1, <1>2, <2>1, <2>2
  <1>3. CASE ~\E i \in DOMAIN table : table[i].track = t
    <2> DEFINE e == [track |-> t, listeners |-> {l}]
    <2>1. Recorded(t, l) = Append(table, e) /\ e.track = t /\ l \in e.listeners
      BY <1>3 DEF Recorded
    <2> HIDE DEF e
    <2>2. /\ Len(Append(table, e)) = Len(table) + 1
          /\ \A i \in 1..Len(table) : Append(table, e)[i] = table[i]
          /\ Append(table, e)[Len(table) + 1] = e
          /\ DOMAIN Append(table, e) = 1..Len(table) + 1
      BY <1>1
    <2>3. QED
      BY <1>1, <2>1, <2>2
  <1>4. QED
    BY <1>2, <1>3

\* start_listening as the main thread runs it.
LEMMA InstallAlone ==
    ASSUME TypeInv, ThreadAssumption, AloneInv, "discover" \notin Op,
           Install(Main) \/ Record(Main) \/ InstallDone(Main)
    PROVE  AloneInv'
  <1> DEFINE rest == thread[Main].rest
  <1>0. Main \in Thread /\ thread[Main] \in ThreadState
    BY DEF TypeInv, ThreadsOK, Thread
  <1>1. ASSUME Install(Main) PROVE AloneInv'
    <2> DEFINE t == Head(rest)
               l == CHOOSE x \in Unused : TRUE
    <2>1. /\ thread[Main].pc = "install" /\ rest # << >> /\ rest \in Seq(Track)
          /\ UNCHANGED <<live, table, hooked, serving, unloaded>>
      BY <1>0, <1>1, StateAt DEF Install, At, server
    <2>2. IsInjective(rest) /\ OneEach(LooperTracks \ Range(rest))
      BY <2>1 DEF AloneInv, HeardOK, At
    <2>3. /\ t \in Range(rest) /\ t \in Track /\ IsInjective(Tail(rest))
          /\ Range(Tail(rest)) = Range(rest) \ {t}
      BY <2>1, <2>2, RestOfWalk, HeadTailProperties
    <2>4. LooperTracks' = LooperTracks
      BY <2>1 DEF LooperTracks, live
    <2>5. CASE t \in LooperTracks
      <3> DEFINE s == State("record", Job(Main), rest, l)
      <3>1. Unused # {} /\ installed' = [installed EXCEPT ![t] = @ \cup {l}] /\ Becomes(Main, s)
        BY <1>1, <2>5 DEF Install, LooperTracks
      <3>2. l \in Listener
        BY <3>1 DEF Unused
      <3> HIDE DEF l
      <3>3. s.pc = "record" /\ s.job = Job(Main) /\ s.rest = rest /\ s.item = l
        BY DEF State
      <3> HIDE DEF s
      <3>4. thread'[Main] = s /\ MainAlone'
        BY <3>1, <3>3, MainBecomes DEF TypeInv, AloneInv
      <3>5. installed'[t] = {l} /\ \A u \in Track \ {t} : installed'[u] = installed[u]
        BY <2>2, <2>3, <3>1 DEF OneEach, TypeInv, ListeningOK
      <3>6. OneEach(LooperTracks \ Range(Tail(rest)))'
        BY <2>2, <2>3, <2>4, <2>5, <3>2, <3>3, <3>4, <3>5 DEF OneEach
      <3>7. AccountedOK'
        <4>1. From' = 1 /\ From = 1
          BY <2>1, <3>3, <3>4 DEF From, At
        <4>2. ASSUME NEW u \in Track, NEW k \in installed'[u]
              PROVE  InTable(u, k, From)' \/ (k = l /\ u = t)
          <5>1. CASE u = t
            BY <3>5, <4>2, <5>1
          <5>2. CASE u # t
            <6>1. InTable(u, k, From)
              BY <2>1, <3>5, <4>2, <5>2 DEF AloneInv, AccountedOK, At
            <6>2. QED
              BY <2>1, <4>1, <6>1 DEF InTable
          <5>3. QED
            BY <5>1, <5>2
        <4>3. QED
          BY <3>3, <3>4, <4>2 DEF AccountedOK, At
      <3>8. HeardOK' /\ FlagsOK'
        BY <2>1, <2>2, <3>3, <3>4, <3>6 DEF AloneInv, HeardOK, FlagsOK, Quiet, At, Job
      <3>9. QED
        BY <3>4, <3>7, <3>8 DEF AloneInv
    <2>6. CASE t \notin LooperTracks
      <3> DEFINE s == Doing("install", Job(Main), Tail(rest))
      <3>1. Becomes(Main, s) /\ installed' = installed
        BY <1>1, <2>6 DEF Install, LooperTracks
      <3>2. s.pc = "install" /\ s.job = Job(Main) /\ s.rest = Tail(rest)
        BY DEF Doing, State, Zenon
      <3> HIDE DEF s
      <3>3. thread'[Main] = s /\ MainAlone'
        BY <3>1, <3>2, MainBecomes DEF TypeInv, AloneInv
      <3>4. LooperTracks \ Range(Tail(rest)) = LooperTracks \ Range(rest)
        BY <2>3, <2>6
      <3>5. OneEach(LooperTracks \ Range(rest))'
        BY <2>2, <2>4, <3>1, <3>2, <3>3, <3>4 DEF OneEach
      <3>6. AccountedOK'
        BY <2>1, <3>1, <3>2, <3>3, StillAccounted DEF AloneInv
      <3>7. HeardOK' /\ FlagsOK'
        BY <2>1, <2>3, <3>2, <3>3, <3>5 DEF AloneInv, HeardOK, FlagsOK, Quiet, At, Job
      <3>8. QED
        BY <3>3, <3>6, <3>7 DEF AloneInv
    <2>7. QED
      BY <2>5, <2>6
  <1>2. ASSUME Record(Main) PROVE AloneInv'
    <2> DEFINE l == thread[Main].item
               s == Doing("install", Job(Main), Tail(rest))
    <2>1. /\ thread[Main].pc = "record" /\ rest # << >> /\ rest \in Seq(Track)
          /\ table' = Recorded(Head(rest), l) /\ Becomes(Main, s)
          /\ UNCHANGED <<live, installed, hooked, serving, unloaded>>
      BY <1>0, <1>2, StateAt DEF Record, At, server
    <2>2. s.pc = "install" /\ s.job = Job(Main) /\ s.rest = Tail(rest)
      BY DEF Doing, State, Zenon
    <2> HIDE DEF s
    <2>3. thread'[Main] = s /\ MainAlone'
      BY <2>1, <2>2, MainBecomes DEF TypeInv, AloneInv
    <2>4. IsInjective(rest) /\ OneEach(LooperTracks \ Range(Tail(rest)))
      BY <2>1 DEF AloneInv, HeardOK, At
    <2>5. IsInjective(Tail(rest))
      BY <2>1, <2>4, RestOfWalk
    <2>6. OneEach(LooperTracks \ Range(rest))'
      BY <2>1, <2>2, <2>3, <2>4 DEF OneEach, LooperTracks, live
    <2>7. AccountedOK'
      <3>1. From' = 1 /\ From = 1
        BY <2>1, <2>2, <2>3 DEF From, At
      <3>2. ASSUME NEW u \in Track, NEW k \in installed'[u] PROVE InTable(u, k, From)'
        <4>1. InTable(u, k, From) \/ (k = l /\ u = Head(rest))
          BY <2>1, <3>2 DEF AloneInv, AccountedOK
        <4>2. QED
          BY <2>1, <3>1, <4>1, RecordedKeeps DEF InTable, TypeInv, ListeningOK
      <3>3. QED
        BY <2>2, <2>3, <3>2 DEF AccountedOK, At
    <2>8. HeardOK' /\ FlagsOK'
      BY <2>1, <2>2, <2>3, <2>5, <2>6 DEF AloneInv, HeardOK, FlagsOK, Quiet, At, Job
    <2>9. QED
      BY <2>3, <2>7, <2>8 DEF AloneInv
  <1>3. ASSUME InstallDone(Main) PROVE AloneInv'
    <2>1. /\ thread[Main].pc = "install" /\ rest = << >>
          /\ UNCHANGED <<live, installed, table, hooked, serving, unloaded>>
      BY <1>3 DEF InstallDone, At, listening, server
    <2>2. Job(Main).op \in {"boot", "rescan"}
      BY <1>0, <2>1, StateAt, JobType DEF Job, ScanOps
    <2>3. OneEach(LooperTracks) /\ LooperTracks' = LooperTracks
      <3>1. Range(rest) = {}
        BY <2>1 DEF Range
      <3>2. QED
        BY <2>1, <3>1 DEF AloneInv, HeardOK, At, LooperTracks, live
    <2>4. PICK s : /\ Becomes(Main, s)
                   /\ \/ s.pc = "hook" /\ s.job = Job(Main) /\ Job(Main).op = "boot"
                      \/ s.pc = "idle" /\ s.job = NoJob /\ Job(Main).op = "rescan"
      <3>1. CASE Job(Main).op = "boot"
        BY <1>3, <3>1 DEF InstallDone, Doing, State
      <3>2. CASE Job(Main).op = "rescan"
        <4>1. Becomes(Main, Idle)
          BY <1>3, <3>2 DEF InstallDone
        <4>2. Idle.pc = "idle" /\ Idle.job = NoJob
          BY DEF Idle, Doing, State
        <4>3. QED
          BY <3>2, <4>1, <4>2
      <3>3. QED
        BY <2>2, <3>1, <3>2
    <2>5. thread'[Main] = s /\ MainAlone'
      BY <2>4, MainBecomes DEF TypeInv, AloneInv
    <2>6. OneEach(LooperTracks)'
      BY <2>1, <2>3, <2>5 DEF OneEach
    <2>7. AccountedOK'
      BY <2>1, <2>4, <2>5, StillAccounted DEF AloneInv
    <2>8. HeardOK' /\ FlagsOK'
      BY <2>1, <2>4, <2>5, <2>6 DEF AloneInv, HeardOK, FlagsOK, Quiet, At, Job, NoJob
    <2>9. QED
      BY <2>5, <2>7, <2>8 DEF AloneInv
  <1>4. QED
    BY <1>1, <1>2, <1>3

\* The main thread inside an assignment of the user's: listeners run, and all
\* stay attached.
LEMMA NotifyAlone ==
    ASSUME TypeInv, ThreadAssumption, AloneInv,
           ReadChanged(Main) \/ SendChanged(Main) \/ NotifyDone(Main)
    PROVE  AloneInv'
  <1>1. /\ thread[Main].pc \in {"notify", "send"} /\ Job(Main).op = "edit"
        /\ UNCHANGED <<live, installed, table, hooked, serving, unloaded>>
    BY DEF ReadChanged, SendChanged, NotifyDone, At, AloneInv, MainAlone, listening, server
  <1>2. PICK s : /\ Becomes(Main, s)
                 /\ \/ s.pc \in {"notify", "send"} /\ s.job = Job(Main)
                    \/ s.pc = "idle" /\ s.job = NoJob
    <2>1. CASE ReadChanged(Main)
      <3> DEFINE rest == Tail(thread[Main].rest)
                 item == Read(Min(Matches(Head(thread[Main].rest))))
      <3>1. Becomes(Main, Doing("notify", Job(Main), rest)) \/ Becomes(Main, State("send", Job(Main), rest, item))
        BY <2>1 DEF ReadChanged
      <3> HIDE DEF rest, item
      <3>2. QED
        BY <3>1 DEF Doing, State
    <2>2. CASE SendChanged(Main)
      BY <2>2 DEF SendChanged, Doing, State
    <2>3. CASE NotifyDone(Main)
      <3>1. Becomes(Main, Idle)
        BY <1>1, <2>3 DEF NotifyDone
      <3>2. QED
        BY <3>1 DEF Idle, Doing, State
    <2>4. QED
      BY <2>1, <2>2, <2>3
  <1>3. thread'[Main] = s /\ MainAlone'
    BY <1>1, <1>2, MainBecomes DEF TypeInv, AloneInv
  <1>4. AccountedOK'
    BY <1>1, <1>2, <1>3, StillAccounted DEF AloneInv
  <1>5. OneEach(IF unloaded THEN {} ELSE LooperTracks)'
    BY <1>1 DEF AloneInv, HeardOK, Quiet, OneEach, LooperTracks, live
  <1>6. HeardOK' /\ FlagsOK'
    BY <1>1, <1>2, <1>3, <1>5 DEF AloneInv, HeardOK, FlagsOK, Quiet, At, Job, NoJob
  <1>7. QED
    BY <1>3, <1>4, <1>6 DEF AloneInv

\* __init__ around its scan, and disconnect after stop_listening.
LEMMA BootAlone ==
    ASSUME TypeInv, ThreadAssumption, AloneInv, StartServer \/ ResetFound \/ HookTracks \/ StopServer
    PROVE  AloneInv'
  <1>0. Main \in Thread /\ thread[Main] \in ThreadState
    BY DEF TypeInv, ThreadsOK, Thread
  <1>1. CASE StartServer \/ ResetFound
    <2>1. PICK s : /\ Becomes(Main, s) /\ s.pc \in {"init", "scan"} /\ s.job = Job(Main)
                   /\ thread[Main].pc \in {"start", "init"}
                   /\ UNCHANGED <<live, installed, table, hooked, unloaded>>
      BY <1>1 DEF StartServer, ResetFound, Doing, State, At, listening, server
    <2>2. thread'[Main] = s /\ MainAlone'
      BY <2>1, MainBecomes DEF TypeInv, AloneInv
    <2>3. AccountedOK' /\ OneEach({})'
      BY <2>1, <2>2, NothingToAccount DEF AloneInv, HeardOK
    <2>4. HeardOK' /\ FlagsOK'
      BY <2>1, <2>2, <2>3 DEF AloneInv, HeardOK, FlagsOK, Quiet, At, Job
    <2>5. QED
      BY <2>2, <2>3, <2>4 DEF AloneInv
  <1>2. CASE HookTracks
    <2>1. /\ thread[Main].pc = "hook" /\ hooked' /\ Becomes(Main, Idle)
          /\ UNCHANGED <<live, installed, table, serving, unloaded>>
      BY <1>2 DEF HookTracks, At, listening
    <2>2. Idle.pc = "idle" /\ Idle.job = NoJob
      BY DEF Idle, Doing, State
    <2>3. thread'[Main] = Idle /\ MainAlone'
      BY <2>1, <2>2, MainBecomes DEF TypeInv, AloneInv
    <2>4. ~unloaded
      BY <1>0, <2>1, StateAt DEF AloneInv, FlagsOK, Job
    <2>5. OneEach(LooperTracks)'
      BY <2>1 DEF AloneInv, HeardOK, At, OneEach, LooperTracks, live
    <2>6. AccountedOK'
      BY <2>1, <2>2, <2>3, StillAccounted DEF AloneInv
    <2>7. HeardOK' /\ FlagsOK'
      BY <2>1, <2>2, <2>3, <2>4, <2>5 DEF HeardOK, FlagsOK, Quiet, At, Job, NoJob
    <2>8. QED
      BY <2>3, <2>6, <2>7 DEF AloneInv
  <1>3. CASE StopServer
    <2>1. /\ thread[Main].pc = "halt" /\ ~hooked' /\ ~serving' /\ Becomes(Main, Idle)
          /\ UNCHANGED <<live, installed, table, unloaded>>
      BY <1>3 DEF StopServer, At, listening
    <2>2. Idle.pc = "idle" /\ Idle.job = NoJob
      BY DEF Idle, Doing, State
    <2>3. thread'[Main] = Idle /\ MainAlone'
      BY <2>1, <2>2, MainBecomes DEF TypeInv, AloneInv
    <2>4. unloaded
      BY <1>0, <2>1, StateAt DEF AloneInv, FlagsOK, Job
    <2>5. AccountedOK' /\ OneEach({})'
      BY <2>1, <2>2, <2>3, NothingToAccount DEF AloneInv, HeardOK
    <2>6. HeardOK' /\ FlagsOK'
      BY <2>1, <2>2, <2>3, <2>4, <2>5 DEF HeardOK, FlagsOK, Quiet, At, Job, NoJob
    <2>7. QED
      BY <2>3, <2>5, <2>6 DEF AloneInv
  <1>4. QED
    BY <1>1, <1>2, <1>3

\* stop_listening is about to begin: whatever is attached is in the table.
LEMMA StopBegins ==
    ASSUME TypeInv, ThreadAssumption, AloneInv, At(Main, "idle"), NEW job,
           Becomes(Main, Stopping(job)), table' = table,
           \A t \in Track : installed'[t] \subseteq installed[t],
           \/ job.op = "rescan" /\ hooked' /\ ~unloaded'
           \/ job.op = "unload" /\ unloaded'
    PROVE  AloneInv'
  <1> DEFINE s == Stopping(job)
  <1>1. s.pc = "stop" /\ s.job = job /\ s.item.next = 1 /\ s.item.used = Len(table)
    BY DEF Stopping, State
  <1> HIDE DEF s
  <1>2. thread'[Main] = s /\ MainAlone'
    BY <1>1, MainBecomes DEF TypeInv, AloneInv, s
  <1>3. From = 1 /\ From' = 1
    BY <1>1, <1>2 DEF From, At
  <1>4. ASSUME NEW t \in Track, NEW l \in installed'[t] PROVE InTable(t, l, From)'
    <2>1. InTable(t, l, From)
      BY <1>4 DEF AloneInv, AccountedOK, At
    <2>2. QED
      BY <1>3, <2>1 DEF InTable
  <1>5. AccountedOK'
    BY <1>1, <1>2, <1>4 DEF AccountedOK, At
  <1>6. HeardOK' /\ FlagsOK'
    BY <1>1, <1>2 DEF HeardOK, FlagsOK, Quiet, At, Job
  <1>7. QED
    BY <1>2, <1>5, <1>6 DEF AloneInv

\* The user edits the set after disconnect: nobody is called, and nothing is
\* attached that an edit could disturb.
LEMMA EditUnheard ==
    ASSUME AloneInv, At(Main, "idle"), unloaded, OneEach({})',
           UNCHANGED <<thread, table, hooked, serving, unloaded>>
    PROVE  AloneInv'
  BY DEF AloneInv, MainAlone, AccountedOK, HeardOK, FlagsOK, Quiet, At, Job, OneEach

LEMMA UserAlone ==
    ASSUME TypeInv, ThreadAssumption, AloneInv, User
    PROVE  AloneInv'
  <1>1. ASSUME NEW t \in Track, NEW v \in Value, UserSetsParameter(t, v) PROVE AloneInv'
    <2> DEFINE job == [op |-> "edit"]
               s == Doing("notify", job, [k \in 1..Cardinality(installed[t]) |-> t])
    <2>1. /\ thread[Main].pc = "idle" /\ Becomes(Main, s)
          /\ UNCHANGED <<tracks, installed, table, hooked, serving, unloaded>>
      BY <1>1 DEF UserSetsParameter, Assign, At, listening, server
    <2>2. s.pc = "notify" /\ s.job.op = "edit"
      BY DEF Doing, State
    <2> HIDE DEF s
    <2>3. thread'[Main] = s /\ MainAlone'
      BY <2>1, <2>2, MainBecomes DEF TypeInv, AloneInv
    <2>4. AccountedOK'
      BY <2>1, <2>2, <2>3, StillAccounted DEF AloneInv
    <2>5. OneEach(IF unloaded THEN {} ELSE LooperTracks)'
      BY <2>1 DEF AloneInv, HeardOK, Quiet, OneEach, LooperTracks
    <2>6. HeardOK' /\ FlagsOK'
      BY <2>1, <2>2, <2>3, <2>5 DEF AloneInv, HeardOK, FlagsOK, Quiet, At, Job
    <2>7. QED
      BY <2>3, <2>4, <2>6 DEF AloneInv
  <1>2. ASSUME At(Main, "idle"), TracksChanged, UNCHANGED <<table, hooked, serving, unloaded>>,
               \A t \in Track : installed'[t] \subseteq installed[t]
        PROVE  AloneInv'
    <2>1. CASE unloaded
      <3>1. ~hooked /\ OneEach({})
        BY <1>2, <2>1 DEF AloneInv, HeardOK, FlagsOK, Quiet, At
      <3>2. OneEach({})'
        BY <1>2, <3>1 DEF OneEach
      <3>3. QED
        BY <1>2, <2>1, <3>1, <3>2, EditUnheard DEF TracksChanged
    <2>2. CASE ~unloaded
      <3>1. hooked
        BY <1>2, <2>2 DEF AloneInv, FlagsOK, Quiet, At
      <3>2. Becomes(Main, Stopping([op |-> "rescan"]))
        BY <1>2, <3>1 DEF TracksChanged
      <3>3. [op |-> "rescan"].op = "rescan"
        OBVIOUS
      <3>4. QED
        BY <1>2, <2>2, <3>1, <3>2, <3>3, StopBegins
    <2>3. QED
      BY <2>1, <2>2
  <1>3. ASSUME NEW t \in Track, NEW i, UserInsertsTrack(t, i) PROVE AloneInv'
    BY <1>2, <1>3 DEF UserInsertsTrack, listening, server
  <1>4. ASSUME NEW i \in DOMAIN tracks, UserDeletesTrack(i) PROVE AloneInv'
    <2>1. \A t \in Track : installed'[t] \subseteq installed[t]
      BY <1>4 DEF UserDeletesTrack, TypeInv, ListeningOK
    <2>2. QED
      BY <1>2, <1>4, <2>1 DEF UserDeletesTrack, server
  <1>5. ASSUME Disconnect PROVE AloneInv'
    <2>1. /\ At(Main, "idle") /\ Becomes(Main, Stopping([op |-> "unload"])) /\ unloaded'
          /\ table' = table /\ installed' = installed
      BY <1>5 DEF Disconnect, listening
    <2>2. [op |-> "unload"].op = "unload"
      OBVIOUS
    <2>3. QED
      BY <2>1, <2>2, StopBegins
  <1>6. QED
    BY <1>1, <1>3, <1>4, <1>5 DEF User

\* A worker without discover answers, or sets a parameter and runs its
\* listeners.
LEMMA WorkerAlone ==
    ASSUME TypeInv, ThreadAssumption, AloneInv, "discover" \notin Op, NEW w \in Worker,
           ContinueWorker(w) \/ Receive(w)
    PROVE  AloneInv'
  <1>0. w \in Thread /\ thread[w].pc \in {"idle", "apply", "notify", "send", "reply"}
    BY DEF Thread, AloneInv, MainAlone
  <1>1. PICK s : /\ Becomes(w, s)
                 /\ s.pc \in {"idle", "apply", "notify", "send", "reply"}
                 /\ UNCHANGED <<tracks, installed, table, hooked, serving, unloaded>>
    <2>1. CASE Continue(w)
      <3>1. ReadChanged(w) \/ SendChanged(w) \/ NotifyDone(w)
        BY <1>0, <2>1
        DEF Continue, StopEntry, StopLoopEnds, StopRaises, ClearTable, Scan, PushFound, PushDone,
            Install, Record, InstallDone, At
      <3>2. UNCHANGED <<tracks, installed, table, hooked, serving, unloaded>>
        BY <3>1 DEF ReadChanged, SendChanged, NotifyDone, live, listening, server
      <3>3. CASE ReadChanged(w)
        <4> DEFINE rest == Tail(thread[w].rest)
                   item == Read(Min(Matches(Head(thread[w].rest))))
        <4>1. Becomes(w, Doing("notify", Job(w), rest)) \/ Becomes(w, State("send", Job(w), rest, item))
          BY <3>3 DEF ReadChanged
        <4> HIDE DEF rest, item
        <4>2. QED
          BY <3>2, <4>1 DEF Doing, State
      <3>4. CASE SendChanged(w)
        BY <3>2, <3>4 DEF SendChanged, Doing, State
      <3>5. CASE NotifyDone(w)
        <4>1. Becomes(w, Idle) \/ Becomes(w, Answering(Job(w), TRUE))
          BY <3>5 DEF NotifyDone
        <4>2. QED
          BY <3>2, <4>1 DEF Idle, Doing, Answering, State
      <3>6. QED
        BY <3>1, <3>3, <3>4, <3>5
    <2>2. CASE Apply(w)
      <3>1. UNCHANGED <<tracks, installed, table, hooked, serving, unloaded>>
        BY <2>2 DEF Apply, listening, server
      <3>2. CASE Job(w).id \in LooperIds
        <4> DEFINE rest == [k \in 1..Cardinality(installed[tracks[Job(w).id]]) |-> tracks[Job(w).id]]
        <4>1. Becomes(w, Doing("notify", Job(w), rest))
          BY <2>2, <3>2 DEF Apply, Assign
        <4> HIDE DEF rest
        <4>2. QED
          BY <3>1, <4>1 DEF Doing, State
      <3>3. CASE Job(w).id \notin LooperIds
        BY <2>2, <3>1, <3>3 DEF Apply, Answering, State
      <3>4. QED
        BY <3>2, <3>3
    <2>3. CASE Reply(w)
      BY <2>3 DEF Reply, Idle, Doing, State, live, listening, server
    <2>4. CASE Receive(w)
      <3>1. PICK r \in Request : Hello(w, r) \/ Decline(w, r) \/ Discover(w, r) \/ SetFeedback(w, r)
        BY <2>4 DEF Receive
      <3>2. ~Discover(w, r)
        BY RequestType DEF Discover
      <3>3. UNCHANGED <<tracks, installed, table, hooked, serving, unloaded>>
        BY <3>1, <3>2 DEF Hello, Decline, SetFeedback, live, listening, server
      <3>4. PICK success : Becomes(w, Answering(r, success)) \/ Becomes(w, Doing("apply", r, << >>))
        BY <3>1, <3>2 DEF Hello, Decline, SetFeedback
      <3>5. QED
        BY <3>3, <3>4 DEF Answering, Doing, State
    <2>5. QED
      BY <2>1, <2>2, <2>3, <2>4 DEF ContinueWorker
  <1>2. QED
    BY <1>1, WorkerBecomes DEF TypeInv

LEMMA InitAlone == Init => AloneInv
  <1> SUFFICES ASSUME Init PROVE AloneInv
    OBVIOUS
  <1> DEFINE boot == Doing("start", [op |-> "boot"], << >>)
  <1>1. /\ boot.pc = "start" /\ boot.job.op = "boot" /\ Idle.pc = "idle"
    BY DEF Doing, State, Idle
  <1> HIDE DEF boot
  <1>2. thread[Main] = boot /\ \A w \in Worker : thread[w] = Idle
    BY ThreadAssumption DEF Init, Thread, boot
  <1>3. OneEach({})
    BY DEF Init, OneEach
  <1>4. QED
    BY <1>1, <1>2, <1>3
    DEF Init, AloneInv, MainAlone, AccountedOK, HeardOK, FlagsOK, Quiet, At, Job, OneEach

LEMMA StepAlone ==
    ASSUME "discover" \notin Op, TypeInv, AloneInv, [Next]_vars
    PROVE  AloneInv'
  <1>1. CASE ContinueMain
    BY <1>1, StopAlone, ScanAlone, InstallAlone, NotifyAlone, BootAlone, ThreadAssumption
    DEF ContinueMain, Continue
  <1>2. CASE User
    BY <1>2, UserAlone, ThreadAssumption
  <1>3. ASSUME NEW w \in Worker, ContinueWorker(w) \/ Receive(w) PROVE AloneInv'
    BY <1>3, WorkerAlone, ThreadAssumption
  <1>4. CASE UNCHANGED vars
    BY <1>4 DEF vars, AloneInv, MainAlone, AccountedOK, HeardOK, FlagsOK, Quiet, At, Job, OneEach,
                LooperTracks, InTable, From
  <1>5. QED
    BY <1>1, <1>2, <1>3, <1>4 DEF Next

LEMMA AloneHolds == "discover" \notin Op => (Spec => []AloneInv)
  <1> SUFFICES ASSUME "discover" \notin Op PROVE Spec => []AloneInv
    OBVIOUS
  <1>1. TypeInv /\ AloneInv /\ [Next]_vars => AloneInv'
    BY StepAlone
  <1>2. QED
    BY InitAlone, <1>1, TypesHold, PTL DEF Spec

\* No listener is ever attached that stop_listening could not find, as long
\* as no plugin sends discover (start_listening, _param_listeners).
THEOREM NoListenerLost == "discover" \notin Op => (Spec => []ListenersAccounted)
  <1> SUFFICES ASSUME "discover" \notin Op PROVE Spec => []ListenersAccounted
    OBVIOUS
  <1>1. AloneInv => ListenersAccounted
    BY DEF AloneInv, AccountedOK, InTable, ListenersAccounted, Thread
  <1>2. QED
    BY <1>1, AloneHolds, PTL

\* However the set is edited, when no handler runs every looper in it has one
\* listener: a change is neither missed nor pushed twice.
THEOREM EachLooperHeardOnce == "discover" \notin Op => (Spec => []ListenedToOnce)
  <1> SUFFICES ASSUME "discover" \notin Op PROVE Spec => []ListenedToOnce
    OBVIOUS
  <1>1. ASSUME AloneInv PROVE ListenedToOnce
    <2> SUFFICES ASSUME Resting, ~unloaded, NEW i \in LooperIds
                 PROVE  Cardinality(installed[tracks[i]]) = 1
      BY DEF ListenedToOnce
    <2>1. OneEach(LooperTracks)
      BY <1>1 DEF AloneInv, HeardOK, Quiet, Resting, At, Thread
    <2>2. tracks[i] \in LooperTracks /\ tracks[i] \in Track
      BY LooperAssumption DEF LooperIds, LooperTracks, Range
    <2>3. PICK l \in Listener : installed[tracks[i]] = {l}
      BY <2>1, <2>2 DEF OneEach
    <2>4. QED
      BY <2>3, FS_Singleton
  <1>2. QED
    BY <1>1, AloneHolds, PTL

\* After disconnect and the last handler, Live calls nothing of the script's:
\* no parameter listener, no tracks listener, no server (LooperControlSurface.
\* disconnect), whatever was edited before or since.
THEOREM UnloadLeavesNothing == "discover" \notin Op => (Spec => []NothingLeftBehind)
  <1> SUFFICES ASSUME "discover" \notin Op PROVE Spec => []NothingLeftBehind
    OBVIOUS
  <1>1. ASSUME AloneInv PROVE NothingLeftBehind
    BY <1>1 DEF AloneInv, HeardOK, FlagsOK, Quiet, OneEach, NothingLeftBehind, Resting, At, Thread
  <1>2. QED
    BY <1>1, AloneHolds, PTL
=============================================================================
