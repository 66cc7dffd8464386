--------------------------- MODULE AgentRunsProofs ---------------------------
(* Proofs about AgentRuns, for every number of prompts, children, questions, *)
(* reloads, switches of the session and faults.                              *)
EXTENDS AgentRuns, TLAPS

(* The parts of the state that decide what is forked for a prompt.           *)
Q == state.queue

HasQueue(s, q) == "queue" \in DOMAIN s /\ s.queue = q

QueueOK ==
  /\ HasQueue(state, Q)
  /\ Q \in Seq(Prompts)
  /\ sent \in 0..MaxPrompts
  /\ dispatching \in {0} \union Prompts
  /\ prompt \in [Runs -> {0} \union Prompts]
  /\ call \in [Prompts -> {"none", "waits", "invoked", "orphan"}]

(* A prompt that was not sent yet is nowhere.                                *)
FreshInv ==
  /\ \A i \in DOMAIN Q : Q[i] <= sent
  /\ dispatching <= sent
  /\ \A p \in Prompts : call[p] # "none" => p <= sent
  /\ \A r \in Runs : prompt[r] <= sent

(* No prompt is queued twice, and the one that is being sent is the head of  *)
(* the queue if it is still in it.                                           *)
HeadInv ==
  /\ \A i, j \in DOMAIN Q : Q[i] = Q[j] => i = j
  /\ \A i \in DOMAIN Q : Q[i] = dispatching => i = 1

(* A prompt with a child is not started again: it is not in the queue but    *)
(* for the one that is being sent, and has no start under way.               *)
StartInv ==
  /\ \A i \in DOMAIN Q : Q[i] # dispatching => call[Q[i]] = "none" /\ \A r \in Runs : prompt[r] # Q[i]
  /\ \A p \in Prompts : call[p] # "none" => \A r \in Runs : prompt[r] # p

IInv == QueueOK /\ FreshInv /\ HeadInv /\ StartInv /\ PromptsRunOnce

(* At first nothing is queued, sent or forked.                               *)
LEMMA InitInv == Init => IInv
<1> SUFFICES ASSUME Init PROVE IInv
  OBVIOUS
<1> USE AgentRunsAssumption DEF Init, Q
<1>1. Q = <<>> /\ HasQueue(state, Q) BY DEF HasQueue, initialState
<1>2. QueueOK BY <1>1 DEF QueueOK
<1>3. FreshInv /\ HeadInv /\ StartInv BY <1>1 DEF FreshInv, HeadInv, StartInv, Prompts, Runs
<1>4. PromptsRunOnce BY DEF PromptsRunOnce, Forked
<1>. QED BY <1>2, <1>3, <1>4 DEF IInv

(* What RemoveAt leaves.                                                     *)
LEMMA RemovedAt ==
  ASSUME NEW S, NEW s \in Seq(S), NEW i \in DOMAIN s
  PROVE  /\ RemoveAt(s, i) \in Seq(S)
         /\ Len(RemoveAt(s, i)) = Len(s) - 1
         /\ \A j \in 1..(Len(s) - 1) : RemoveAt(s, i)[j] = IF j < i THEN s[j] ELSE s[j + 1]
<1> DEFINE a == SubSeq(s, 1, i - 1)  b == SubSeq(s, i + 1, Len(s))
<1>1. i \in 1..Len(s) /\ Len(s) \in Nat OBVIOUS
<1>2. a \in Seq(S) /\ Len(a) = i - 1 /\ \A j \in 1..(i - 1) : a[j] = s[j] BY <1>1
<1>3. b \in Seq(S) /\ Len(b) = Len(s) - i /\ \A j \in 1..(Len(s) - i) : b[j] = s[i + j] BY <1>1
<1>4. RemoveAt(s, i) = a \o b BY DEF RemoveAt
<1> HIDE DEF a, b
<1>5. (a \o b) \in Seq(S) /\ Len(a \o b) = Len(s) - 1 BY <1>1, <1>2, <1>3
<1>6. \A j \in 1..(Len(s) - 1) : (a \o b)[j] = IF j < i THEN s[j] ELSE s[j + 1]
  <2> SUFFICES ASSUME NEW j \in 1..(Len(s) - 1) PROVE (a \o b)[j] = IF j < i THEN s[j] ELSE s[j + 1]
    OBVIOUS
  <2>1. CASE j < i BY <1>1, <1>2, <1>3, <2>1
  <2>2. CASE ~(j < i)
    <3>1. (a \o b)[j] = b[j - (i - 1)] BY <1>1, <1>2, <1>3, <2>2
    <3>2. j - (i - 1) \in 1..(Len(s) - i) BY <1>1, <2>2
    <3>. QED BY <1>1, <1>3, <2>2, <3>1, <3>2
  <2>. QED BY <2>1, <2>2
<1>. QED BY <1>4, <1>5, <1>6

(* The reducer keeps the queue.                                              *)
LEMMA ReducerKeepsQueue ==
  ASSUME NEW s, NEW q, HasQueue(s, q), NEW r, NEW phase, NEW asked, NEW new
  PROVE  /\ s.queue = q
         /\ HasQueue(Hydrated(s, r), q)
         /\ HasQueue([s EXCEPT !.phase = phase, !.asked = asked], q)
         /\ HasQueue([s EXCEPT !.phase = phase, !.runId = r], q)
         /\ HasQueue([s EXCEPT !.phase = phase, !.runId = r, !.asked = asked], q)
         /\ HasQueue([s EXCEPT !.asked = asked], q)
         /\ HasQueue([s EXCEPT !.queue = new], new)
         /\ HasQueue([initialState EXCEPT !.queue = q], q)
<1>1. HasQueue(Hydrated(s, r), q) BY DEF HasQueue, Hydrated
<1>2. HasQueue([s EXCEPT !.phase = phase, !.asked = asked], q) BY DEF HasQueue
<1>3. HasQueue([s EXCEPT !.phase = phase, !.runId = r], q) BY DEF HasQueue
<1>4. HasQueue([s EXCEPT !.phase = phase, !.runId = r, !.asked = asked], q) BY DEF HasQueue
<1>5. HasQueue([s EXCEPT !.asked = asked], q) BY DEF HasQueue
<1>6. HasQueue([s EXCEPT !.queue = new], new) BY DEF HasQueue
<1>7. HasQueue([initialState EXCEPT !.queue = q], q) BY DEF HasQueue, initialState
<1>. QED BY <1>1, <1>2, <1>3, <1>4, <1>5, <1>6, <1>7 DEF HasQueue

(* Of a queue that is cut or cleared.                                        *)
LEMMA CutQueue ==
  ASSUME NEW S, NEW s \in Seq(S), s # <<>>
  PROVE  /\ Tail(s) \in Seq(S) /\ Head(s) = s[1] /\ 1 \in DOMAIN s /\ Head(s) \in S
         /\ \A i \in DOMAIN Tail(s) : i + 1 \in DOMAIN s /\ i + 1 # 1 /\ i \in Nat /\ Tail(s)[i] = s[i + 1]
  OBVIOUS

(* A step that starts nothing: what is queued stays so, in its order, or is  *)
(* cut at the head while that is being sent, or cleared.                     *)
LEMMA NothingStarts ==
  ASSUME IInv, UNCHANGED <<sent, prompt>>,
         call' \in [Prompts -> {"none", "waits", "invoked", "orphan"}],
         \A p \in Prompts : call'[p] # "none" => call[p] # "none",
         \/ UNCHANGED <<Q, dispatching>>
         \/ /\ dispatching' = 0
            /\ \/ Q' = <<>>
               \/ Q # <<>> /\ Q' = Tail(Q),
         HasQueue(state', Q')
  PROVE  IInv'
<1> USE DEF IInv
<1>p. PromptsRunOnce' BY DEF PromptsRunOnce, Forked
<1>0. Q \in Seq(Prompts) /\ dispatching \in {0} \union Prompts /\ \A i \in DOMAIN Q : Q[i] \in Prompts
  BY DEF QueueOK
<1>1. CASE UNCHANGED <<Q, dispatching>>
  <2>1. QueueOK' BY <1>1 DEF QueueOK
  <2>2. FreshInv' BY <1>1 DEF FreshInv
  <2>3. HeadInv' BY <1>1 DEF HeadInv
  <2>4. StartInv' BY <1>0, <1>1 DEF StartInv
  <2>. QED BY <1>p, <2>1, <2>2, <2>3, <2>4
<1>2. CASE dispatching' = 0 /\ Q' = <<>>
  <2>1. QueueOK' BY <1>2 DEF QueueOK
  <2>2. FreshInv' BY <1>2 DEF FreshInv, QueueOK
  <2>3. HeadInv' BY <1>2 DEF HeadInv
  <2>4. StartInv' BY <1>2 DEF StartInv
  <2>. QED BY <1>p, <2>1, <2>2, <2>3, <2>4
<1>3. CASE dispatching' = 0 /\ Q # <<>> /\ Q' = Tail(Q)
  <2>0. /\ Q' \in Seq(Prompts)
        /\ \A i \in DOMAIN Q' : i + 1 \in DOMAIN Q /\ i + 1 # 1 /\ i \in Nat /\ Q'[i] = Q[i + 1]
    BY <1>0, <1>3, CutQueue
  <2>1. QueueOK' BY <1>3, <2>0 DEF QueueOK
  <2>2. FreshInv' BY <1>3, <2>0 DEF FreshInv, QueueOK
  <2>3. HeadInv'
    <3>1. \A i, j \in DOMAIN Q' : Q'[i] = Q'[j] => i = j
      <4> SUFFICES ASSUME NEW i \in DOMAIN Q', NEW j \in DOMAIN Q', Q'[i] = Q'[j] PROVE i = j
        OBVIOUS
      <4>1. i + 1 = j + 1 BY <2>0 DEF HeadInv
      <4>. QED BY <2>0, <4>1
    <3>2. \A i \in DOMAIN Q' : Q'[i] # 0 BY <1>0, <2>0 DEF Prompts
    <3>. QED BY <1>3, <3>1, <3>2 DEF HeadInv
  <2>4. StartInv'
    <3>1. \A i \in DOMAIN Q' : Q[i + 1] # dispatching BY <2>0 DEF HeadInv
    <3>2. \A i \in DOMAIN Q' : call'[Q'[i]] = "none" /\ \A r \in Runs : prompt'[r] # Q'[i]
      <4> SUFFICES ASSUME NEW i \in DOMAIN Q'
                   PROVE  call'[Q'[i]] = "none" /\ \A r \in Runs : prompt'[r] # Q'[i]
        OBVIOUS
      <4>1. i + 1 \in DOMAIN Q /\ Q'[i] = Q[i + 1] /\ Q[i + 1] \in Prompts BY <1>0, <2>0
      <4>2. call[Q[i + 1]] = "none" /\ \A r \in Runs : prompt[r] # Q[i + 1]
        BY <3>1, <4>1 DEF StartInv
      <4>. QED BY <4>1, <4>2
    <3>3. \A p \in Prompts : call'[p] # "none" => \A r \in Runs : prompt'[r] # p
      BY DEF StartInv
    <3>. QED BY <3>2, <3>3 DEF StartInv
  <2>. QED BY <1>p, <2>1, <2>2, <2>3, <2>4
<1>. QED BY <1>1, <1>2, <1>3

(* A prompt that is removed from the queue.                                  *)
LEMMA RemoveKeeps == IInv /\ RemoveQueuedPrompt => IInv'
<1> SUFFICES ASSUME IInv, RemoveQueuedPrompt PROVE IInv'
  OBVIOUS
<1> USE DEF IInv
<1>1. PICK i \in DOMAIN Q : state' = [state EXCEPT !.queue = RemoveAt(Q, i)]
  BY DEF RemoveQueuedPrompt, Q
<1>2. UNCHANGED <<sent, prompt, call, dispatching>> BY DEF RemoveQueuedPrompt, manager
<1>3. Q \in Seq(Prompts) /\ HasQueue(state, Q) /\ \A j \in DOMAIN Q : Q[j] \in Prompts BY DEF QueueOK
<1>4. HasQueue(state', RemoveAt(Q, i)) BY <1>1, <1>3, ReducerKeepsQueue
<1>5. Q' = RemoveAt(Q, i) BY <1>4 DEF HasQueue, Q
<1>5a. /\ Q' \in Seq(Prompts) /\ Len(Q') = Len(Q) - 1
       /\ \A j \in 1..(Len(Q) - 1) : Q'[j] = IF j < i THEN Q[j] ELSE Q[j + 1]
  BY <1>1, <1>3, <1>5, RemovedAt
<1>5b. DOMAIN Q' = 1..(Len(Q) - 1) /\ DOMAIN Q = 1..Len(Q) /\ Len(Q) \in Nat
  BY <1>3, <1>5a
<1>6. /\ Q' \in Seq(Prompts) /\ DOMAIN Q' = 1..(Len(Q) - 1) /\ DOMAIN Q = 1..Len(Q) /\ Len(Q) \in Nat
      /\ \A j \in DOMAIN Q' : Q'[j] = IF j < i THEN Q[j] ELSE Q[j + 1]
  BY <1>5a, <1>5b
<1> DEFINE at(j) == IF j < i THEN j ELSE j + 1
<1>7. \A j \in DOMAIN Q' : at(j) \in DOMAIN Q /\ Q'[j] = Q[at(j)] /\ (at(j) = 1 => j = 1) /\ j \in Nat
  BY <1>6
<1>8. \A j, k \in DOMAIN Q' : at(j) = at(k) => j = k BY <1>6
<1> HIDE DEF at
<1>9. QueueOK' BY <1>2, <1>4, <1>5, <1>6 DEF QueueOK
<1>10. FreshInv' BY <1>2, <1>7 DEF FreshInv
<1>11. HeadInv' BY <1>2, <1>7, <1>8 DEF HeadInv
<1>12. StartInv' BY <1>2, <1>7 DEF StartInv
<1>13. PromptsRunOnce' BY <1>2 DEF PromptsRunOnce, Forked
<1>. QED BY <1>9, <1>10, <1>11, <1>12, <1>13

(* A message the user sends is new.                                          *)
LEMMA SendKeeps == IInv /\ SendMessage => IInv'
<1> SUFFICES ASSUME IInv, SendMessage PROVE IInv'
  OBVIOUS
<1> USE DEF IInv
<1>1. sent < MaxPrompts /\ sent' = sent + 1 /\ UNCHANGED <<dispatching, prompt>>
  BY DEF SendMessage, manager
<1>2. /\ sent \in Nat /\ sent + 1 \in Prompts /\ sent' \in 0..MaxPrompts
      /\ Q \in Seq(Prompts) /\ HasQueue(state, Q) /\ \A j \in DOMAIN Q : Q[j] \in Prompts
      /\ dispatching \in Nat /\ \A r \in Runs : prompt[r] \in Nat
  BY <1>1, AgentRunsAssumption DEF QueueOK, Prompts
<1>3. PromptsRunOnce' BY <1>1 DEF PromptsRunOnce, Forked
<1>4. CASE state' = [state EXCEPT !.queue = Append(Q, sent + 1)] /\ UNCHANGED <<call, after, stale>>
  <2>1. HasQueue(state', Append(Q, sent + 1)) BY <1>2, <1>4, ReducerKeepsQueue
  <2>2. Q' = Append(Q, sent + 1) BY <2>1 DEF HasQueue, Q
  <2>3. /\ Q' \in Seq(Prompts) /\ DOMAIN Q' = DOMAIN Q \union {Len(Q) + 1} /\ Len(Q) + 1 \notin DOMAIN Q
        /\ Q'[Len(Q) + 1] = sent + 1 /\ \A j \in DOMAIN Q : Q'[j] = Q[j]
    BY <1>2, <2>2
  <2>4. QueueOK' BY <1>1, <1>2, <1>4, <2>1, <2>2, <2>3 DEF QueueOK
  <2>5. FreshInv'
    <3>1. \A j \in DOMAIN Q' : Q'[j] <= sent' BY <1>1, <1>2, <2>3 DEF FreshInv, Prompts
    <3>2. dispatching' <= sent' /\ \A r \in Runs : prompt'[r] <= sent' BY <1>1, <1>2 DEF FreshInv
    <3>3. \A p \in Prompts : call'[p] # "none" => p <= sent' BY <1>1, <1>2, <1>4 DEF FreshInv, Prompts
    <3>. QED BY <3>1, <3>2, <3>3 DEF FreshInv
  <2>6. HeadInv'
    <3>1. \A j \in DOMAIN Q : Q[j] # sent + 1 BY <1>2 DEF FreshInv, Prompts
    <3>2. dispatching # sent + 1 BY <1>2 DEF FreshInv
    <3>. QED BY <1>1, <2>3, <3>1, <3>2 DEF HeadInv
  <2>7. StartInv'
    <3>1. call[sent + 1] = "none" BY <1>2 DEF FreshInv, QueueOK, Prompts
    <3>2. \A r \in Runs : prompt[r] # sent + 1 BY <1>2 DEF FreshInv
    <3>. QED BY <1>1, <1>4, <2>3, <3>1, <3>2 DEF StartInv
  <2>. QED BY <1>3, <2>4, <2>5, <2>6, <2>7
<1>5. CASE ~Busy /\ StartRun(sent + 1)
  <2>1. HasQueue(state', Q) BY <1>2, <1>5, ReducerKeepsQueue DEF StartRun
  <2>2. Q' = Q BY <2>1 DEF HasQueue, Q
  <2>3. Q = <<>> BY <1>5 DEF Busy, Q
  <2>4. call' \in [Prompts -> {"none", "waits", "invoked", "orphan"}]
        /\ \A p \in Prompts \ {sent + 1} : call'[p] = call[p]
    BY <1>2, <1>5 DEF StartRun, QueueOK
  <2>5. QueueOK' BY <1>1, <1>2, <2>1, <2>2, <2>4 DEF QueueOK
  <2>6. FreshInv'
    <3>2. dispatching' <= sent' /\ \A r \in Runs : prompt'[r] <= sent' BY <1>1, <1>2 DEF FreshInv
    <3>3. \A p \in Prompts : call'[p] # "none" => p <= sent' BY <1>1, <1>2, <2>4 DEF FreshInv, Prompts
    <3>. QED BY <2>2, <2>3, <3>2, <3>3 DEF FreshInv
  <2>7. HeadInv' BY <2>2, <2>3 DEF HeadInv
  <2>8. StartInv'
    <3>1. \A r \in Runs : prompt[r] # sent + 1 BY <1>2 DEF FreshInv
    <3>. QED BY <1>1, <2>2, <2>3, <2>4, <3>1 DEF StartInv
  <2>. QED BY <1>3, <2>5, <2>6, <2>7, <2>8
<1>. QED BY <1>4, <1>5 DEF SendMessage, Q

(* The head of the queue is sent.                                            *)
LEMMA DispatchKeeps == IInv /\ DispatchQueued => IInv'
<1> SUFFICES ASSUME IInv, DispatchQueued PROVE IInv'
  OBVIOUS
<1> USE DEF IInv
<1>1. /\ Q # <<>> /\ dispatching = 0 /\ dispatching' = Head(Q) /\ StartRun(Head(Q))
      /\ UNCHANGED <<sent, prompt>>
  BY DEF DispatchQueued, Q, manager
<1>2. Q \in Seq(Prompts) /\ HasQueue(state, Q) /\ \A j \in DOMAIN Q : Q[j] \in Prompts BY DEF QueueOK
<1>3. Head(Q) = Q[1] /\ 1 \in DOMAIN Q /\ Head(Q) \in Prompts BY <1>1, <1>2, CutQueue
<1>4. HasQueue(state', Q) BY <1>1, <1>2, ReducerKeepsQueue DEF StartRun
<1>5. Q' = Q BY <1>4 DEF HasQueue, Q
<1>6. call' \in [Prompts -> {"none", "waits", "invoked", "orphan"}]
      /\ \A p \in Prompts \ {Head(Q)} : call'[p] = call[p]
  BY <1>1, <1>3 DEF StartRun, QueueOK
<1>7. QueueOK' BY <1>1, <1>3, <1>4, <1>5, <1>6 DEF QueueOK
<1>8. Head(Q) <= sent /\ Head(Q) # 0 BY <1>3 DEF FreshInv, Prompts
<1>9. FreshInv' BY <1>1, <1>3, <1>5, <1>6, <1>8 DEF FreshInv
<1>10. HeadInv' BY <1>1, <1>3, <1>5 DEF HeadInv
<1>11. \A r \in Runs : prompt[r] # Head(Q) BY <1>1, <1>3, <1>8 DEF StartInv
<1>12. StartInv'
  <2>1. \A j \in DOMAIN Q' : Q'[j] # dispatching' => call'[Q'[j]] = "none" /\ \A r \in Runs : prompt'[r] # Q'[j]
    <3> SUFFICES ASSUME NEW j \in DOMAIN Q, Q[j] # Head(Q)
                 PROVE  call'[Q[j]] = "none" /\ \A r \in Runs : prompt[r] # Q[j]
      BY <1>1, <1>5
    <3>1. Q[j] \in Prompts /\ Q[j] # dispatching BY <1>1, <1>2 DEF Prompts
    <3>. QED BY <1>6, <3>1 DEF StartInv
  <2>2. \A p \in Prompts : call'[p] # "none" => \A r \in Runs : prompt'[r] # p
    BY <1>1, <1>6, <1>11 DEF StartInv
  <2>. QED BY <2>1, <2>2 DEF StartInv
<1>13. PromptsRunOnce' BY <1>1 DEF PromptsRunOnce, Forked
<1>. QED BY <1>7, <1>9, <1>10, <1>12, <1>13

(* A child is forked for a prompt that has none.                             *)
LEMMA ForkKeeps == ASSUME IInv, NEW p \in Prompts, StartAgentRun(p) PROVE IInv'
<1> USE DEF IInv
<1>1. PICK r \in Runs :
        /\ call[p] \in {"invoked", "orphan"} /\ call' = [call EXCEPT ![p] = "none"]
        /\ prompt[r] = 0 /\ prompt' = [prompt EXCEPT ![r] = p]
        /\ UNCHANGED <<state, dispatching, sent>>
  BY DEF StartAgentRun
<1>2. Q' = Q BY <1>1 DEF Q
<1>3. /\ prompt' \in [Runs -> {0} \union Prompts] /\ prompt'[r] = p
      /\ \A q \in Runs \ {r} : prompt'[q] = prompt[q]
  BY <1>1 DEF QueueOK
<1>4. /\ call' \in [Prompts -> {"none", "waits", "invoked", "orphan"}] /\ call'[p] = "none"
      /\ \A q \in Prompts \ {p} : call'[q] = call[q]
  BY <1>1 DEF QueueOK
<1>5. QueueOK' BY <1>1, <1>2, <1>3, <1>4 DEF QueueOK
<1>6. call[p] # "none" BY <1>1
<1>7. p <= sent /\ \A q \in Runs : prompt[q] # p BY <1>6 DEF FreshInv, StartInv
<1>8. FreshInv' BY <1>1, <1>2, <1>3, <1>4, <1>7 DEF FreshInv
<1>9. HeadInv' BY <1>1, <1>2 DEF HeadInv
<1>10. StartInv'
  <2>1. \A i \in DOMAIN Q : Q[i] # dispatching => Q[i] # p /\ Q[i] \in Prompts
    BY <1>6 DEF StartInv, QueueOK
  <2>2. \A i \in DOMAIN Q' : Q'[i] # dispatching' => call'[Q'[i]] = "none" /\ \A q \in Runs : prompt'[q] # Q'[i]
    BY <1>1, <1>2, <1>3, <1>4, <2>1 DEF StartInv
  <2>3. \A q \in Prompts : call'[q] # "none" => \A s \in Runs : prompt'[s] # q
    BY <1>1, <1>3, <1>4 DEF StartInv
  <2>. QED BY <2>2, <2>3 DEF StartInv
<1>11. PromptsRunOnce' BY <1>3, <1>7 DEF PromptsRunOnce, Forked, Prompts
<1>. QED BY <1>5, <1>8, <1>9, <1>10, <1>11

(* A child's prompt is answered: the head of the queue goes if it was its.   *)
LEMMA AnswerKeeps ==
  ASSUME IInv, NEW p, NEW s, HasQueue(s, Q), state' = Shifted(p, s), Dispatched(p),
         UNCHANGED <<call, sent, prompt>>
  PROVE  IInv'
<1>1. s.queue = Q BY DEF HasQueue
<1>2. CASE dispatching = p
  <2>1. dispatching' = 0 BY <1>2 DEF Dispatched
  <2>2. CASE Q = <<>>
    <3>1. state' = s BY <1>1, <2>2 DEF Shifted
    <3>2. HasQueue(state', Q) BY <3>1
    <3>3. Q' = Q BY <3>2 DEF HasQueue, Q
    <3>4. call' \in [Prompts -> {"none", "waits", "invoked", "orphan"}] BY DEF IInv, QueueOK
    <3>. QED BY <2>1, <2>2, <3>2, <3>3, <3>4, NothingStarts
  <2>3. CASE Q # <<>>
    <3>1. state' = [s EXCEPT !.queue = Tail(Q)] BY <1>1, <1>2, <2>3 DEF Shifted
    <3>1a. HasQueue([s EXCEPT !.queue = Tail(Q)], Tail(Q)) BY DEF HasQueue
    <3>2. HasQueue(state', Tail(Q)) BY <3>1, <3>1a
    <3>3. Q' = Tail(Q) BY <3>2 DEF HasQueue, Q
    <3>4. call' \in [Prompts -> {"none", "waits", "invoked", "orphan"}] BY DEF IInv, QueueOK
    <3>. QED BY <2>1, <2>3, <3>2, <3>3, <3>4, NothingStarts
  <2>. QED BY <2>2, <2>3
<1>3. CASE dispatching # p
  <2>1. dispatching' = dispatching /\ state' = s BY <1>3 DEF Dispatched, Shifted
  <2>2. HasQueue(state', Q) BY <2>1
  <2>2a. Q' = Q BY <2>2 DEF HasQueue, Q
  <2>3. call' \in [Prompts -> {"none", "waits", "invoked", "orphan"}] BY DEF IInv, QueueOK
  <2>. QED BY <2>1, <2>2, <2>2a, <2>3, NothingStarts
<1>. QED BY <1>2, <1>3

(* Steps that leave the queue and what is sent alone.                        *)
LEMMA OthersKeep ==
  ASSUME IInv, HasQueue(state', Q), UNCHANGED <<dispatching, sent, prompt>>,
         call' \in [Prompts -> {"none", "waits", "invoked", "orphan"}],
         \A p \in Prompts : call'[p] # "none" => call[p] # "none"
  PROVE  IInv'
<1>1. Q' = Q BY DEF HasQueue, Q
<1>. QED BY <1>1, NothingStarts

(* What the window is told starts nothing.                                   *)
LEMMA ReceiveKeeps == IInv /\ Receive => IInv'
<1> SUFFICES ASSUME IInv, Receive PROVE IInv'
  OBVIOUS
<1>0. HasQueue(state, Q) /\ call \in [Prompts -> {"none", "waits", "invoked", "orphan"}]
  BY DEF IInv, QueueOK
<1>1. CASE RunStarted
  <2> DEFINE r == Head(inbox).run  p == Head(inbox).prompt
  <2>1. Dispatched(p) /\ UNCHANGED <<call, sent, prompt>>
        /\ (state' = Shifted(p, state) \/ state' = Shifted(p, Hydrated(state, r)))
    BY <1>1 DEF RunStarted, manager
  <2>2. HasQueue(Hydrated(state, r), Q) BY <1>0, ReducerKeepsQueue
  <2> HIDE DEF r, p
  <2>. QED BY <1>0, <2>1, <2>2, AnswerKeeps
<1>2. CASE RunRefused
  <2> DEFINE p == Head(inbox).prompt
  <2>1. Dispatched(p) /\ UNCHANGED <<call, sent, prompt>>
        /\ state' = IF dispatching = p THEN [state EXCEPT !.queue = <<>>] ELSE state
    BY <1>2 DEF RunRefused, manager
  <2> HIDE DEF p
  <2>2. CASE dispatching = p
    <3>1. HasQueue(state', <<>>) BY <1>0, <2>1, <2>2, ReducerKeepsQueue
    <3>2. Q' = <<>> BY <3>1 DEF HasQueue, Q
    <3>3. dispatching' = 0 BY <2>1, <2>2 DEF Dispatched
    <3>. QED BY <1>0, <2>1, <3>1, <3>2, <3>3, NothingStarts
  <2>3. CASE dispatching # p
    <3>1. state' = state /\ dispatching' = dispatching BY <2>1, <2>3 DEF Dispatched
    <3>2. HasQueue(state', Q) BY <1>0, <3>1
    <3>. QED BY <1>0, <2>1, <3>1, <3>2, OthersKeep
  <2>. QED BY <2>2, <2>3
<1>3. CASE StopAnswered
  <2> DEFINE r == Head(inbox).run
  <2>1. /\ UNCHANGED <<state, dispatching, sent, prompt>>
        /\ call' = [p \in Prompts |-> IF call[p] = "waits" /\ after[p] = r THEN "invoked" ELSE call[p]]
    BY <1>3 DEF StopAnswered, manager
  <2> HIDE DEF r
  <2>2. call' \in [Prompts -> {"none", "waits", "invoked", "orphan"}]
        /\ \A p \in Prompts : call'[p] # "none" => call[p] # "none"
    BY <1>0, <2>1
  <2>3. HasQueue(state', Q) BY <1>0, <2>1
  <2>. QED BY <2>1, <2>2, <2>3, OthersKeep
<1>4. CASE HandleAgentEvent
  <2> DEFINE m == Head(inbox)
  <2>1. /\ UNCHANGED <<dispatching, call, sent, prompt>> /\ m.type \in EventTypes
        /\ (state' = state \/ state' = Reduced(m))
    BY <1>4 DEF HandleAgentEvent, manager
  <2> HIDE DEF m
  <2>2. HasQueue(Reduced(m), Q)
    <3>0. HasQueue(Hydrated(state, m.run), Q) BY <1>0, ReducerKeepsQueue
    <3>1. HasQueue(TurnCompleted, Q)
      <4>1. PICK phase : TurnCompleted = [state EXCEPT !.phase = phase, !.asked = FALSE]
        BY DEF TurnCompleted
      <4>2. HasQueue([state EXCEPT !.phase = phase, !.asked = FALSE], Q) BY <1>0, ReducerKeepsQueue
      <4>. QED BY <4>1, <4>2
    <3>2. HasQueue(InterruptRequested, Q) BY <1>0, ReducerKeepsQueue DEF InterruptRequested
    <3>3. HasQueue([state EXCEPT !.asked = TRUE], Q) BY <1>0, ReducerKeepsQueue
    <3>4. HasQueue(RunEnded, Q)
      <4>1. RunEnded = [initialState EXCEPT !.queue = Q] BY DEF RunEnded, Q
      <4>. QED BY <1>0, <4>1, ReducerKeepsQueue
    <3>5. Reduced(m) \in {Hydrated(state, m.run), TurnCompleted, InterruptRequested,
                           [state EXCEPT !.asked = TRUE], RunEnded}
      BY <2>1 DEF Reduced, EventTypes, Ends
    <3>. QED BY <3>0, <3>1, <3>2, <3>3, <3>4, <3>5
  <2>3. HasQueue(state', Q) BY <1>0, <2>1, <2>2
  <2>. QED BY <1>0, <2>1, <2>3, OthersKeep
<1>. QED BY <1>1, <1>2, <1>3, <1>4 DEF Receive

(* What a page or tab that comes back finds: its calls go on for nobody.     *)
LEMMA Returned ==
  ASSUME Reload \/ LeaveTab
  PROVE  ComesBack /\ \A p \in Prompts : call[p] = "none" => call'[p] = "none"
<1>1. ComesBack BY DEF Reload, LeaveTab
<1>2. CASE Reload BY <1>1, <1>2 DEF Reload, Orphaned
<1>3. CASE LeaveTab BY <1>1, <1>3 DEF LeaveTab, Orphaned
<1>. QED BY <1>2, <1>3

(* They are orphans, or were never invoked.                                  *)
LEMMA ReturnedCalls ==
  ASSUME Reload \/ LeaveTab
  PROVE  call' \in [Prompts -> {"none", "orphan"}]
<1>1. CASE Reload BY <1>1 DEF Reload, Orphaned
<1>2. CASE LeaveTab BY <1>2 DEF LeaveTab, Orphaned
<1>. QED BY <1>1, <1>2

(* Nor does a stop or an answer; who comes back has forgotten the queue.     *)
LEMMA UserKeeps ==
  IInv /\ (Interrupt \/ AnswerQuestion \/ Reload \/ LeaveTab \/ HideSession \/ ShowSession) => IInv'
<1> SUFFICES ASSUME IInv, Interrupt \/ AnswerQuestion \/ Reload \/ LeaveTab \/ HideSession \/ ShowSession
             PROVE  IInv'
  OBVIOUS
<1>0. HasQueue(state, Q) /\ call \in [Prompts -> {"none", "waits", "invoked", "orphan"}]
  BY DEF IInv, QueueOK
<1>1. CASE Interrupt
  <2>1. UNCHANGED <<dispatching, call, sent, prompt>> /\ state' = InterruptRequested
    BY <1>1 DEF Interrupt, manager
  <2>2. HasQueue(state', Q) BY <1>0, <2>1, ReducerKeepsQueue DEF InterruptRequested
  <2>. QED BY <1>0, <2>1, <2>2, OthersKeep
<1>2. CASE AnswerQuestion
  <2>1. UNCHANGED <<dispatching, call, sent, prompt>> /\ state' = [state EXCEPT !.asked = FALSE]
    BY <1>2 DEF AnswerQuestion, manager
  <2>2. HasQueue(state', Q) BY <1>0, <2>1, ReducerKeepsQueue
  <2>. QED BY <1>0, <2>1, <2>2, OthersKeep
<1>3. CASE Reload \/ LeaveTab
  <2>0. ComesBack BY <1>3, Returned
  <2>1. /\ UNCHANGED <<sent, prompt>> /\ dispatching' = 0
        /\ state' = IF bySession = 0 THEN initialState ELSE Hydrated(initialState, bySession)
    BY <2>0 DEF ComesBack, manager
  <2>2. HasQueue(initialState, <<>>) BY DEF HasQueue, initialState
  <2>3. HasQueue(Hydrated(initialState, bySession), <<>>) BY <2>2, ReducerKeepsQueue
  <2>4. HasQueue(state', <<>>) BY <2>1, <2>2, <2>3
  <2>5. Q' = <<>> BY <2>4 DEF HasQueue, Q
  <2>6. call' \in [Prompts -> {"none", "waits", "invoked", "orphan"}]
        /\ \A p \in Prompts : call'[p] # "none" => call[p] # "none"
    BY <1>3, Returned, ReturnedCalls
  <2>. QED BY <2>1, <2>4, <2>5, <2>6, NothingStarts
<1>4. CASE HideSession \/ ShowSession
  <2>1. UNCHANGED <<state, dispatching, call, sent, prompt>> BY <1>4 DEF HideSession, ShowSession, manager
  <2>2. HasQueue(state', Q) BY <1>0, <2>1
  <2>. QED BY <1>0, <2>1, <2>2, OthersKeep
<1>. QED BY <1>1, <1>2, <1>3, <1>4

(* Nor do the main process and the children, but for StartAgentRun.          *)
LEMMA RunsKeep ==
  ASSUME IInv,
         \/ \E p \in Prompts : Refuse(p)
         \/ InterruptAgentRun
         \/ \E r \in Runs : ForceKill(r) \/ Cleanup(r) \/ EventQueueDrained(r)
                            \/ AskUser(r) \/ CompleteTurn(r) \/ EndChild(r)
         \/ UNCHANGED vars
  PROVE  IInv'
<1>0. HasQueue(state, Q) /\ call \in [Prompts -> {"none", "waits", "invoked", "orphan"}]
  BY DEF IInv, QueueOK
<1>1. UNCHANGED <<state, dispatching, sent, prompt>>
      /\ (call' = call \/ \E p \in Prompts : call' = [call EXCEPT ![p] = "none"])
  BY DEF Refuse, InterruptAgentRun, ForceKill, Cleanup, EventQueueDrained, AskUser, CompleteTurn,
         EndChild, vars, window, manager
<1>2. call' \in [Prompts -> {"none", "waits", "invoked", "orphan"}]
      /\ \A p \in Prompts : call'[p] # "none" => call[p] # "none"
  BY <1>0, <1>1
<1>3. HasQueue(state', Q) BY <1>0, <1>1
<1>. QED BY <1>1, <1>2, <1>3, OthersKeep

(* Every step keeps it.                                                      *)
LEMMA InvStep == IInv /\ [Next]_vars => IInv'
  BY RemoveKeeps, SendKeeps, DispatchKeeps, ForkKeeps, ReceiveKeeps, UserKeeps, RunsKeep DEF Next, User

(* However starts, the queue's effect, stops, reloads and switches           *)
(* interleave, no prompt is given to two children.                           *)
THEOREM PromptsRunOnceHolds == Spec => []PromptsRunOnce
<1>1. IInv => PromptsRunOnce BY DEF IInv
<1>. QED BY <1>1, InitInv, InvStep, PTL DEF Spec

-----------------------------------------------------------------------------
(* Types *)

MessageTypes == {"reply", "stopped"} \union EventTypes
MessagesOK   == [type : MessageTypes, run : {0} \union Runs, prompt : {0} \union Prompts]
Children     == {"none", "failed", "working", "asking", "done", "ended", "drains", "gone"}
Calls        == {"none", "waits", "invoked", "orphan"}
States       == [phase : Phases, runId : {0} \union Runs, queue : Seq(Prompts), asked : BOOLEAN]

(* The main process and the children.                                        *)
ManagerOK ==
  /\ prompt \in [Runs -> {0} \union Prompts] /\ child \in [Runs -> Children]
  /\ \A r \in Runs : child[r] = "none" <=> prompt[r] = 0
  /\ bySession \in {0} \union ById
  /\ interrupted \subseteq Forked /\ late \subseteq Forked

(* What is on its way.                                                       *)
ChannelsOK == inbox \in Seq(MessagesOK) /\ stops \in Seq(Runs)

(* The window, but for stopPending.                                          *)
WindowOK ==
  /\ state \in States
  /\ subscribed \in {0} \union Runs /\ ignored \subseteq Runs
  /\ stopping \in {0} \union Runs /\ dispatching \in {0} \union Prompts
  /\ sent \in 0..MaxPrompts /\ view \in Views
  /\ call \in [Prompts -> Calls] /\ after \in [Prompts -> {0} \union Runs]

(* A tab that was left with a stop to come dooms only calls that go on.      *)
DoomedOK == doomed \subseteq {p \in Prompts : call[p] = "orphan"}

TypeInv == ManagerOK /\ ChannelsOK /\ WindowOK /\ stopPending \in BOOLEAN

(* The first state has its types.                                            *)
LEMMA InitTypes == Init => TypeInv
<1> SUFFICES ASSUME Init PROVE TypeInv
  OBVIOUS
<1> USE AgentRunsAssumption DEF Init
<1>1. ManagerOK BY DEF ManagerOK, Children
<1>2. ChannelsOK BY DEF ChannelsOK
<1>3. state \in States BY DEF States, Phases, initialState
<1>4. WindowOK BY <1>3 DEF WindowOK, Calls, Views
<1>5. stopPending \in BOOLEAN BY Zenon
<1>. QED BY <1>1, <1>2, <1>4, <1>5 DEF TypeInv

(* TypeOK follows.                                                           *)
LEMMA TypeInvIsEnough == TypeInv /\ DoomedOK => TypeOK
<1> SUFFICES ASSUME TypeInv, DoomedOK PROVE TypeOK
  OBVIOUS
<1>1. ManagerOK /\ WindowOK /\ stopPending \in BOOLEAN BY DEF TypeInv
<1>2. /\ state.phase \in Phases /\ state.runId \in {0} \union Runs
      /\ state.queue \in Seq(Prompts)
  BY <1>1 DEF WindowOK, States
<1>3. state.asked \in BOOLEAN BY <1>1, Zenon DEF WindowOK, States
<1>4. \A r \in Runs : (child[r] = "none") = (prompt[r] = 0) BY <1>1 DEF ManagerOK
<1>. QED BY <1>1, <1>2, <1>3, <1>4 DEF TypeOK, ManagerOK, WindowOK, DoomedOK, Children, Calls

(* A child that moves on, and one that is forked.                            *)
LEMMA ChildMoves ==
  ASSUME ManagerOK, NEW r \in Runs, child[r] # "none", NEW to \in Children \ {"none"},
         child' = [child EXCEPT ![r] = to], prompt' = prompt,
         bySession' \in {0, bySession},
         bySession' = r => to \notin {"drains", "gone"},
         interrupted' \subseteq interrupted \union {r}, late' \subseteq late \union {r}
  PROVE  ManagerOK'
<1>1. child' \in [Runs -> Children] /\ child'[r] = to /\ \A q \in Runs \ {r} : child'[q] = child[q]
  BY DEF ManagerOK
<1>2. \A q \in Runs : child'[q] = "none" <=> prompt'[q] = 0 BY <1>1 DEF ManagerOK
<1>3. bySession' \in {0} \union ById' BY <1>1 DEF ManagerOK, ById
<1>4. r \in Forked /\ Forked' = Forked BY DEF ManagerOK, Forked
<1>5. interrupted' \subseteq Forked' /\ late' \subseteq Forked' BY <1>4 DEF ManagerOK
<1>. QED BY <1>1, <1>2, <1>3, <1>5 DEF ManagerOK

(* The main process and the children keep their types.                       *)
LEMMA ManagerStep == ManagerOK /\ ChannelsOK /\ WindowOK /\ [Next]_vars => ManagerOK'
<1> SUFFICES ASSUME ManagerOK, ChannelsOK, WindowOK, [Next]_vars PROVE ManagerOK'
  OBVIOUS
<1>0. ASSUME UNCHANGED <<manager, child>> PROVE ManagerOK'
  BY <1>0 DEF manager, ManagerOK, ById, Forked
<1>1. CASE \/ SendMessage \/ RemoveQueuedPrompt \/ Interrupt \/ Reload \/ LeaveTab
           \/ HideSession \/ ShowSession \/ DispatchQueued \/ Receive
           \/ (\E p \in Prompts : Refuse(p)) \/ UNCHANGED vars
  <2>1. UNCHANGED <<manager, child>>
    BY <1>1 DEF SendMessage, RemoveQueuedPrompt, Interrupt, Reload, LeaveTab, ComesBack, HideSession,
                ShowSession, DispatchQueued, Receive, Refuse, vars,
                RunStarted, RunRefused, StopAnswered, HandleAgentEvent
  <2>. QED BY <1>0, <2>1
<1>2. CASE AnswerQuestion
  <2>1. CASE child[state.runId] = "asking"
    <3>1. state.runId \in Runs /\ child' = [child EXCEPT ![state.runId] = "working"]
          /\ UNCHANGED <<prompt, bySession, interrupted, late>>
      BY <1>2, <2>1 DEF AnswerQuestion, manager, WindowOK, States
    <3>2. "working" \in Children \ {"none"} BY DEF Children
    <3>. QED BY <2>1, <3>1, <3>2, ChildMoves
  <2>2. CASE child[state.runId] # "asking" BY <1>0, <1>2, <2>2 DEF AnswerQuestion
  <2>. QED BY <2>1, <2>2
<1>3. ASSUME NEW p \in Prompts, StartAgentRun(p) PROVE ManagerOK'
  <2>1. PICK r \in Runs :
          /\ prompt[r] = 0 /\ bySession' = r /\ prompt' = [prompt EXCEPT ![r] = p]
          /\ child' = [child EXCEPT ![r] = "working"] \/ child' = [child EXCEPT ![r] = "failed"]
          /\ UNCHANGED <<interrupted, late>>
    BY <1>3 DEF StartAgentRun
  <2>2. /\ child' \in [Runs -> Children] /\ child'[r] \in {"working", "failed"}
        /\ \A q \in Runs \ {r} : child'[q] = child[q]
    BY <2>1 DEF ManagerOK, Children
  <2>3. /\ prompt' \in [Runs -> {0} \union Prompts] /\ prompt'[r] = p /\ p # 0
        /\ \A q \in Runs \ {r} : prompt'[q] = prompt[q]
    BY <2>1 DEF ManagerOK, Prompts
  <2>4. \A q \in Runs : child'[q] = "none" <=> prompt'[q] = 0 BY <2>2, <2>3 DEF ManagerOK
  <2>5. bySession' \in ById' BY <2>1, <2>2 DEF ById
  <2>6. Forked \subseteq Forked' BY <2>1, <2>3 DEF Forked
  <2>. QED BY <2>1, <2>2, <2>3, <2>4, <2>5, <2>6 DEF ManagerOK
<1>4. CASE InterruptAgentRun
  <2> DEFINE r == Head(stops)
  <2>1. /\ stops # <<>> /\ interrupted' = interrupted \union ({r} \intersect ById)
        /\ bySession' \in {0, bySession} /\ UNCHANGED <<prompt, late>>
        /\ (child' = child \/ (r \in ById /\ Killed(r)))
    BY <1>4 DEF InterruptAgentRun
  <2>2. r \in Runs BY <2>1 DEF ChannelsOK
  <2> HIDE DEF r
  <2>3. r \in ById => child[r] # "none" BY DEF ById
  <2>4. CASE r \in ById /\ Killed(r)
    <3>1. PICK to \in {"failed", "ended"} : child' = [child EXCEPT ![r] = to] BY <2>4 DEF Killed
    <3>2. to \in Children \ {"none"} BY DEF Children
    <3>. QED BY <2>1, <2>2, <2>3, <2>4, <3>1, <3>2, ChildMoves
  <2>5. CASE child' = child
    <3>1. r \in ById => r \in Forked BY <2>2, <2>3 DEF ManagerOK, Forked
    <3>. QED BY <2>1, <2>5, <3>1 DEF ManagerOK, ById, Forked
  <2>. QED BY <2>1, <2>4, <2>5
<1>5. ASSUME NEW r \in Runs,
             ForceKill(r) \/ Cleanup(r) \/ EventQueueDrained(r) \/ AskUser(r) \/ CompleteTurn(r) \/ EndChild(r)
      PROVE  ManagerOK'
  <2> USE DEF manager, window, Killed, Children
  <2>1. CASE ForceKill(r) BY <1>5, <2>1, ChildMoves DEF ForceKill
  <2>2. CASE Cleanup(r)
    <3>1. /\ child[r] = "ended" /\ child' = [child EXCEPT ![r] = "drains"] /\ bySession' = 0
          /\ UNCHANGED <<prompt, interrupted, late>>
      BY <2>2 DEF Cleanup
    <3>2. bySession' # r BY <3>1 DEF Runs
    <3>. QED BY <3>1, <3>2, ChildMoves
  <2>3. CASE EventQueueDrained(r)
    <3>1. /\ child[r] = "drains" /\ child' = [child EXCEPT ![r] = "gone"]
          /\ UNCHANGED <<prompt, bySession, interrupted, late>>
      BY <2>3 DEF EventQueueDrained
    <3>2. bySession' # r BY <3>1 DEF Runs, ManagerOK, ById
    <3>. QED BY <3>1, <3>2, ChildMoves
  <2>4. CASE AskUser(r) BY <2>4, ChildMoves DEF AskUser
  <2>5. CASE CompleteTurn(r) BY <2>5, ChildMoves DEF CompleteTurn
  <2>6. CASE EndChild(r) BY <2>6, ChildMoves DEF EndChild
  <2>. QED BY <1>5, <2>1, <2>2, <2>3, <2>4, <2>5, <2>6
<1>. QED BY <1>1, <1>2, <1>3, <1>4, <1>5 DEF Next, User

(* Messages, alone and one after the other.                                  *)
LEMMA MessagesFit ==
  ASSUME NEW type \in MessageTypes, NEW r \in {0} \union Runs, NEW p \in {0} \union Prompts
  PROVE  Message(type, r, p) \in MessagesOK /\ Event(type, r) \in MessagesOK
  BY DEF Message, Event, MessagesOK

(* A message that is appended keeps the types of what is on its way.         *)
LEMMA SendsKeeps ==
  ASSUME ChannelsOK, NEW new \in Seq(MessagesOK), Sends(new)
  PROVE  inbox' \in Seq(MessagesOK)
  BY DEF Sends, ChannelsOK

(* What the head of the inbox says, and what is left.                        *)
LEMMA HeadFits ==
  ASSUME ChannelsOK, inbox # <<>>
  PROVE  /\ Head(inbox).run \in {0} \union Runs /\ Head(inbox).prompt \in {0} \union Prompts
         /\ Tail(inbox) \in Seq(MessagesOK)
<1>1. Head(inbox) \in MessagesOK /\ Tail(inbox) \in Seq(MessagesOK) BY DEF ChannelsOK
<1>. QED BY <1>1 DEF MessagesOK

(* What is on its way keeps its types.                                       *)
LEMMA ChannelsStep == ManagerOK /\ ChannelsOK /\ WindowOK /\ [Next]_vars => ChannelsOK'
<1> SUFFICES ASSUME ManagerOK, ChannelsOK, WindowOK, [Next]_vars PROVE ChannelsOK'
  OBVIOUS
<1>0. inbox \in Seq(MessagesOK) /\ stops \in Seq(Runs) BY DEF ChannelsOK
<1>t. \A t \in {"reply", "stopped", "run.started", "turn.completed", "run.interrupting", "question.asked",
                "run.interrupted", "run.exited"} : t \in MessageTypes
  BY DEF MessageTypes, EventTypes, Ends
<1>1. CASE \/ SendMessage \/ RemoveQueuedPrompt \/ DispatchQueued \/ AnswerQuestion
           \/ HideSession \/ ShowSession \/ UNCHANGED vars
           \/ \E r \in Runs : ForceKill(r) \/ Cleanup(r) \/ EndChild(r)
  <2>1. UNCHANGED <<inbox, stops>>
    BY <1>1 DEF SendMessage, RemoveQueuedPrompt, DispatchQueued, AnswerQuestion, HideSession, ShowSession,
                vars, chans, ForceKill, Cleanup, EndChild
  <2>. QED BY <1>0, <2>1 DEF ChannelsOK
<1>2. CASE Interrupt
  <2>1. UNCHANGED inbox /\ (stops' = stops \/ (state.runId # 0 /\ stops' = Append(stops, state.runId)))
    BY <1>2 DEF Interrupt, AskToStop
  <2>2. state.runId \in {0} \union Runs BY DEF WindowOK, States
  <2>. QED BY <1>0, <2>1, <2>2 DEF ChannelsOK
<1>3. CASE Reload \/ LeaveTab
  <2>1. inbox' = <<>> /\ stops' = stops BY <1>3, Returned DEF ComesBack
  <2>. QED BY <1>0, <2>1 DEF ChannelsOK
<1>4. CASE Receive
  <2> DEFINE r == Head(inbox).run
  <2>1. /\ inbox # <<>> /\ inbox' = Tail(inbox)
        /\ (stops' = stops \/ (r # 0 /\ stops' = Append(stops, r)))
    BY <1>4 DEF Receive, RunStarted, RunRefused, StopAnswered, HandleAgentEvent, Told, AskToStop
  <2>2. r \in {0} \union Runs /\ Tail(inbox) \in Seq(MessagesOK) BY <2>1, HeadFits
  <2> HIDE DEF r
  <2>. QED BY <1>0, <2>1, <2>2 DEF ChannelsOK
<1>5. ASSUME NEW p \in Prompts, Refuse(p) PROVE ChannelsOK'
  <2>1. stops' = stops /\ (inbox' = inbox \/ Sends(<<Message("reply", 0, p)>>)) BY <1>5 DEF Refuse
  <2>2a. Message("reply", 0, p) \in MessagesOK BY <1>t, MessagesFit
  <2>2. <<Message("reply", 0, p)>> \in Seq(MessagesOK) BY <2>2a
  <2>. QED BY <1>0, <2>1, <2>2, SendsKeeps DEF ChannelsOK
<1>6. ASSUME NEW p \in Prompts, StartAgentRun(p) PROVE ChannelsOK'
  <2> DEFINE answer(r) == IF call[p] = "invoked" THEN <<Message("reply", r, p)>> ELSE <<>>
  <2>1. PICK r \in Runs :
          /\ stops' = stops \/ stops' = Append(stops, r)
          /\ Sends(answer(r) \o <<Event("run.started", r)>>) \/ Sends(answer(r))
    BY <1>6 DEF StartAgentRun
  <2>2. Message("reply", r, p) \in MessagesOK /\ Event("run.started", r) \in MessagesOK
    BY <1>t, MessagesFit
  <2>3. answer(r) \in Seq(MessagesOK) /\ answer(r) \o <<Event("run.started", r)>> \in Seq(MessagesOK)
    BY <2>2
  <2>4. inbox' \in Seq(MessagesOK) BY <2>1, <2>3, SendsKeeps
  <2> HIDE DEF answer
  <2>5. Append(stops, r) \in Seq(Runs) BY <1>0
  <2>. QED BY <1>0, <2>1, <2>4, <2>5 DEF ChannelsOK
<1>7. CASE InterruptAgentRun
  <2> DEFINE r == Head(stops)
  <2>1. /\ stops # <<>> /\ stops' = Tail(stops)
        /\ \/ Sends(<<Event("run.interrupting", r), Event("stopped", r)>>)
           \/ Sends(<<Event("stopped", r)>>)
    BY <1>7 DEF InterruptAgentRun
  <2>2. r \in Runs /\ stops' \in Seq(Runs) BY <1>0, <2>1
  <2> HIDE DEF r
  <2>3. Event("run.interrupting", r) \in MessagesOK /\ Event("stopped", r) \in MessagesOK
    BY <1>t, <2>2, MessagesFit
  <2>4. <<Event("run.interrupting", r), Event("stopped", r)>> \in Seq(MessagesOK)
        /\ <<Event("stopped", r)>> \in Seq(MessagesOK)
    BY <2>3
  <2>. QED BY <2>1, <2>2, <2>4, SendsKeeps DEF ChannelsOK
<1>8. ASSUME NEW r \in Runs, EventQueueDrained(r) \/ AskUser(r) \/ CompleteTurn(r) PROVE ChannelsOK'
  <2>1. /\ Event("run.interrupted", r) \in MessagesOK /\ Event("run.exited", r) \in MessagesOK
        /\ Event("turn.completed", r) \in MessagesOK /\ Event("question.asked", r) \in MessagesOK
    BY <1>t, MessagesFit
  <2>2. CASE EventQueueDrained(r)
    <3> DEFINE a == IF r \in interrupted THEN <<Event("run.interrupted", r)>> ELSE <<>>
               b == <<Event("run.exited", r)>>
               c == IF r \in late THEN <<Event("turn.completed", r)>> ELSE <<>>
    <3>1. stops' = stops /\ Sends(a \o b \o c) BY <2>2 DEF EventQueueDrained
    <3>2. a \in Seq(MessagesOK) /\ b \in Seq(MessagesOK) /\ c \in Seq(MessagesOK) BY <2>1
    <3> HIDE DEF a, b, c
    <3>3. a \o b \in Seq(MessagesOK) BY <3>2
    <3>4. a \o b \o c \in Seq(MessagesOK) BY <3>2, <3>3
    <3>. QED BY <1>0, <3>1, <3>4, SendsKeeps DEF ChannelsOK
  <2>3. CASE AskUser(r)
    <3>1. stops' = stops /\ Sends(<<Event("question.asked", r)>>) BY <2>3 DEF AskUser
    <3>2. <<Event("question.asked", r)>> \in Seq(MessagesOK) BY <2>1
    <3>. QED BY <1>0, <3>1, <3>2, SendsKeeps DEF ChannelsOK
  <2>4. CASE CompleteTurn(r)
    <3>1. stops' = stops /\ (inbox' = inbox \/ Sends(<<Event("turn.completed", r)>>))
      BY <2>4 DEF CompleteTurn
    <3>2. <<Event("turn.completed", r)>> \in Seq(MessagesOK) BY <2>1
    <3>. QED BY <1>0, <3>1, <3>2, SendsKeeps DEF ChannelsOK
  <2>. QED BY <1>8, <2>2, <2>3, <2>4
<1>. QED BY <1>1, <1>2, <1>3, <1>4, <1>5, <1>6, <1>7, <1>8 DEF Next, User

(* Sessions that the reducer makes.                                          *)
LEMMA StatesFit ==
  ASSUME NEW s \in States
  PROVE  /\ \A r \in {0} \union Runs : Hydrated(s, r) \in States
         /\ \A phase \in Phases, r \in {0} \union Runs : [s EXCEPT !.phase = phase, !.runId = r] \in States
         /\ \A q \in Seq(Prompts) : [s EXCEPT !.queue = q] \in States
<1> USE DEF States, Phases
<1>1. \A r \in {0} \union Runs : Hydrated(s, r) \in States BY DEF Hydrated
<1>2. \A phase \in Phases, r \in {0} \union Runs : [s EXCEPT !.phase = phase, !.runId = r] \in States
  OBVIOUS
<1>3. \A q \in Seq(Prompts) : [s EXCEPT !.queue = q] \in States OBVIOUS
<1>. QED BY <1>1, <1>2, <1>3

(* And with another answer to what is asked.                                 *)
LEMMA AskedFits == ASSUME NEW s \in States, NEW b \in BOOLEAN PROVE [s EXCEPT !.asked = b] \in States
  BY Zenon DEF States

(* A session of which nothing is known.                                      *)
LEMMA InitialFits == initialState \in States
<1>1. 0 \in {0} \union Runs /\ <<>> \in Seq(Prompts) /\ "idle" \in Phases BY DEF Phases
<1>2. FALSE \in BOOLEAN BY Zenon
<1>. QED BY <1>1, <1>2, Zenon DEF initialState, States

(* The session's state keeps its type.                                       *)
LEMMA ReducedFits ==
  ASSUME state \in States, NEW m \in MessagesOK, m.type \in EventTypes
  PROVE  Reduced(m) \in States /\ InterruptRequested \in States
<1>0. initialState \in States BY InitialFits
<1>1. [state EXCEPT !.asked = TRUE] \in States /\ [state EXCEPT !.asked = FALSE] \in States
  BY AskedFits
<1>2. TurnCompleted \in States
  <2>1. PICK phase \in Phases : TurnCompleted = [state EXCEPT !.phase = phase, !.asked = FALSE]
    BY DEF TurnCompleted, Phases
  <2>2. [state EXCEPT !.phase = phase] \in States BY DEF States
  <2>3. [[state EXCEPT !.phase = phase] EXCEPT !.asked = FALSE] \in States BY <2>2, AskedFits
  <2>4. [[state EXCEPT !.phase = phase] EXCEPT !.asked = FALSE] = [state EXCEPT !.phase = phase, !.asked = FALSE]
    BY Zenon
  <2>. QED BY <2>1, <2>3, <2>4
<1>3. InterruptRequested \in States
  <2>0. "idle" \in Phases /\ 0 \in {0} \union Runs BY DEF Phases
  <2>1. [state EXCEPT !.phase = "idle", !.runId = 0] \in States BY <2>0, StatesFit
  <2>2. [[state EXCEPT !.phase = "idle", !.runId = 0] EXCEPT !.asked = FALSE] \in States BY <2>1, AskedFits
  <2>3. InterruptRequested = [[state EXCEPT !.phase = "idle", !.runId = 0] EXCEPT !.asked = FALSE]
    BY Zenon DEF InterruptRequested
  <2>. QED BY <2>2, <2>3
<1>4. RunEnded \in States
  <2>1. state.queue \in Seq(Prompts) BY DEF States
  <2>2. [initialState EXCEPT !.queue = state.queue] \in States BY <1>0, <2>1, StatesFit
  <2>. QED BY <2>2 DEF RunEnded
<1>5. Hydrated(state, m.run) \in States
  <2>1. m.run \in {0} \union Runs BY DEF MessagesOK
  <2>. QED BY <2>1, StatesFit
<1>6. Reduced(m) \in {Hydrated(state, m.run), TurnCompleted, InterruptRequested,
                       [state EXCEPT !.asked = TRUE], RunEnded}
  BY DEF Reduced, EventTypes, Ends
<1>. QED BY <1>1, <1>2, <1>3, <1>4, <1>5, <1>6

(* A prompt that is started.                                                 *)
LEMMA StartFits ==
  ASSUME WindowOK, NEW p \in Prompts, StartRun(p)
  PROVE  state' \in States /\ call' \in [Prompts -> Calls] /\ after' \in [Prompts -> {0} \union Runs]
<1>1. state' \in States
  <2>1. "starting" \in Phases /\ 0 \in {0} \union Runs /\ state \in States BY DEF Phases, WindowOK
  <2>2. [state EXCEPT !.phase = "starting", !.runId = 0] \in States BY <2>1, StatesFit
  <2>. QED BY <2>2 DEF StartRun
<1>2. call' \in [Prompts -> Calls] BY DEF StartRun, WindowOK, Calls
<1>3. after' \in [Prompts -> {0} \union Runs] BY DEF StartRun, WindowOK
<1>. QED BY <1>1, <1>2, <1>3

(* A queue that is shifted.                                                  *)
LEMMA ShiftFits ==
  ASSUME NEW s \in States, NEW p PROVE Shifted(p, s) \in States
<1>1. s.queue \in Seq(Prompts) BY DEF States
<1>2. CASE dispatching = p /\ s.queue # <<>>
  <2>1. Tail(s.queue) \in Seq(Prompts) BY <1>1, <1>2
  <2>2. [s EXCEPT !.queue = Tail(s.queue)] \in States BY <2>1, StatesFit
  <2>. QED BY <1>2, <2>2 DEF Shifted
<1>3. CASE ~(dispatching = p /\ s.queue # <<>>) BY <1>3 DEF Shifted
<1>. QED BY <1>2, <1>3

(* The window keeps its types.                                               *)
LEMMA WindowStep == ManagerOK /\ ChannelsOK /\ WindowOK /\ [Next]_vars => WindowOK'
<1> SUFFICES ASSUME ManagerOK, ChannelsOK, WindowOK, [Next]_vars PROVE WindowOK'
  OBVIOUS
<1>0. /\ state \in States /\ state.queue \in Seq(Prompts) /\ state.runId \in {0} \union Runs
      /\ \A i \in DOMAIN state.queue : state.queue[i] \in Prompts
  BY DEF WindowOK, States
<1>v. Refires => view' \in Views BY DEF Refires, WindowOK, Views
<1>1. CASE \/ InterruptAgentRun \/ (\E p \in Prompts : StartAgentRun(p) \/ Refuse(p)) \/ UNCHANGED vars
           \/ \E r \in Runs : ForceKill(r) \/ Cleanup(r) \/ EventQueueDrained(r)
                              \/ AskUser(r) \/ CompleteTurn(r) \/ EndChild(r)
  <2>1. UNCHANGED <<state, subscribed, ignored, stopping, dispatching, after, view, sent>>
        /\ (call' = call \/ \E p \in Prompts : call' = [call EXCEPT ![p] = "none"])
    BY <1>1 DEF InterruptAgentRun, StartAgentRun, Refuse, vars, window, ForceKill, Cleanup,
                EventQueueDrained, AskUser, CompleteTurn, EndChild
  <2>2. call' \in [Prompts -> Calls] BY <2>1 DEF WindowOK, Calls
  <2>. QED BY <2>1, <2>2 DEF WindowOK
<1>2. CASE SendMessage
  <2>1. /\ sent' = sent + 1 /\ sent < MaxPrompts /\ view' \in Views
        /\ UNCHANGED <<subscribed, ignored, stopping, dispatching>>
    BY <1>2, <1>v DEF SendMessage
  <2>2. sent' \in 0..MaxPrompts /\ sent + 1 \in Prompts
    BY <2>1, AgentRunsAssumption DEF WindowOK, Prompts
  <2>3. CASE state' = [state EXCEPT !.queue = Append(state.queue, sent + 1)] /\ UNCHANGED <<call, after, stale>>
    <3>1. Append(state.queue, sent + 1) \in Seq(Prompts) BY <1>0, <2>2
    <3>2. state' \in States BY <1>0, <2>3, <3>1, StatesFit
    <3>. QED BY <2>1, <2>2, <2>3, <3>2 DEF WindowOK
  <2>4. CASE StartRun(sent + 1)
    <3>1. state' \in States /\ call' \in [Prompts -> Calls] /\ after' \in [Prompts -> {0} \union Runs]
      BY <2>2, <2>4, StartFits
    <3>. QED BY <2>1, <2>2, <3>1 DEF WindowOK
  <2>. QED BY <1>2, <2>3, <2>4 DEF SendMessage
<1>3. CASE DispatchQueued
  <2>1. Head(state.queue) \in Prompts BY <1>0, <1>3, CutQueue DEF DispatchQueued
  <2>2. state' \in States /\ call' \in [Prompts -> Calls] /\ after' \in [Prompts -> {0} \union Runs]
    BY <1>3, <2>1, StartFits DEF DispatchQueued
  <2>. QED BY <1>3, <2>1, <2>2 DEF DispatchQueued, WindowOK
<1>4. CASE RemoveQueuedPrompt
  <2>1. PICK i \in DOMAIN state.queue : state' = [state EXCEPT !.queue = RemoveAt(state.queue, i)]
    BY <1>4 DEF RemoveQueuedPrompt
  <2>2. RemoveAt(state.queue, i) \in Seq(Prompts) BY <1>0, RemovedAt
  <2>3. state' \in States BY <1>0, <2>1, <2>2, StatesFit
  <2>. QED BY <1>4, <1>v, <2>3 DEF RemoveQueuedPrompt, WindowOK
<1>5. CASE Interrupt
  <2>1. /\ state' = InterruptRequested /\ subscribed' = 0 /\ view' \in Views
        /\ UNCHANGED <<dispatching, call, after, sent>>
        /\ \/ UNCHANGED <<ignored, stopping>>
           \/ /\ state.runId # 0 /\ ignored' = ignored \union {state.runId} /\ stopping' = state.runId
    BY <1>5, <1>v DEF Interrupt, AskToStop
  <2>2. InterruptRequested \in States
    <3>0. "idle" \in Phases /\ 0 \in {0} \union Runs BY DEF Phases
    <3>1. [state EXCEPT !.phase = "idle", !.runId = 0] \in States BY <1>0, <3>0, StatesFit
    <3>2. [[state EXCEPT !.phase = "idle", !.runId = 0] EXCEPT !.asked = FALSE] \in States BY <3>1, AskedFits
    <3>3. InterruptRequested = [[state EXCEPT !.phase = "idle", !.runId = 0] EXCEPT !.asked = FALSE]
      BY Zenon DEF InterruptRequested
    <3>. QED BY <3>2, <3>3
  <2>. QED BY <1>0, <2>1, <2>2 DEF WindowOK
<1>6. CASE AnswerQuestion
  <2>1. state' = [state EXCEPT !.asked = FALSE]
        /\ UNCHANGED <<subscribed, ignored, stopping, dispatching, call, after, view, sent>>
    BY <1>6 DEF AnswerQuestion
  <2>2. [state EXCEPT !.asked = FALSE] \in States BY <1>0, AskedFits
  <2>. QED BY <2>1, <2>2 DEF WindowOK
<1>7. CASE Reload \/ LeaveTab
  <2>0. ComesBack BY <1>7, Returned
  <2>1. /\ state' = IF bySession = 0 THEN initialState ELSE Hydrated(initialState, bySession)
        /\ subscribed' = bySession /\ ignored' = {} /\ stopping' = 0 /\ dispatching' = 0
        /\ after' = [p \in Prompts |-> 0] /\ sent' = sent /\ view' = "shown"
    BY <2>0 DEF ComesBack
  <2>2. bySession \in {0} \union Runs BY DEF ManagerOK, ById
  <2>3. initialState \in States BY InitialFits
  <2>4. state' \in States BY <2>1, <2>2, <2>3, StatesFit
  <2>5. call' \in [Prompts -> Calls] BY <1>7, ReturnedCalls DEF Calls
  <2>. QED BY <2>1, <2>2, <2>4, <2>5 DEF WindowOK, Views
<1>9. CASE HideSession \/ ShowSession
  <2>1. /\ view' \in Views
        /\ UNCHANGED <<state, subscribed, ignored, stopping, dispatching, call, after, sent>>
    BY <1>9 DEF HideSession, ShowSession, Views
  <2>. QED BY <2>1 DEF WindowOK
<1>8. CASE Receive
  <2>0. inbox # <<>> BY <1>8 DEF Receive, RunStarted, RunRefused, StopAnswered, HandleAgentEvent, Told
  <2> DEFINE m == Head(inbox)  r == m.run  p == m.prompt
  <2>1. m \in MessagesOK /\ r \in {0} \union Runs BY <2>0, HeadFits DEF ChannelsOK
  <2>2. CASE RunStarted
    <3>1. /\ r # 0 /\ (state' = Shifted(p, state) \/ state' = Shifted(p, Hydrated(state, r)))
          /\ (subscribed' = subscribed \/ subscribed' = r)
          /\ (UNCHANGED <<ignored, stopping>> \/ (ignored' = ignored \union {r} /\ stopping' = r))
          /\ Dispatched(p) /\ view' \in Views /\ UNCHANGED <<call, after, sent>>
      BY <1>v, <2>2 DEF RunStarted, AskToStop
    <3> HIDE DEF m, r, p
    <3>2. Hydrated(state, r) \in States BY <1>0, <2>1, StatesFit
    <3>3. state' \in States BY <1>0, <3>1, <3>2, ShiftFits
    <3>4. dispatching' \in {0} \union Prompts BY <3>1 DEF Dispatched, WindowOK
    <3>. QED BY <2>1, <3>1, <3>3, <3>4 DEF WindowOK
  <2>3. CASE RunRefused
    <3>1. /\ state' = IF dispatching = p THEN [state EXCEPT !.queue = <<>>] ELSE state
          /\ Dispatched(p) /\ view' \in Views
          /\ UNCHANGED <<subscribed, ignored, stopping, call, after, sent>>
      BY <1>v, <2>3 DEF RunRefused
    <3> HIDE DEF m, r, p
    <3>2. <<>> \in Seq(Prompts) OBVIOUS
    <3>3. [state EXCEPT !.queue = <<>>] \in States BY <1>0, <3>2, StatesFit
    <3>4. state' \in States BY <1>0, <3>1, <3>3
    <3>5. dispatching' \in {0} \union Prompts BY <3>1 DEF Dispatched, WindowOK
    <3>. QED BY <3>1, <3>4, <3>5 DEF WindowOK
  <2>4. CASE StopAnswered
    <3>1. /\ stopping' \in {0, stopping}
          /\ call' = [q \in Prompts |-> IF call[q] = "waits" /\ after[q] = r THEN "invoked" ELSE call[q]]
          /\ after' = [q \in Prompts |-> IF after[q] = r THEN 0 ELSE after[q]]
          /\ UNCHANGED <<state, subscribed, ignored, dispatching, view, sent>>
      BY <2>4 DEF StopAnswered
    <3> HIDE DEF m, r, p
    <3>2. call' \in [Prompts -> Calls] /\ after' \in [Prompts -> {0} \union Runs]
      BY <3>1 DEF WindowOK, Calls
    <3>. QED BY <3>1, <3>2 DEF WindowOK
  <2>5. CASE HandleAgentEvent
    <3>1. /\ m.type \in EventTypes /\ (state' = state \/ state' = Reduced(m))
          /\ subscribed' \in {0, r, subscribed} /\ ignored' \subseteq ignored /\ view' \in Views
          /\ UNCHANGED <<stopping, dispatching, call, after, sent>>
      BY <1>v, <2>5 DEF HandleAgentEvent
    <3>2. r = m.run OBVIOUS
    <3> HIDE DEF m, r, p
    <3>3. state' \in States BY <1>0, <2>1, <3>1, ReducedFits
    <3>. QED BY <2>1, <3>1, <3>3 DEF WindowOK
  <2>. QED BY <1>8, <2>2, <2>3, <2>4, <2>5 DEF Receive
<1>. QED BY <1>1, <1>2, <1>3, <1>4, <1>5, <1>6, <1>7, <1>8, <1>9 DEF Next, User

(* Only orphans are doomed: one that runs or is refused is so no more, and a *)
(* prompt that is started has no call.                                       *)
LEMMA DoomedStep == IInv /\ DoomedOK /\ [Next]_vars => DoomedOK'
<1> SUFFICES ASSUME IInv, DoomedOK, [Next]_vars PROVE DoomedOK'
  OBVIOUS
<1>0. ASSUME doomed' \subseteq doomed, \A p \in doomed' : call'[p] = call[p] PROVE DoomedOK'
  BY <1>0 DEF DoomedOK
<1>1. CASE \/ RemoveQueuedPrompt \/ Interrupt \/ AnswerQuestion \/ HideSession \/ ShowSession
           \/ RunStarted \/ RunRefused \/ HandleAgentEvent \/ InterruptAgentRun \/ UNCHANGED vars
           \/ \E r \in Runs : ForceKill(r) \/ Cleanup(r) \/ EventQueueDrained(r)
                              \/ AskUser(r) \/ CompleteTurn(r) \/ EndChild(r)
  <2>1. UNCHANGED <<call, doomed>>
    BY <1>1 DEF RemoveQueuedPrompt, Interrupt, AnswerQuestion, HideSession, ShowSession, RunStarted,
                RunRefused, HandleAgentEvent, InterruptAgentRun, vars, window, ForceKill, Cleanup,
                EventQueueDrained, AskUser, CompleteTurn, EndChild
  <2>. QED BY <1>0, <2>1
<1>2. CASE SendMessage \/ DispatchQueued
  <2>0. call \in [Prompts -> Calls] /\ Q \in Seq(Prompts) BY DEF IInv, QueueOK, Calls
  <2>1. doomed' = doomed /\ (call' = call \/ \E p : call[p] # "orphan" /\ StartRun(p))
    <3>1. CASE SendMessage
      <4>1. sent < MaxPrompts /\ sent \in Nat BY <3>1 DEF SendMessage, IInv, QueueOK
      <4>2. sent + 1 \in Prompts BY <4>1, AgentRunsAssumption DEF Prompts
      <4>3. call[sent + 1] # "orphan" BY <4>1, <4>2 DEF IInv, FreshInv
      <4>. QED BY <3>1, <4>3 DEF SendMessage
    <3>2. CASE DispatchQueued
      <4>1. Q # <<>> /\ dispatching = 0 /\ doomed' = doomed /\ StartRun(Head(Q)) BY <3>2 DEF DispatchQueued, Q
      <4>2. Head(Q) = Q[1] /\ 1 \in DOMAIN Q /\ Head(Q) \in Prompts BY <2>0, <4>1, CutQueue
      <4>3. Q[1] # dispatching BY <4>1, <4>2 DEF Prompts
      <4>4. call[Head(Q)] = "none" BY <4>2, <4>3 DEF IInv, StartInv
      <4>. QED BY <4>1, <4>4
    <3>. QED BY <1>2, <3>1, <3>2
  <2>2. CASE call' = call BY <1>0, <2>1, <2>2
  <2>3. ASSUME NEW p, call[p] # "orphan", StartRun(p) PROVE DoomedOK'
    <3>1. p \notin doomed BY <2>3 DEF DoomedOK
    <3>2. \A q \in Prompts \ {p} : call'[q] = call[q] BY <2>0, <2>3 DEF StartRun
    <3>. QED BY <1>0, <2>1, <3>1, <3>2 DEF DoomedOK
  <2>. QED BY <2>1, <2>2, <2>3
<1>3. CASE Reload BY <1>3 DEF Reload, DoomedOK
<1>4. CASE LeaveTab BY <1>4 DEF LeaveTab, Orphaned, DoomedOK
<1>5. CASE StopAnswered
  <2>1. doomed' = doomed /\ \A p \in Prompts : call[p] # "waits" => call'[p] = call[p]
    BY <1>5 DEF StopAnswered
  <2>. QED BY <1>0, <2>1 DEF DoomedOK
<1>6. ASSUME NEW p \in Prompts, Refuse(p) \/ StartAgentRun(p) PROVE DoomedOK'
  <2>1. doomed' \subseteq doomed \ {p} /\ call' = [call EXCEPT ![p] = "none"]
    BY <1>6 DEF Refuse, StartAgentRun
  <2>2. \A q \in Prompts \ {p} : call'[q] = call[q] BY <2>1 DEF IInv, QueueOK
  <2>. QED BY <1>0, <2>1, <2>2 DEF DoomedOK
<1>. QED BY <1>1, <1>2, <1>3, <1>4, <1>5, <1>6 DEF Next, User, Receive

(* stopPending says TRUE or FALSE.                                           *)
LEMMA StopPendingStep == stopPending \in BOOLEAN /\ [Next]_vars => stopPending' \in BOOLEAN
<1> SUFFICES ASSUME stopPending \in BOOLEAN, [Next]_vars PROVE stopPending' \in BOOLEAN
  OBVIOUS
<1>1. stopPending' = stopPending \/ stopPending' = TRUE \/ stopPending' = FALSE
  BY DEF Next, User, vars, window, SendMessage, RemoveQueuedPrompt, Interrupt, AnswerQuestion, Reload,
         LeaveTab, ComesBack, HideSession, ShowSession, DispatchQueued, Receive, RunStarted, RunRefused, StopAnswered, HandleAgentEvent, Refuse,
         StartAgentRun, InterruptAgentRun, ForceKill, Cleanup, EventQueueDrained, AskUser, CompleteTurn,
         EndChild
<1>. QED BY <1>1, Zenon

(* The variables of AgentRuns have the values that TypeOK gives them: the    *)
(* session's entry is always a child whose exit was not handled.             *)
THEOREM TypeCorrect == Spec => []TypeOK
<1>1. TypeInv /\ [Next]_vars => TypeInv'
  BY ManagerStep, ChannelsStep, WindowStep, StopPendingStep DEF TypeInv
<1>2. Init => DoomedOK BY DEF Init, DoomedOK
<1>. QED BY <1>1, <1>2, InitTypes, InitInv, InvStep, DoomedStep, TypeInvIsEnough, PTL DEF Spec

-----------------------------------------------------------------------------
(* What the window shows, and the queue, after each change of its session.   *)
LEMMA FieldsOf ==
  ASSUME NEW s \in States
  PROVE  /\ \A r : LET t == Hydrated(s, r) IN t.phase = "running" /\ t.runId = r /\ t.queue = s.queue
         /\ \A b : LET t == [s EXCEPT !.asked = b]
                   IN  t.phase = s.phase /\ t.runId = s.runId /\ t.queue = s.queue
         /\ \A q : LET t == [s EXCEPT !.queue = q] IN t.phase = s.phase /\ t.runId = s.runId /\ t.queue = q
         /\ \A f, r : LET t == [s EXCEPT !.phase = f, !.runId = r]
                      IN  t.phase = f /\ t.runId = r /\ t.queue = s.queue
  BY DEF States, Hydrated

(* What the messages about the shown run leave of it.                        *)
LEMMA FieldsOfState ==
  ASSUME state \in States
  PROVE  /\ /\ TurnCompleted.phase = "idle" => state.phase = "idle"
            /\ TurnCompleted.runId = state.runId /\ TurnCompleted.queue = state.queue
         /\ /\ InterruptRequested.phase = "idle" /\ InterruptRequested.runId = 0
            /\ InterruptRequested.queue = state.queue
         /\ RunEnded.phase = "idle" /\ RunEnded.runId = 0 /\ RunEnded.queue = state.queue
<1>1. /\ TurnCompleted.phase = "idle" => state.phase = "idle"
      /\ TurnCompleted.runId = state.runId /\ TurnCompleted.queue = state.queue
  BY DEF TurnCompleted, States
<1>2. /\ InterruptRequested.phase = "idle" /\ InterruptRequested.runId = 0
      /\ InterruptRequested.queue = state.queue
  BY DEF InterruptRequested, States
<1>3. RunEnded.phase = "idle" /\ RunEnded.runId = 0 /\ RunEnded.queue = state.queue
  BY DEF RunEnded, States, initialState
<1>. QED BY <1>1, <1>2, <1>3

(* Leaving out the head that was started changes only the queue.             *)
LEMMA FieldsShifted ==
  ASSUME NEW s \in States, NEW p
  PROVE  /\ Shifted(p, s).phase = s.phase /\ Shifted(p, s).runId = s.runId
         /\ Shifted(p, s).queue = IF dispatching = p /\ s.queue # <<>> THEN Tail(s.queue) ELSE s.queue
  BY FieldsOf DEF Shifted

-----------------------------------------------------------------------------
(* A child is forked with the next number; the session's entry is the newest *)
(* child, if there is one.                                                   *)
ForksInv ==
  /\ \A r, q \in Runs : prompt[r] # 0 /\ q < r => prompt[q] # 0
  /\ bySession # 0 => \A r \in Forked : r <= bySession

(* What the window hears of a run agrees with what became of it.             *)
Heard(m) ==
  /\ m.run # 0 => m.run \in Forked
  /\ m.type = "reply" /\ m.run # 0 => prompt[m.run] = m.prompt
  /\ m.type = "run.interrupting" => m.run \in interrupted
  /\ m.type \in Ends => m.run \in Runs /\ child[m.run] = "gone"

(* Runs that the window knows, or hears of, were forked.                     *)
KnownInv ==
  /\ state.runId # 0 => state.runId \in Forked
  /\ \A i \in DOMAIN stops : stops[i] \in Forked
  /\ ignored \subseteq Forked
  /\ \A i \in DOMAIN inbox : Heard(inbox[i])

IsStart(m) == m.type = "reply" /\ m.run # 0

(* The answer to its start is the first that the window hears of a run.      *)
OrderInv ==
  \A i \in DOMAIN inbox : IsStart(inbox[i]) =>
     /\ \A j \in DOMAIN inbox : j < i => inbox[j].run < inbox[i].run
     /\ state.runId < inbox[i].run
     /\ \A r \in ignored : r < inbox[i].run

(* The window listens to the run it shows.                                   *)
WindowInv ==
  /\ state.phase = "idle" => state.runId = 0
  /\ state.runId # 0 => subscribed = state.runId /\ state.runId \notin ignored

Gone(r) == r \in Runs /\ child[r] = "gone"
Shows(m) == m.type \in {"reply", "run.started"}

(* The window will hear of the end of a run that it shows, or will show.     *)
EndInv ==
  /\ \A i \in DOMAIN inbox : Shows(inbox[i]) /\ Gone(inbox[i].run) =>
       \E j \in DOMAIN inbox : j > i /\ inbox[j] = Event("run.exited", inbox[i].run)
  /\ Gone(state.runId) => \E j \in DOMAIN inbox : inbox[j] = Event("run.exited", state.runId)

(* A child that works is the session's, and the window shows it or will, or  *)
(* a stop is on its way to it.                                               *)
Seen(r) ==
  /\ r = bySession
  /\ \/ state.runId = r
     \/ \E i \in DOMAIN inbox : inbox[i].type = "reply" /\ inbox[i].run = r
     \/ \E i \in DOMAIN stops : stops[i] = r
SeenInv == \A r \in Alive \ (interrupted \union lost) : Seen(r)

(* Stops are on their way only to what the user stopped, a stop that waits   *)
(* for a run's id has a start that was stopped to wait for, and so has one   *)
(* that was left waiting with its tab.                                       *)
StopsInv == ~stale =>
  /\ \A r \in interrupted : prompt[r] \in stopped
  /\ \A i \in DOMAIN stops : prompt[stops[i]] \in stopped
  /\ stopPending => Starting # {} /\ Starting \subseteq stopped
  /\ doomed \subseteq stopped

(* The prompt that is being sent is the head of the queue.                   *)
HeadIsSent == ~misled /\ dispatching # 0 => Q # <<>> /\ Head(Q) = dispatching

AgreeInv ==
  ForksInv /\ KnownInv /\ OrderInv /\ WindowInv /\ EndInv /\ SeenInv /\ StopsInv /\ HeadIsSent /\ PromptsAreKept

(* At first nothing is shown, forked or on its way.                          *)
LEMMA InitAgree == Init => AgreeInv
<1> SUFFICES ASSUME Init PROVE AgreeInv
  OBVIOUS
<1> USE DEF Init, Q, initialState
<1>1. ForksInv /\ KnownInv /\ OrderInv /\ WindowInv
  BY DEF ForksInv, KnownInv, OrderInv, WindowInv, Forked
<1>2. EndInv BY DEF EndInv, Gone, Runs
<1>3. SeenInv BY DEF SeenInv, Alive
<1>4. StopsInv BY DEF StopsInv
<1>5. HeadIsSent /\ PromptsAreKept BY DEF HeadIsSent, PromptsAreKept
<1>. QED BY <1>1, <1>2, <1>3, <1>4, <1>5 DEF AgreeInv

(* That nothing runs unseen and what is shown is alive follows.              *)
LEMMA AgreeIsEnough ==
  ASSUME TypeInv, AgreeInv
  PROVE  PromptsAreKept /\ StopsHitTheirRun /\ NothingRunsUnseen /\ ShownRuns
<1>1. PromptsAreKept BY DEF AgreeInv
<1>2. StopsHitTheirRun BY DEF AgreeInv, StopsInv, StopsHitTheirRun, StopsAreExact
<1>3. NothingRunsUnseen
  <2> SUFFICES ASSUME Quiet, NEW r \in Alive \ (interrupted \union lost) PROVE r = state.runId
    BY DEF NothingRunsUnseen
  <2>1. Seen(r) BY DEF AgreeInv, SeenInv
  <2>2. DOMAIN inbox = {} /\ DOMAIN stops = {} BY DEF Quiet
  <2>. QED BY <2>1, <2>2 DEF Seen
<1>4. ShownRuns
  <2> SUFFICES ASSUME Quiet, state.runId # 0 PROVE state.runId \in Alive \/ child[state.runId] = "failed"
    BY DEF ShownRuns
  <2>1. state.runId \in Forked BY DEF AgreeInv, KnownInv
  <2>2. DOMAIN inbox = {} BY DEF Quiet
  <2>3. ~Gone(state.runId) BY <2>2 DEF AgreeInv, EndInv
  <2>4. state.runId \in Runs /\ child[state.runId] \in Children \ {"none", "ended", "drains", "gone"}
    BY <2>1, <2>3 DEF Gone, Forked, TypeInv, ManagerOK, Quiet
  <2>. QED BY <2>4 DEF Alive, Children
<1>. QED BY <1>1, <1>2, <1>3, <1>4

-----------------------------------------------------------------------------
(* The window's steps, by what becomes of the run it shows.                  *)

(* The runs are what they were: a child that is answered goes on.            *)
SameRuns ==
  /\ UNCHANGED <<bySession, prompt, interrupted, lost>>
  /\ Alive' = Alive /\ \A r \in Runs : child'[r] = "gone" <=> child[r] = "gone"

SameShown ==
  /\ state'.runId = state.runId /\ subscribed' = subscribed
  /\ state'.phase = "idle" => state.phase = "idle"
NowShown(r) == state'.runId = r /\ state'.phase = "running" /\ subscribed' = r
NoneShown   == state'.runId = 0 /\ state'.phase = "idle"

Hears     == inbox # <<>> /\ inbox' = Tail(inbox)
Counts(m) == m.run \notin ignored /\ subscribed \in {0, m.run}

(* Nothing is heard, and a message that changes nothing of what is shown.    *)
Rests == SameShown /\ UNCHANGED <<inbox, stops, ignored>>
Overhears ==
  /\ SameShown /\ Hears /\ UNCHANGED <<stops, ignored>>
  /\ ~IsStart(Head(inbox))
  /\ Head(inbox).type \in Ends => ~Counts(Head(inbox))

(* A prompt is sent, a stop is clicked, the page comes back.                 *)
Begins ==
  /\ state.phase = "idle" /\ state'.phase = "starting" /\ state'.runId = 0
  /\ UNCHANGED <<subscribed, ignored, inbox, stops>>
Stops ==
  /\ NoneShown /\ subscribed' = 0 /\ UNCHANGED inbox
  /\ \/ state.runId = 0 /\ UNCHANGED <<ignored, stops>>
     \/ /\ state.runId # 0
        /\ ignored' = ignored \union {state.runId} /\ stops' = Append(stops, state.runId)
Reopens ==
  /\ inbox' = <<>> /\ stops = <<>> /\ stops' = <<>> /\ ignored' = {}
  /\ state'.runId = bySession /\ subscribed' = bySession
  /\ state'.phase = "idle" => bySession = 0

(* A run is heard of that is stopped or shown, asked to stop or ended.       *)
HearsStopped ==
  /\ Hears /\ IsStart(Head(inbox)) /\ SameShown
  /\ ignored' = ignored \union {Head(inbox).run} /\ stops' = Append(stops, Head(inbox).run)
HearsStart ==
  /\ Hears /\ NowShown(Head(inbox).run) /\ UNCHANGED <<ignored, stops>>
  /\ IsStart(Head(inbox)) \/ (Counts(Head(inbox)) /\ Head(inbox).type = "run.started")
HearsStopping ==
  /\ Hears /\ NoneShown /\ UNCHANGED <<subscribed, ignored, stops>>
  /\ Head(inbox).type = "run.interrupting" /\ Counts(Head(inbox))
HearsEnd ==
  /\ Hears /\ Head(inbox).type \in Ends /\ UNCHANGED stops
  /\ \/ NoneShown /\ subscribed' = 0 /\ ignored' = ignored /\ Counts(Head(inbox))
     \/ SameShown /\ Head(inbox).run \in ignored /\ ignored' = ignored \ {Head(inbox).run}

WindowMoves ==
  \/ Rests \/ Overhears \/ Begins \/ Stops \/ Reopens
  \/ HearsStopped \/ HearsStart \/ HearsStopping \/ HearsEnd

(* A started prompt.                                                         *)
LEMMA StartBegins ==
  ASSUME WindowOK, NEW p, StartRun(p)
  PROVE  state'.phase = "starting" /\ state'.runId = 0 /\ state'.queue = state.queue
<1>1. state \in States BY DEF WindowOK
<1>. QED BY <1>1, FieldsOf DEF StartRun

(* An answer to a start.                                                     *)
LEMMA AnswersMove == ASSUME WindowOK, RunStarted \/ RunRefused \/ StopAnswered PROVE WindowMoves
<1>0. state \in States BY DEF WindowOK
<1> DEFINE m == Head(inbox)
<1>1. CASE RunStarted
  <2>1. /\ Hears /\ m.type = "reply" /\ m.run # 0
        /\ \/ /\ ignored' = ignored \union {m.run} /\ stops' = Append(stops, m.run)
              /\ state' = Shifted(m.prompt, state) /\ UNCHANGED subscribed
           \/ /\ state' = Shifted(m.prompt, Hydrated(state, m.run)) /\ subscribed' = m.run
              /\ UNCHANGED <<ignored, stops>>
    BY <1>1 DEF RunStarted, Told, Hears, AskToStop
  <2>2. IsStart(m) BY <2>1 DEF IsStart
  <2> HIDE DEF m
  <2>3. CASE state' = Shifted(m.prompt, state) /\ UNCHANGED subscribed
             /\ ignored' = ignored \union {m.run} /\ stops' = Append(stops, m.run)
    <3>1. SameShown BY <1>0, <2>3, FieldsShifted DEF SameShown
    <3>. QED BY <2>1, <2>2, <2>3, <3>1 DEF WindowMoves, HearsStopped, m
  <2>4. CASE state' = Shifted(m.prompt, Hydrated(state, m.run)) /\ subscribed' = m.run
             /\ UNCHANGED <<ignored, stops>>
    <3>1. PICK t : t = Hydrated(state, m.run) OBVIOUS
    <3>2. PICK p : p = m.prompt OBVIOUS
    <3>3. t.phase = "running" /\ t.runId = m.run BY <1>0, <3>1, FieldsOf
    <3>4. Shifted(p, t).phase = t.phase /\ Shifted(p, t).runId = t.runId
      BY DEF Shifted
    <3>5. NowShown(m.run) BY <2>4, <3>1, <3>2, <3>3, <3>4 DEF NowShown
    <3>. QED BY <2>1, <2>2, <2>4, <3>5 DEF WindowMoves, HearsStart, m
  <2>. QED BY <2>1, <2>3, <2>4
<1>2. CASE RunRefused
  <2>1. /\ Hears /\ m.type = "reply" /\ m.run = 0 /\ UNCHANGED <<subscribed, ignored, stops>>
        /\ (state' = state \/ state' = [state EXCEPT !.queue = <<>>])
    BY <1>2 DEF RunRefused, Told, Hears
  <2>1a. [state EXCEPT !.queue = <<>>].phase = state.phase /\ [state EXCEPT !.queue = <<>>].runId = state.runId
    BY <1>0, FieldsOf
  <2>2. SameShown BY <2>1, <2>1a DEF SameShown
  <2>. QED BY <2>1, <2>2 DEF WindowMoves, Overhears, IsStart, Ends
<1>3. CASE StopAnswered
  <2>1. Hears /\ m.type = "stopped" /\ UNCHANGED <<state, subscribed, ignored, stops>>
    BY <1>3 DEF StopAnswered, Told, Hears
  <2>. QED BY <2>1 DEF WindowMoves, Overhears, IsStart, Ends, SameShown
<1>. QED BY <1>1, <1>2, <1>3

(* An event.                                                                 *)
LEMMA EventsMove == ASSUME WindowOK, HandleAgentEvent PROVE WindowMoves
<1>0. state \in States BY DEF WindowOK
<1> DEFINE m == Head(inbox)
<1>1. Hears /\ m.type \in EventTypes /\ UNCHANGED stops /\ ~IsStart(m)
  BY DEF HandleAgentEvent, Hears, IsStart, EventTypes, Ends
<1>2. CASE m.run \in ignored /\ UNCHANGED <<state, subscribed>>
           /\ ignored' = IF m.type \in Ends THEN ignored \ {m.run} ELSE ignored
  BY <1>1, <1>2 DEF WindowMoves, Overhears, HearsEnd, SameShown
<1>3. CASE subscribed \notin {0, m.run} /\ UNCHANGED <<state, subscribed, ignored>>
  BY <1>1, <1>3 DEF WindowMoves, Overhears, SameShown, Counts
<1>4. CASE Counts(m) /\ state' = Reduced(m) /\ ignored' = ignored
           /\ subscribed' = (IF m.type = "run.started" THEN m.run
                             ELSE IF m.type \in Ends THEN 0 ELSE subscribed)
  <2>1. CASE m.type = "run.started"
    <3>1a. Reduced(m) = Hydrated(state, m.run) BY <2>1 DEF Reduced, Ends
    <3>1. state' = Hydrated(state, m.run) /\ subscribed' = m.run BY <1>4, <2>1, <3>1a
    <3>2. PICK r : r = m.run OBVIOUS
    <3> HIDE DEF m
    <3>3. NowShown(m.run) BY <1>0, <3>1, <3>2, FieldsOf DEF NowShown
    <3>. QED BY <1>1, <1>4, <2>1, <3>3 DEF WindowMoves, HearsStart, m
  <2>2. CASE m.type = "turn.completed"
    <3>1. state' = TurnCompleted /\ subscribed' = subscribed BY <1>4, <2>2 DEF Reduced, Ends
    <3>2. SameShown BY <1>0, <3>1, FieldsOfState DEF SameShown
    <3>. QED BY <1>1, <1>4, <2>2, <3>2 DEF WindowMoves, Overhears, Ends
  <2>3. CASE m.type = "run.interrupting"
    <3>1. state' = InterruptRequested /\ subscribed' = subscribed BY <1>4, <2>3 DEF Reduced, Ends
    <3>2. NoneShown BY <1>0, <3>1, FieldsOfState DEF NoneShown
    <3>. QED BY <1>1, <1>4, <2>3, <3>1, <3>2 DEF WindowMoves, HearsStopping
  <2>4. CASE m.type = "question.asked"
    <3>1. state' = [state EXCEPT !.asked = TRUE] /\ subscribed' = subscribed BY <1>4, <2>4 DEF Reduced, Ends
    <3>2. SameShown BY <1>0, <3>1, FieldsOf DEF SameShown
    <3>. QED BY <1>1, <1>4, <2>4, <3>2 DEF WindowMoves, Overhears, Ends
  <2>5. CASE m.type \in Ends
    <3>1. state' = RunEnded /\ subscribed' = 0 BY <1>4, <2>5 DEF Reduced, Ends
    <3>2. NoneShown BY <1>0, <3>1, FieldsOfState DEF NoneShown
    <3>. QED BY <1>1, <1>4, <2>5, <3>1, <3>2 DEF WindowMoves, HearsEnd
  <2>. QED BY <1>1, <2>1, <2>2, <2>3, <2>4, <2>5 DEF EventTypes
<1>. QED BY <1>2, <1>3, <1>4 DEF HandleAgentEvent, Counts

(* All that the window does.                                                 *)
LEMMA WindowMoved ==
  ASSUME TypeInv, User \/ DispatchQueued \/ Receive \/ UNCHANGED vars
  PROVE  SameRuns /\ WindowMoves
<1>0. state \in States /\ WindowOK /\ ManagerOK BY DEF TypeInv, WindowOK
<1>1. CASE UNCHANGED vars
  BY <1>1 DEF vars, window, manager, chans, history, SameRuns, Alive, WindowMoves, Rests, SameShown
<1>2. CASE SendMessage
  <2>1. UNCHANGED <<manager, child, lost, inbox, stops, subscribed, ignored>>
        /\ \/ Busy /\ state' = [state EXCEPT !.queue = Append(state.queue, sent + 1)]
           \/ ~Busy /\ StartRun(sent + 1)
    BY <1>2 DEF SendMessage, chans
  <2>2. SameRuns BY <2>1 DEF manager, SameRuns, Alive
  <2>3. CASE state' = [state EXCEPT !.queue = Append(state.queue, sent + 1)]
    BY <1>0, <2>1, <2>2, <2>3, FieldsOf DEF WindowMoves, Rests, SameShown
  <2>4. CASE ~Busy /\ StartRun(sent + 1)
    <3>1. PICK p : p = sent + 1 OBVIOUS
    <3>2. state'.phase = "starting" /\ state'.runId = 0 BY <1>0, <2>4, <3>1, StartBegins
    <3>. QED BY <2>1, <2>2, <2>4, <3>2 DEF WindowMoves, Begins, Busy
  <2>. QED BY <2>1, <2>3, <2>4
<1>3. CASE DispatchQueued
  <2>1. UNCHANGED <<manager, child, lost, inbox, stops, subscribed, ignored>> /\ state.phase = "idle"
        /\ StartRun(Head(state.queue))
    BY <1>3 DEF DispatchQueued, chans
  <2>2. SameRuns BY <2>1 DEF manager, SameRuns, Alive
  <2>3. PICK p : p = Head(state.queue) OBVIOUS
  <2>4. state'.phase = "starting" /\ state'.runId = 0 BY <1>0, <2>1, <2>3, StartBegins
  <2>. QED BY <2>1, <2>2, <2>4 DEF WindowMoves, Begins
<1>4. CASE RemoveQueuedPrompt
  <2>1. UNCHANGED <<manager, child, lost, inbox, stops, subscribed, ignored>>
        /\ \E q : state' = [state EXCEPT !.queue = q]
    BY <1>4 DEF RemoveQueuedPrompt, chans
  <2>2. SameRuns BY <2>1 DEF manager, SameRuns, Alive
  <2>. QED BY <1>0, <2>1, <2>2, FieldsOf DEF WindowMoves, Rests, SameShown
<1>5. CASE Interrupt
  <2>1. UNCHANGED <<manager, child, lost, inbox>> /\ state' = InterruptRequested /\ subscribed' = 0
        /\ \/ state.runId = 0 /\ UNCHANGED <<ignored, stops>>
           \/ /\ state.runId # 0
              /\ ignored' = ignored \union {state.runId} /\ stops' = Append(stops, state.runId)
    BY <1>5 DEF Interrupt, AskToStop
  <2>2. SameRuns BY <2>1 DEF manager, SameRuns, Alive
  <2>3. NoneShown BY <1>0, <2>1, FieldsOfState DEF NoneShown
  <2>. QED BY <2>1, <2>2, <2>3 DEF WindowMoves, Stops
<1>6. CASE AnswerQuestion
  <2>1. /\ UNCHANGED <<manager, lost, inbox, stops, subscribed, ignored>>
        /\ state' = [state EXCEPT !.asked = FALSE] /\ state.runId # 0
        /\ child' = (IF child[state.runId] = "asking" THEN [child EXCEPT ![state.runId] = "working"] ELSE child)
    BY <1>6 DEF AnswerQuestion, chans, history
  <2>2. SameRuns
    <3>1. child \in [Runs -> Children] /\ state.runId \in Runs BY <1>0, <2>1 DEF ManagerOK, States
    <3>2. /\ Alive' = Alive
          /\ \A r \in Runs : child'[r] = "gone" <=> child[r] = "gone"
      BY <2>1, <3>1 DEF Alive
    <3>. QED BY <2>1, <3>2 DEF manager, SameRuns
  <2>. QED BY <1>0, <2>1, <2>2, FieldsOf DEF WindowMoves, Rests, SameShown
<1>7. CASE Reload \/ LeaveTab
  <2>0. ComesBack BY <1>7, Returned
  <2>1. /\ UNCHANGED <<manager, child, lost>> /\ inbox' = <<>> /\ stops = <<>> /\ stops' = stops
        /\ ignored' = {} /\ subscribed' = bySession
        /\ state' = (IF bySession = 0 THEN initialState ELSE Hydrated(initialState, bySession))
    BY <2>0 DEF ComesBack
  <2>2. SameRuns BY <2>1 DEF manager, SameRuns, Alive
  <2>3. initialState \in States /\ initialState.runId = 0 BY InitialFits DEF initialState
  <2>4. PICK r : r = bySession OBVIOUS
  <2>5. state'.runId = bySession /\ (state'.phase = "idle" => bySession = 0) BY <2>1, <2>3, <2>4, FieldsOf
  <2>. QED BY <2>1, <2>2, <2>5 DEF WindowMoves, Reopens
<1>8. CASE Receive
  <2>1. UNCHANGED <<manager, child, lost>>
    BY <1>8 DEF Receive, RunStarted, RunRefused, StopAnswered, HandleAgentEvent, history
  <2>2. SameRuns BY <2>1 DEF manager, SameRuns, Alive
  <2>. QED BY <1>0, <1>8, <2>2, AnswersMove, EventsMove DEF Receive
<1>9. CASE HideSession \/ ShowSession
  <2>1. UNCHANGED <<state, subscribed, ignored, manager, child, inbox, stops, lost>>
    BY <1>9 DEF HideSession, ShowSession, chans, history
  <2>. QED BY <2>1 DEF manager, SameRuns, Alive, WindowMoves, Rests, SameShown
<1>. QED BY <1>1, <1>2, <1>3, <1>4, <1>5, <1>6, <1>7, <1>8, <1>9 DEF User

-----------------------------------------------------------------------------
(* Steps of the main process and of the children.                            *)

AliveStates == {"working", "asking", "done"}

(* A child goes on or ends, and may say so.                                  *)
RunGoesOn(r) ==
  /\ child[r] \in AliveStates
  /\ child' = [child EXCEPT ![r] = "asking"] \/ child' = [child EXCEPT ![r] = "done"]
     \/ child' = [child EXCEPT ![r] = "ended"]
  /\ UNCHANGED <<bySession, prompt, interrupted, lost, stops>>
  /\ UNCHANGED inbox \/ Sends(<<Event("question.asked", r)>>) \/ Sends(<<Event("turn.completed", r)>>)

(* A killed, asking, finished or ended child only goes on.                   *)
LEMMA RunOnlyGoesOn ==
  ASSUME NEW r \in Runs, ForceKill(r) \/ AskUser(r) \/ CompleteTurn(r) \/ EndChild(r)
  PROVE  RunGoesOn(r)
<1> USE DEF RunGoesOn, AliveStates
<1>1. CASE ForceKill(r) BY <1>1 DEF ForceKill, Killed, manager, chans, history
<1>2. CASE AskUser(r) BY <1>2 DEF AskUser, manager, history
<1>3. CASE CompleteTurn(r) BY <1>3 DEF CompleteTurn, history
<1>4. CASE EndChild(r) BY <1>4 DEF EndChild, Killed, manager, chans, history
<1>. QED BY <1>1, <1>2, <1>3, <1>4

(* They leave the window alone.                                              *)
LEMMA RunsLeaveWindow ==
  ASSUME \/ \E p \in Prompts : Refuse(p) \/ StartAgentRun(p)
         \/ InterruptAgentRun
         \/ \E r \in Runs : ForceKill(r) \/ Cleanup(r) \/ EventQueueDrained(r)
                            \/ AskUser(r) \/ CompleteTurn(r) \/ EndChild(r)
  PROVE  UNCHANGED <<state, subscribed, ignored, stopPending, dispatching, sent, stopped, misled, stale>>
<1> USE DEF window, history
<1>1. ASSUME NEW p \in Prompts, Refuse(p) \/ StartAgentRun(p)
      PROVE  UNCHANGED <<state, subscribed, ignored, stopPending, dispatching, sent, stopped, misled, stale>>
  BY <1>1 DEF Refuse, StartAgentRun
<1>2. CASE InterruptAgentRun BY <1>2 DEF InterruptAgentRun
<1>3. ASSUME NEW r \in Runs, ForceKill(r) \/ Cleanup(r) \/ EventQueueDrained(r)
                            \/ AskUser(r) \/ CompleteTurn(r) \/ EndChild(r)
      PROVE  UNCHANGED <<state, subscribed, ignored, stopPending, dispatching, sent, stopped, misled, stale>>
  BY <1>3 DEF ForceKill, Cleanup, EventQueueDrained, AskUser, CompleteTurn, EndChild
<1>. QED BY <1>1, <1>2, <1>3

(* The steps of the system, in the groups that the proofs treat alike.       *)
LEMMA Steps ==
  ASSUME TypeInv, [Next]_vars
  PROVE  \/ SameRuns /\ WindowMoves
         \/ /\ UNCHANGED <<state, subscribed, ignored, stopPending, dispatching, sent, stopped, misled, stale>>
            /\ \/ \E p \in Prompts : Refuse(p) \/ StartAgentRun(p)
               \/ InterruptAgentRun
               \/ \E r \in Runs : RunGoesOn(r) \/ Cleanup(r) \/ EventQueueDrained(r)
<1>1. CASE User \/ DispatchQueued \/ Receive \/ UNCHANGED vars BY <1>1, WindowMoved
<1>2. CASE ~(User \/ DispatchQueued \/ Receive \/ UNCHANGED vars)
           /\ \/ \E p \in Prompts : Refuse(p) \/ StartAgentRun(p)
              \/ InterruptAgentRun
              \/ \E r \in Runs : ForceKill(r) \/ Cleanup(r) \/ EventQueueDrained(r)
                                 \/ AskUser(r) \/ CompleteTurn(r) \/ EndChild(r)
  BY <1>2, RunsLeaveWindow, RunOnlyGoesOn
<1>. QED BY <1>1, <1>2 DEF Next

(* An inbox whose head is read, and one that messages are appended to.       *)
LEMMA Shrunk ==
  ASSUME ChannelsOK, Hears
  PROVE  /\ 1 \in DOMAIN inbox /\ inbox[1] = Head(inbox) /\ Head(inbox) \in MessagesOK
         /\ \A i \in DOMAIN inbox : i \in Nat /\ i >= 1
         /\ \A i \in DOMAIN inbox' : i \in Nat /\ i >= 1 /\ i + 1 \in DOMAIN inbox /\ inbox'[i] = inbox[i + 1]
         /\ \A i \in DOMAIN inbox : i > 1 => i - 1 \in DOMAIN inbox' /\ inbox'[i - 1] = inbox[i]
  BY DEF ChannelsOK, Hears

(* An inbox that messages were sent to still holds what it held, before them. *)
LEMMA Grown ==
  ASSUME ChannelsOK, NEW new \in Seq(MessagesOK), Sends(new)
  PROVE  /\ Len(inbox) \in Nat /\ DOMAIN inbox = 1..Len(inbox)
         /\ \A i \in DOMAIN inbox : i \in DOMAIN inbox' /\ inbox'[i] = inbox[i]
         /\ \A i \in DOMAIN inbox' : i \in DOMAIN inbox
              \/ (i \in Nat /\ i > Len(inbox) /\ i - Len(inbox) \in DOMAIN new /\ inbox'[i] = new[i - Len(inbox)])
         /\ \A k \in DOMAIN new : Len(inbox) + k \in DOMAIN inbox' /\ inbox'[Len(inbox) + k] = new[k]
<1>1. inbox' = inbox \o new /\ inbox \in Seq(MessagesOK) BY DEF Sends, ChannelsOK
<1>2. Len(inbox') = Len(inbox) + Len(new) /\ DOMAIN inbox' = 1..Len(inbox') BY <1>1
<1>3. \A i \in 1..Len(inbox) : inbox'[i] = inbox[i] BY <1>1
<1>4. \A i \in 1..Len(inbox') : i > Len(inbox) => inbox'[i] = new[i - Len(inbox)] BY <1>1, <1>2
<1>. QED BY <1>1, <1>2, <1>3, <1>4

(* The messages that the manager sends are messages.                         *)
LEMMA SentMessages ==
  ASSUME NEW r \in {0} \union Runs, NEW p \in {0} \union Prompts
  PROVE  /\ \A t \in MessageTypes : Event(t, r) \in MessagesOK /\ Event(t, r).type = t /\ Event(t, r).run = r
         /\ Message("reply", r, p) \in MessagesOK
         /\ Message("reply", r, p).type = "reply" /\ Message("reply", r, p).run = r
         /\ Message("reply", r, p).prompt = p
         /\ {"reply", "stopped", "run.started", "turn.completed", "run.interrupting", "question.asked",
             "run.interrupted", "run.exited"} \subseteq MessageTypes
<1>t. {"reply", "stopped", "run.started", "turn.completed", "run.interrupting", "question.asked",
       "run.interrupted", "run.exited"} \subseteq MessageTypes
  BY DEF MessageTypes, EventTypes, Ends
<1>1. "reply" \in MessageTypes BY <1>t
<1>. QED BY <1>t, <1>1 DEF Message, Event, MessagesOK

(* Forks are in order.                                                       *)
LEMMA ForksStep == ASSUME TypeInv, ForksInv, [Next]_vars PROVE ForksInv'
<1>1. ASSUME prompt' = prompt, bySession' \in {0, bySession} PROVE ForksInv'
  BY <1>1 DEF ForksInv, Forked
<1>2. CASE SameRuns BY <1>1, <1>2 DEF SameRuns
<1>3. ASSUME NEW p \in Prompts, Refuse(p) PROVE ForksInv'
  BY <1>1, <1>3 DEF Refuse, manager
<1>4. ASSUME NEW p \in Prompts, StartAgentRun(p) PROVE ForksInv'
  <2>1. PICK r \in Runs : /\ prompt[r] = 0 /\ \A q \in 1..(r - 1) : prompt[q] # 0
                          /\ bySession' = r /\ prompt' = [prompt EXCEPT ![r] = p]
    BY <1>4 DEF StartAgentRun
  <2>2. p # 0 /\ prompt'[r] = p /\ \A q \in Runs \ {r} : prompt'[q] = prompt[q]
    BY <2>1 DEF Prompts, TypeInv, ManagerOK
  <2>3. \A q \in Runs : q < r => prompt[q] # 0 BY <2>1 DEF Runs
  <2>4. \A q \in Runs : prompt[q] # 0 => q < r
    BY <2>1 DEF ForksInv, Runs
  <2>5. \A s, q \in Runs : prompt'[s] # 0 /\ q < s => prompt'[q] # 0
    BY <2>2, <2>3, <2>4 DEF ForksInv, Runs
  <2>6. \A s \in Forked' : s <= r BY <2>2, <2>4 DEF Forked, Runs
  <2>. QED BY <2>1, <2>5, <2>6 DEF ForksInv
<1>5. CASE InterruptAgentRun BY <1>1, <1>5 DEF InterruptAgentRun
<1>6. ASSUME NEW r \in Runs, RunGoesOn(r) \/ Cleanup(r) \/ EventQueueDrained(r) PROVE ForksInv'
  BY <1>1, <1>6 DEF RunGoesOn, Cleanup, EventQueueDrained, manager
<1>. QED BY <1>2, <1>3, <1>4, <1>5, <1>6, Steps

(* What was forked, told to stop or is gone stays so.                        *)
Lasting ==
  /\ \A r \in Forked : r \in Forked' /\ prompt'[r] = prompt[r]
  /\ interrupted \subseteq interrupted'
  /\ \A r \in Runs : child[r] = "gone" => child'[r] = "gone"

(* Every step keeps what was forked, stopped or gone.                        *)
LEMMA LastingStep == ASSUME TypeInv, [Next]_vars PROVE Lasting
<1>0. child \in [Runs -> Children] /\ prompt \in [Runs -> {0} \union Prompts] BY DEF TypeInv, ManagerOK
<1>1. CASE SameRuns BY <1>1 DEF SameRuns, Lasting, Forked
<1>2. ASSUME NEW p \in Prompts, Refuse(p) PROVE Lasting
  BY <1>2 DEF Refuse, manager, Lasting, Forked
<1>3. ASSUME NEW p \in Prompts, StartAgentRun(p) PROVE Lasting
  <2>1. PICK r \in Runs : /\ prompt[r] = 0 /\ prompt' = [prompt EXCEPT ![r] = p]
                          /\ \E c : child' = [child EXCEPT ![r] = c]
                          /\ interrupted' = interrupted
    BY <1>3 DEF StartAgentRun
  <2>2. child[r] = "none" BY <2>1 DEF TypeInv, ManagerOK
  <2>. QED BY <1>0, <2>1, <2>2 DEF Lasting, Forked
<1>4. CASE InterruptAgentRun
  <2>1. /\ interrupted \subseteq interrupted' /\ prompt' = prompt
        /\ child' = child \/ (Head(stops) \in ById /\ \E c : child' = [child EXCEPT ![Head(stops)] = c])
    BY <1>4 DEF InterruptAgentRun, Killed
  <2>. QED BY <1>0, <2>1 DEF Lasting, Forked, ById
<1>5. ASSUME NEW r \in Runs, RunGoesOn(r) \/ Cleanup(r) \/ EventQueueDrained(r) PROVE Lasting
  <2>1. /\ prompt' = prompt /\ interrupted' = interrupted /\ child[r] # "gone"
        /\ \A q \in Runs \ {r} : child'[q] = child[q]
    BY <1>0, <1>5 DEF RunGoesOn, Cleanup, EventQueueDrained, manager, window, AliveStates
  <2>. QED BY <2>1 DEF Lasting, Forked
<1>. QED BY <1>1, <1>2, <1>3, <1>4, <1>5, Steps

(* What is heard stays true, and the window's steps hear nothing new.        *)
LEMMA HeardLasts ==
  ASSUME Lasting, NEW m \in MessagesOK, Heard(m)
  PROVE  /\ m.run # 0 => m.run \in Forked'
         /\ m.type = "reply" /\ m.run # 0 => prompt'[m.run] = m.prompt
         /\ m.type = "run.interrupting" => m.run \in interrupted'
         /\ m.type \in Ends => m.run \in Runs /\ child'[m.run] = "gone"
  BY DEF Lasting, Heard

(* A step of the window puts nothing into its inbox.                         *)
LEMMA NothingNew ==
  ASSUME ChannelsOK, WindowMoves
  PROVE  \A i \in DOMAIN inbox' : \E j \in DOMAIN inbox : inbox'[i] = inbox[j]
<1>1. CASE UNCHANGED inbox BY <1>1
<1>2. CASE inbox' = <<>> BY <1>2
<1>3. CASE Hears BY <1>3, Shrunk
<1>. QED BY <1>1, <1>2, <1>3 DEF WindowMoves, Rests, Overhears, Begins, Stops, Reopens,
               HearsStopped, HearsStart, HearsStopping, HearsEnd

(* What is known after a step of the window.                                 *)
LEMMA WindowKnows == ASSUME TypeInv, KnownInv, SameRuns, WindowMoves, Lasting PROVE KnownInv'
<1>0. ChannelsOK /\ Forked' = Forked BY DEF TypeInv, SameRuns, Forked
<1>1. \A i \in DOMAIN inbox' : Heard(inbox[i])'
  <2> SUFFICES ASSUME NEW i \in DOMAIN inbox' PROVE Heard(inbox[i])'
    OBVIOUS
  <2>1. PICK j \in DOMAIN inbox : inbox'[i] = inbox[j] BY <1>0, NothingNew
  <2>2. PICK m \in MessagesOK : m = inbox[j] BY <1>0 DEF ChannelsOK
  <2>3. Heard(m) BY <2>2 DEF KnownInv
  <2>. QED BY <2>1, <2>2, <2>3, HeardLasts DEF Heard
<1>2. Hears => (Head(inbox).run # 0 => Head(inbox).run \in Forked)
  <2> SUFFICES ASSUME Hears PROVE Head(inbox).run # 0 => Head(inbox).run \in Forked
    OBVIOUS
  <2>1. 1 \in DOMAIN inbox /\ inbox[1] = Head(inbox) BY <1>0, Shrunk
  <2>. QED BY <2>1 DEF KnownInv, Heard
<1>3. bySession # 0 => bySession \in Forked BY DEF TypeInv, ManagerOK, ById, Forked
<1>4. state'.runId \in {0, state.runId, bySession} \/ (Hears /\ state'.runId = Head(inbox).run)
  BY DEF WindowMoves, Rests, Overhears, Begins, Stops, Reopens, HearsStopped, HearsStart, HearsStopping,
         HearsEnd, SameShown, NowShown, NoneShown
<1>5. \/ ignored' \subseteq ignored
      \/ state.runId # 0 /\ ignored' = ignored \union {state.runId}
      \/ Hears /\ Head(inbox).run # 0 /\ ignored' = ignored \union {Head(inbox).run}
  BY DEF WindowMoves, Rests, Overhears, Begins, Stops, Reopens, HearsStopped, HearsStart, HearsStopping,
         HearsEnd, IsStart
<1>6. stops' = stops
      \/ \E r \in Forked : stops' = Append(stops, r)
  BY <1>2 DEF WindowMoves, Rests, Overhears, Begins, Stops, Reopens, HearsStopped, HearsStart, HearsStopping,
         HearsEnd, IsStart, KnownInv
<1>7. state'.runId # 0 => state'.runId \in Forked' BY <1>0, <1>2, <1>3, <1>4 DEF KnownInv
<1>8. ignored' \subseteq Forked' BY <1>0, <1>2, <1>5 DEF KnownInv
<1>9. \A i \in DOMAIN stops' : stops'[i] \in Forked'
  <2>1. stops \in Seq(Runs) /\ Forked \subseteq Runs BY <1>0 DEF ChannelsOK, Forked
  <2>2. \A i \in DOMAIN stops : stops[i] \in Forked BY DEF KnownInv
  <2>. QED BY <1>0, <1>6, <2>1, <2>2
<1>. QED BY <1>1, <1>7, <1>8, <1>9 DEF KnownInv

(* What is known after messages were sent that are true.                     *)
LEMMA SentIsKnown ==
  ASSUME TypeInv, KnownInv, Lasting, UNCHANGED <<state, ignored>>,
         \/ stops' = stops \/ (stops # <<>> /\ stops' = Tail(stops))
         \/ \E r \in Forked' : stops' = Append(stops, r),
         NEW new \in Seq(MessagesOK), Sends(new) \/ UNCHANGED inbox,
         \A k \in DOMAIN new :
           /\ new[k].run # 0 => new[k].run \in Forked'
           /\ new[k].type = "reply" /\ new[k].run # 0 => prompt'[new[k].run] = new[k].prompt
           /\ new[k].type = "run.interrupting" => new[k].run \in interrupted'
           /\ new[k].type \in Ends => new[k].run \in Runs /\ child'[new[k].run] = "gone"
  PROVE  KnownInv'
<1>0. ChannelsOK BY DEF TypeInv
<1>1. \A i \in DOMAIN inbox' : Heard(inbox[i])'
  <2> SUFFICES ASSUME NEW i \in DOMAIN inbox' PROVE Heard(inbox[i])'
    OBVIOUS
  <2>1. CASE i \in DOMAIN inbox /\ inbox'[i] = inbox[i]
    <3>1. PICK m \in MessagesOK : m = inbox[i] BY <1>0, <2>1 DEF ChannelsOK
    <3>2. Heard(m) BY <2>1, <3>1 DEF KnownInv
    <3>. QED BY <2>1, <3>1, <3>2, HeardLasts DEF Heard
  <2>2. CASE \E k \in DOMAIN new : inbox'[i] = new[k] BY <2>2 DEF Heard
  <2>3. CASE UNCHANGED inbox BY <2>1, <2>3
  <2>4. CASE Sends(new) BY <1>0, <2>1, <2>2, <2>4, Grown
  <2>. QED BY <2>3, <2>4
<1>2. Forked \subseteq Forked' BY DEF Lasting
<1>3. \A i \in DOMAIN stops' : stops'[i] \in Forked'
  <2>1. stops \in Seq(Runs) BY <1>0 DEF ChannelsOK
  <2>2. \A i \in DOMAIN stops : stops[i] \in Forked BY DEF KnownInv
  <2>3. stops # <<>> => \A i \in DOMAIN Tail(stops) : i + 1 \in DOMAIN stops /\ Tail(stops)[i] = stops[i + 1]
    BY <2>1
  <2>4. ASSUME NEW r \in Forked', stops' = Append(stops, r) PROVE \A i \in DOMAIN stops' : stops'[i] \in Forked'
    <3>1. \A i \in DOMAIN stops' : (i \in DOMAIN stops /\ stops'[i] = stops[i]) \/ stops'[i] = r
      BY <2>1, <2>4
    <3>. QED BY <1>2, <2>2, <2>4, <3>1
  <2>. QED BY <1>2, <2>2, <2>3, <2>4
<1>. QED BY <1>1, <1>2, <1>3 DEF KnownInv

(* A run is forked, with what the window is sent.                            *)
ForksFor(p, r, new) ==
  /\ prompt[r] = 0 /\ child[r] = "none" /\ \A q \in Forked : q < r
  /\ prompt' = [prompt EXCEPT ![r] = p] /\ prompt'[r] = p /\ p # 0 /\ r # 0
  /\ \A q \in Runs \ {r} : prompt'[q] = prompt[q] /\ child'[q] = child[q]
  /\ child'[r] \in {"working", "failed"} /\ bySession = 0 /\ bySession' = r
  /\ UNCHANGED interrupted /\ new \in Seq(MessagesOK) /\ Sends(new)
  /\ stops' = (IF p \in doomed THEN Append(stops, r) ELSE stops) /\ doomed' \subseteq doomed
  /\ call' = [call EXCEPT ![p] = "none"]
  /\ \/ /\ call[p] = "invoked" /\ UNCHANGED lost
        /\ 1 \in DOMAIN new /\ DOMAIN new \subseteq {1, 2} /\ new[1] = Message("reply", r, p)
        /\ 2 \in DOMAIN new => new[2] = Event("run.started", r)
     \/ /\ call[p] = "orphan" /\ lost' = lost \union {r}
        /\ DOMAIN new \subseteq {1} /\ (1 \in DOMAIN new => new[1] = Event("run.started", r))

(* What a start of a child does, with the messages it sends.                 *)
LEMMA ForkFacts ==
  ASSUME TypeInv, ForksInv, NEW p \in Prompts, StartAgentRun(p)
  PROVE  \E r \in Runs : \E new : ForksFor(p, r, new)
<1> DEFINE answer(r) == IF call[p] = "invoked" THEN <<Message("reply", r, p)>> ELSE <<>>
<1>1. PICK r \in Runs :
        /\ call[p] \in {"invoked", "orphan"} /\ bySession = 0
        /\ prompt[r] = 0 /\ \A q \in 1..(r - 1) : prompt[q] # 0
        /\ bySession' = r /\ prompt' = [prompt EXCEPT ![r] = p]
        /\ call' = [call EXCEPT ![p] = "none"]
        /\ \/ child' = [child EXCEPT ![r] = "working"] /\ Sends(answer(r) \o <<Event("run.started", r)>>)
           \/ child' = [child EXCEPT ![r] = "failed"] /\ Sends(answer(r))
        /\ stops' = (IF p \in doomed THEN Append(stops, r) ELSE stops)
        /\ doomed' = (IF p \in doomed THEN {} ELSE doomed)
        /\ lost' = (IF call[p] = "orphan" THEN lost \union {r} ELSE lost)
        /\ UNCHANGED interrupted
  BY DEF StartAgentRun
<1>2. child \in [Runs -> Children] /\ prompt \in [Runs -> {0} \union Prompts] /\ child[r] = "none"
  BY <1>1 DEF TypeInv, ManagerOK
<1>3. \A q \in Forked : q < r BY <1>1 DEF ForksInv, Forked, Runs
<1>4. PICK a \in MessagesOK, b \in MessagesOK : a = Message("reply", r, p) /\ b = Event("run.started", r)
  BY <1>1, SentMessages
<1> HIDE DEF answer
<1>5. /\ prompt'[r] = p /\ child'[r] \in {"working", "failed"} /\ p # 0 /\ r # 0
      /\ \A q \in Runs \ {r} : prompt'[q] = prompt[q] /\ child'[q] = child[q]
  <2>1. PICK c \in {"working", "failed"} : child' = [child EXCEPT ![r] = c] BY <1>1
  <2>2. prompt' = [prompt EXCEPT ![r] = p] BY <1>1
  <2>. QED BY <1>2, <2>1, <2>2 DEF Prompts, Runs
<1>6. CASE call[p] = "invoked"
  <2>0. <<a>> \o <<b>> \in Seq(MessagesOK) /\ <<a>> \in Seq(MessagesOK) OBVIOUS
  <2>1. Sends(<<a>> \o <<b>>) \/ Sends(<<a>>) BY <1>1, <1>4, <1>6 DEF answer
  <2>2. PICK new \in Seq(MessagesOK) : Sends(new) /\ (new = <<a>> \o <<b>> \/ new = <<a>>)
    BY <2>0, <2>1, Zenon
  <2>3. /\ 1 \in DOMAIN new /\ DOMAIN new \subseteq {1, 2} /\ new[1] = a
        /\ 2 \in DOMAIN new => new[2] = b
    <3>1. CASE new = <<a>> \o <<b>>
      <4>1. Len(new) = 2 /\ new[1] = a /\ new[2] = b BY <3>1
      <4>. QED BY <4>1
    <3>2. CASE new = <<a>>
      <4>1. Len(new) = 1 /\ new[1] = a BY <3>2
      <4>. QED BY <4>1
    <3>. QED BY <2>2, <3>1, <3>2
  <2>4. lost' = lost /\ doomed' \subseteq doomed BY <1>1, <1>6
  <2>5. ForksFor(p, r, new) BY <1>1, <1>2, <1>3, <1>4, <1>5, <1>6, <2>2, <2>3, <2>4 DEF ForksFor
  <2>. QED BY <2>5
<1>7. CASE call[p] = "orphan"
  <2>0. <<b>> \in Seq(MessagesOK) /\ <<>> \in Seq(MessagesOK) /\ <<>> \o <<b>> = <<b>> OBVIOUS
  <2>1. Sends(<<b>>) \/ Sends(<<>>) BY <1>1, <1>4, <1>7, <2>0 DEF answer
  <2>2. PICK new \in Seq(MessagesOK) : Sends(new) /\ (new = <<b>> \/ new = <<>>) BY <2>0, <2>1, Zenon
  <2>3. DOMAIN new \subseteq {1} /\ (1 \in DOMAIN new => new[1] = b) BY <2>2
  <2>4. lost' = lost \union {r} /\ doomed' \subseteq doomed BY <1>1, <1>7
  <2>5. ForksFor(p, r, new) BY <1>1, <1>2, <1>3, <1>4, <1>5, <1>7, <2>2, <2>3, <2>4 DEF ForksFor
  <2>. QED BY <2>5
<1>. QED BY <1>1, <1>6, <1>7

(* What is sent but for a fork: it is true, shows no run, and tells the end  *)
(* of a run that is gone.                                                    *)
Tells(new) ==
  /\ new \in Seq(MessagesOK) /\ (Sends(new) \/ UNCHANGED inbox)
  /\ \A k \in DOMAIN new :
       /\ new[k].run # 0 => new[k].run \in Forked'
       /\ new[k].type = "reply" => new[k].run = 0
       /\ new[k].type # "run.started"
       /\ new[k].type = "run.interrupting" => new[k].run \in interrupted'
       /\ new[k].type \in Ends => new[k].run \in Runs /\ child'[new[k].run] = "gone"

NoReply(new)     == \A k \in DOMAIN new : new[k].type # "reply"
TellsEnd(new, r) == Sends(new) /\ \E k \in DOMAIN new : new[k] = Event("run.exited", r)

(* One event about a forked child is true.                                   *)
LEMMA RunTells ==
  ASSUME TypeInv, Lasting, NEW r \in Forked, NEW t \in {"stopped", "turn.completed", "question.asked"},
         Sends(<<Event(t, r)>>) \/ UNCHANGED inbox
  PROVE  \E new : Tells(new) /\ NoReply(new)
<1>1. r \in Runs /\ r \in Forked' BY DEF Forked, Lasting
<1>t. t \in MessageTypes BY DEF MessageTypes, EventTypes
<1>s. Event(t, r) \in MessagesOK /\ Event(t, r).type = t /\ Event(t, r).run = r
  BY <1>1, <1>t, MessagesFit DEF Event, Message
<1>2. PICK a \in MessagesOK : a = Event(t, r) /\ a.type = t /\ a.run = r BY <1>s
<1>3. <<a>> \in Seq(MessagesOK) OBVIOUS
<1>4. PICK new \in Seq(MessagesOK) : new = <<a>> BY <1>3, Zenon
<1>5. DOMAIN new = {1} /\ new[1] = a BY <1>4
<1>6. Tells(new) /\ NoReply(new) BY <1>1, <1>2, <1>4, <1>5 DEF Tells, NoReply, Ends
<1>. QED BY <1>6

(* A refusal names no child.                                                 *)
LEMMA RefuseTells == ASSUME TypeInv, NEW p \in Prompts, Refuse(p) PROVE \E new : Tells(new)
<1>1. PICK a \in MessagesOK : a = Message("reply", 0, p) /\ a.type = "reply" /\ a.run = 0 BY SentMessages
<1>2. <<a>> \in Seq(MessagesOK) OBVIOUS
<1>3. PICK new \in Seq(MessagesOK) : new = <<a>> BY <1>2, Zenon
<1>4. DOMAIN new = {1} /\ new[1] = a BY <1>3
<1>5. Sends(new) \/ UNCHANGED inbox BY <1>1, <1>3 DEF Refuse
<1>6. Tells(new) BY <1>1, <1>4, <1>5 DEF Tells, Ends
<1>. QED BY <1>6

(* A stop tells only of the child it was for.                                *)
LEMMA InterruptTells ==
  ASSUME TypeInv, KnownInv, Lasting, InterruptAgentRun PROVE \E new : Tells(new) /\ NoReply(new)
<1>0. stops # <<>> BY DEF InterruptAgentRun
<1>1. PICK r \in Runs : r = Head(stops) BY <1>0 DEF TypeInv, ChannelsOK
<1>2. r \in Forked
  <2>1. 1 \in DOMAIN stops /\ stops[1] = r BY <1>0, <1>1 DEF TypeInv, ChannelsOK
  <2>. QED BY <2>1 DEF KnownInv
<1>3. \/ r \in ById /\ interrupted' = interrupted \union ({r} \intersect ById)
         /\ Sends(<<Event("run.interrupting", r), Event("stopped", r)>>)
      \/ Sends(<<Event("stopped", r)>>)
  BY <1>1 DEF InterruptAgentRun
<1>4. CASE Sends(<<Event("stopped", r)>>) BY <1>2, <1>4, RunTells
<1>5. CASE r \in ById /\ interrupted' = interrupted \union ({r} \intersect ById)
           /\ Sends(<<Event("run.interrupting", r), Event("stopped", r)>>)
  <2>1. PICK a \in MessagesOK : a = Event("run.interrupting", r) /\ a.type = "run.interrupting" /\ a.run = r
    BY SentMessages
  <2>2. PICK b \in MessagesOK : b = Event("stopped", r) /\ b.type = "stopped" /\ b.run = r BY SentMessages
  <2>3. <<a, b>> \in Seq(MessagesOK) OBVIOUS
  <2>4. PICK new \in Seq(MessagesOK) : new = <<a, b>> BY <2>3, Zenon
  <2>5. DOMAIN new = {1, 2} /\ new[1] = a /\ new[2] = b BY <2>4
  <2>6. r \in interrupted' /\ r \in Forked' BY <1>2, <1>5 DEF Lasting
  <2>7. Tells(new) /\ NoReply(new) BY <1>5, <2>1, <2>2, <2>4, <2>5, <2>6 DEF Tells, NoReply, Ends
  <2>. QED BY <2>7
<1>. QED BY <1>3, <1>4, <1>5

(* What a drained queue of events tells is true, and the exit is part of it. *)
LEMMA DrainTells ==
  ASSUME TypeInv, Lasting, NEW r \in Runs, EventQueueDrained(r)
  PROVE  \E new : Tells(new) /\ NoReply(new) /\ TellsEnd(new, r)
<1>1. child \in [Runs -> Children] /\ child[r] = "drains" /\ child' = [child EXCEPT ![r] = "gone"]
  BY DEF EventQueueDrained, TypeInv, ManagerOK
<1>2. r \in Forked /\ r \in Forked' /\ child'[r] = "gone" BY <1>1 DEF TypeInv, ManagerOK, Forked, Lasting
<1>3. PICK a \in MessagesOK : a = Event("run.interrupted", r) /\ a.type = "run.interrupted" /\ a.run = r
  BY SentMessages
<1>4. PICK b \in MessagesOK : b = Event("run.exited", r) /\ b.type = "run.exited" /\ b.run = r
  BY SentMessages
<1>5. PICK c \in MessagesOK : c = Event("turn.completed", r) /\ c.type = "turn.completed" /\ c.run = r
  BY SentMessages
<1>6. PICK x \in Seq(MessagesOK) : x = (IF r \in interrupted THEN <<a>> ELSE <<>>)
                                  /\ \A k \in DOMAIN x : k \in Nat /\ x[k] = a
  <2>1. <<a>> \in Seq(MessagesOK) /\ \A k \in DOMAIN <<a>> : k \in Nat /\ <<a>>[k] = a OBVIOUS
  <2>2. <<>> \in Seq(MessagesOK) /\ \A k \in DOMAIN <<>> : k \in Nat /\ <<>>[k] = a OBVIOUS
  <2>. QED BY <2>1, <2>2
<1>7. PICK z \in Seq(MessagesOK) : z = (IF r \in late THEN <<c>> ELSE <<>>)
                                  /\ \A k \in DOMAIN z : k \in Nat /\ z[k] = c
  <2>1. <<c>> \in Seq(MessagesOK) /\ \A k \in DOMAIN <<c>> : k \in Nat /\ <<c>>[k] = c OBVIOUS
  <2>2. <<>> \in Seq(MessagesOK) /\ \A k \in DOMAIN <<>> : k \in Nat /\ <<>>[k] = c OBVIOUS
  <2>. QED BY <2>1, <2>2
<1>8. x \o <<b>> \o z \in Seq(MessagesOK) OBVIOUS
<1>9. PICK new \in Seq(MessagesOK) : new = x \o <<b>> \o z BY <1>8, Zenon
<1>10. Sends(new) BY <1>3, <1>4, <1>5, <1>6, <1>7, <1>9 DEF EventQueueDrained
<1>11. /\ Len(x) + 1 \in DOMAIN new /\ new[Len(x) + 1] = b
       /\ \A k \in DOMAIN new : new[k] \in {a, b, c}
  <2>0. x \o <<b>> \in Seq(MessagesOK) /\ Len(x \o <<b>>) = Len(x) + 1 OBVIOUS
  <2>1. PICK y \in Seq(MessagesOK) : y = x \o <<b>> /\ Len(y) = Len(x) + 1 BY <2>0, Zenon
  <2>2. y[Len(x) + 1] = b /\ \A k \in DOMAIN y : y[k] \in {a, b} BY <1>6, <2>1
  <2>3. new = y \o z BY <1>9, <2>1
  <2>4. \A k \in DOMAIN new : k \in DOMAIN y \/ k - Len(y) \in DOMAIN z BY <2>3
  <2>5. \A k \in DOMAIN new : (k \in DOMAIN y /\ new[k] = y[k]) \/ (k - Len(y) \in DOMAIN z /\ new[k] = z[k - Len(y)])
    BY <2>3
  <2>6. Len(x) + 1 \in DOMAIN new /\ new[Len(x) + 1] = b BY <2>1, <2>2, <2>3
  <2>. QED BY <1>7, <2>2, <2>5, <2>6
<1>12. TellsEnd(new, r) BY <1>4, <1>10, <1>11 DEF TellsEnd
<1>13. Tells(new) /\ NoReply(new) BY <1>2, <1>3, <1>4, <1>5, <1>10, <1>11 DEF Tells, NoReply, Ends
<1>. QED BY <1>12, <1>13

(* Every step of a run tells what is true, and the ends.                     *)
TellsAll(new) ==
  Tells(new) /\ \A q \in Runs : child'[q] = "gone" /\ child[q] # "gone" => TellsEnd(new, q)

(* Every step of the runs but a start and a refusal tells the truth and answers no start. *)
LEMMA RunsTell ==
  ASSUME TypeInv, KnownInv, Lasting,
         \/ InterruptAgentRun
         \/ \E r \in Runs : RunGoesOn(r) \/ Cleanup(r) \/ EventQueueDrained(r)
  PROVE  \E new : TellsAll(new) /\ NoReply(new)
<1>0. child \in [Runs -> Children] BY DEF TypeInv, ManagerOK
<1>1. CASE InterruptAgentRun
  <2>1. child' = child \/ \E c \in {"failed", "ended"} : child' = [child EXCEPT ![Head(stops)] = c]
    BY <1>1 DEF InterruptAgentRun, Killed
  <2>2. \A q \in Runs : child'[q] = "gone" => child[q] = "gone" BY <1>0, <2>1
  <2>. QED BY <1>1, <2>2, InterruptTells DEF TellsAll
<1>2. ASSUME NEW r \in Runs, EventQueueDrained(r) PROVE \E new : TellsAll(new) /\ NoReply(new)
  <2>1. PICK new : Tells(new) /\ NoReply(new) /\ TellsEnd(new, r) BY <1>2, DrainTells
  <2>2. \A q \in Runs \ {r} : child'[q] = child[q] BY <1>0, <1>2 DEF EventQueueDrained
  <2>. QED BY <2>1, <2>2 DEF TellsAll
<1>3. ASSUME NEW r \in Runs, RunGoesOn(r) \/ Cleanup(r) PROVE \E new : TellsAll(new) /\ NoReply(new)
  <2>1. r \in Forked BY <1>3 DEF RunGoesOn, Cleanup, AliveStates, TypeInv, ManagerOK, Forked
  <2>2. \/ UNCHANGED inbox \/ Sends(<<Event("question.asked", r)>>) \/ Sends(<<Event("turn.completed", r)>>)
    BY <1>3 DEF RunGoesOn, Cleanup, chans
  <2>3. PICK new : Tells(new) /\ NoReply(new) BY <2>1, <2>2, RunTells
  <2>4. \A q \in Runs : child'[q] = "gone" => child[q] = "gone" BY <1>0, <1>3 DEF RunGoesOn, Cleanup
  <2>. QED BY <2>3, <2>4 DEF TellsAll
<1>. QED BY <1>1, <1>2, <1>3

(* So does a refusal.                                                        *)
LEMMA StepsTell ==
  ASSUME TypeInv, KnownInv, Lasting,
         \/ \E p \in Prompts : Refuse(p)
         \/ InterruptAgentRun
         \/ \E r \in Runs : RunGoesOn(r) \/ Cleanup(r) \/ EventQueueDrained(r)
  PROVE  \E new : TellsAll(new)
<1>1. ASSUME NEW p \in Prompts, Refuse(p) PROVE \E new : TellsAll(new)
  BY <1>1, RefuseTells DEF Refuse, TellsAll
<1>. QED BY <1>1, RunsTell

(* Nothing is known or heard of that was not forked.                         *)
LEMMA KnownStep == ASSUME TypeInv, ForksInv, KnownInv, [Next]_vars PROVE KnownInv'
<1>0. Lasting BY LastingStep
<1>1. CASE SameRuns /\ WindowMoves BY <1>0, <1>1, WindowKnows
<1>2. ASSUME UNCHANGED <<state, ignored>>,
             \/ \E p \in Prompts : Refuse(p)
             \/ InterruptAgentRun
             \/ \E r \in Runs : RunGoesOn(r) \/ Cleanup(r) \/ EventQueueDrained(r)
      PROVE  KnownInv'
  <2>1. PICK new : Tells(new) BY <1>0, <1>2, StepsTell DEF TellsAll
  <2>2. stops' = stops \/ (stops # <<>> /\ stops' = Tail(stops))
    BY <1>2 DEF Refuse, InterruptAgentRun, RunGoesOn, Cleanup, EventQueueDrained, chans
  <2>3. \A k \in DOMAIN new :
          /\ new[k].run # 0 => new[k].run \in Forked'
          /\ new[k].type = "reply" /\ new[k].run # 0 => prompt'[new[k].run] = new[k].prompt
          /\ new[k].type = "run.interrupting" => new[k].run \in interrupted'
          /\ new[k].type \in Ends => new[k].run \in Runs /\ child'[new[k].run] = "gone"
    BY <2>1 DEF Tells
  <2>4. new \in Seq(MessagesOK) /\ (Sends(new) \/ UNCHANGED inbox) BY <2>1 DEF Tells
  <2>. QED BY <1>0, <1>2, <2>2, <2>3, <2>4, SentIsKnown
<1>3. ASSUME NEW p \in Prompts, StartAgentRun(p), UNCHANGED <<state, ignored>> PROVE KnownInv'
  <2>0. PICK r \in Runs : \E new : ForksFor(p, r, new) BY <1>3, ForkFacts
  <2>1. PICK new : ForksFor(p, r, new) BY <2>0
  <2>2. r \in Forked' /\ prompt'[r] = p BY <2>1 DEF ForksFor, Forked
  <2>3. \A k \in DOMAIN new : new[k].run = r /\ new[k].type \in {"reply", "run.started"}
                              /\ (new[k].type = "reply" => new[k].prompt = p)
    <3>1. /\ Message("reply", r, p).run = r /\ Message("reply", r, p).type = "reply"
          /\ Message("reply", r, p).prompt = p
          /\ Event("run.started", r).run = r /\ Event("run.started", r).type = "run.started"
      BY DEF Message, Event
    <3>. QED BY <2>1, <3>1 DEF ForksFor
  <2>4. new \in Seq(MessagesOK) /\ Sends(new) /\ (stops' = stops \/ stops' = Append(stops, r))
    BY <2>1 DEF ForksFor
  <2>5. \/ stops' = stops \/ (stops # <<>> /\ stops' = Tail(stops))
        \/ \E q \in Forked' : stops' = Append(stops, q)
    BY <2>2, <2>4
  <2>. QED BY <1>0, <1>3, <2>2, <2>3, <2>4, <2>5, SentIsKnown DEF Ends
<1>. QED BY <1>1, <1>2, <1>3, Steps

(* The answer to a start stays the first that is heard of its run.           *)
LEMMA OrderStep ==
  ASSUME TypeInv, ForksInv, KnownInv, OrderInv, [Next]_vars PROVE OrderInv'
<1>0. /\ ChannelsOK /\ state.runId \in {0} \union Runs /\ ignored \subseteq Runs
      /\ \A i \in DOMAIN inbox : inbox[i].run \in {0} \union Runs
  <2>1. \A m \in MessagesOK : m.run \in {0} \union Runs BY DEF MessagesOK
  <2>2. \A i \in DOMAIN inbox : inbox[i] \in MessagesOK BY DEF TypeInv, ChannelsOK
  <2>3. ChannelsOK /\ state.runId \in {0} \union Runs /\ ignored \subseteq Runs
    BY DEF TypeInv, WindowOK, States
  <2>. QED BY <2>1, <2>2, <2>3
<1>n. \A r \in Runs : r \in Nat /\ r > 0 BY DEF Runs
<1>1. ASSUME WindowMoves PROVE OrderInv'
  <2>1. CASE UNCHANGED inbox /\ state'.runId \in {0, state.runId} /\ ignored' \subseteq ignored \union {state.runId}
    BY <1>0, <1>n, <2>1 DEF OrderInv, IsStart
  <2>2. CASE inbox' = <<>> BY <2>2 DEF OrderInv
  <2>3. CASE /\ Hears /\ state'.runId \in {0, state.runId, Head(inbox).run}
             /\ ignored' \subseteq ignored \union {Head(inbox).run}
    <3> SUFFICES ASSUME NEW i \in DOMAIN inbox', IsStart(inbox'[i])
                 PROVE  /\ \A j \in DOMAIN inbox' : j < i => inbox'[j].run < inbox'[i].run
                        /\ state'.runId < inbox'[i].run
                        /\ \A r \in ignored' : r < inbox'[i].run
      BY DEF OrderInv, IsStart
    <3>1. /\ 1 \in DOMAIN inbox /\ inbox[1] = Head(inbox)
          /\ \A j \in DOMAIN inbox' : j \in Nat /\ j >= 1 /\ j + 1 \in DOMAIN inbox /\ inbox'[j] = inbox[j + 1]
      BY <1>0, <2>3, Shrunk
    <3>2. IsStart(inbox[i + 1]) /\ i + 1 \in DOMAIN inbox /\ inbox'[i] = inbox[i + 1] /\ 1 < i + 1
      BY <3>1
    <3>3. /\ \A j \in DOMAIN inbox : j < i + 1 => inbox[j].run < inbox[i + 1].run
          /\ state.runId < inbox[i + 1].run /\ \A r \in ignored : r < inbox[i + 1].run
      BY <3>2 DEF OrderInv
    <3>4. Head(inbox).run < inbox[i + 1].run BY <3>1, <3>2, <3>3
    <3>5. 0 < inbox[i + 1].run BY <1>0, <1>n, <3>2 DEF IsStart
    <3>6. \A j \in DOMAIN inbox' : j < i => inbox'[j].run < inbox'[i].run
      BY <3>1, <3>2, <3>3
    <3>. QED BY <2>3, <3>2, <3>3, <3>4, <3>5, <3>6
  <2>. QED BY <1>1, <2>1, <2>2, <2>3
           DEF WindowMoves, Rests, Overhears, Begins, Stops, Reopens, HearsStopped, HearsStart, HearsStopping,
               HearsEnd, SameShown, NowShown, NoneShown
<1>2. ASSUME UNCHANGED <<state, ignored>>, NEW new, Tells(new) PROVE OrderInv'
  <2>1. CASE UNCHANGED inbox BY <1>2, <2>1 DEF OrderInv
  <2>2. CASE Sends(new)
    <3> SUFFICES ASSUME NEW i \in DOMAIN inbox', IsStart(inbox'[i])
                 PROVE  /\ \A j \in DOMAIN inbox' : j < i => inbox'[j].run < inbox'[i].run
                        /\ state.runId < inbox'[i].run
                        /\ \A r \in ignored : r < inbox'[i].run
      BY <1>2 DEF OrderInv, IsStart
    <3>0. new \in Seq(MessagesOK) BY <1>2 DEF Tells
    <3>1. /\ Len(inbox) \in Nat /\ DOMAIN inbox = 1..Len(inbox)
          /\ \A j \in DOMAIN inbox : j \in DOMAIN inbox' /\ inbox'[j] = inbox[j]
          /\ \A j \in DOMAIN inbox' : j \in DOMAIN inbox
               \/ (j \in Nat /\ j > Len(inbox) /\ j - Len(inbox) \in DOMAIN new /\ inbox'[j] = new[j - Len(inbox)])
      BY <1>0, <2>2, <3>0, Grown
    <3>2. \A k \in DOMAIN new : ~IsStart(new[k]) BY <1>2 DEF Tells, IsStart
    <3>3. i \in DOMAIN inbox /\ inbox'[i] = inbox[i] BY <3>1, <3>2
    <3>4. \A j \in DOMAIN inbox' : j < i => j \in DOMAIN inbox /\ inbox'[j] = inbox[j] BY <3>1, <3>3
    <3>. QED BY <3>3, <3>4 DEF OrderInv
  <2>. QED BY <1>2, <2>1, <2>2 DEF Tells
<1>3. ASSUME NEW p \in Prompts, StartAgentRun(p), UNCHANGED <<state, ignored>> PROVE OrderInv'
  <2>0. PICK r \in Runs : \E new : ForksFor(p, r, new) BY <1>3, ForkFacts
  <2>1. PICK new : ForksFor(p, r, new) BY <2>0
  <2>2. new \in Seq(MessagesOK) /\ Sends(new) BY <2>1 DEF ForksFor
  <2>3. /\ Len(inbox) \in Nat /\ DOMAIN inbox = 1..Len(inbox)
        /\ \A j \in DOMAIN inbox : j \in DOMAIN inbox' /\ inbox'[j] = inbox[j]
        /\ \A j \in DOMAIN inbox' : j \in DOMAIN inbox
             \/ (j \in Nat /\ j > Len(inbox) /\ j - Len(inbox) \in DOMAIN new /\ inbox'[j] = new[j - Len(inbox)])
    BY <1>0, <2>2, Grown
  <2>4. \A k \in DOMAIN new : IsStart(new[k]) => k = 1 /\ new[k].run = r
    <3>1. Message("reply", r, p).run = r /\ Event("run.started", r).type = "run.started"
      BY DEF Message, Event
    <3>. QED BY <2>1, <3>1 DEF ForksFor, IsStart
  <2>5. \A q \in Forked : q < r BY <2>1 DEF ForksFor
  <2>6. /\ \A j \in DOMAIN inbox : inbox[j].run < r
        /\ state.runId < r /\ \A q \in ignored : q < r
    <3>1. \A j \in DOMAIN inbox : inbox[j].run # 0 => inbox[j].run \in Forked BY DEF KnownInv, Heard
    <3>. QED BY <1>n, <2>5, <3>1 DEF KnownInv
  <2> SUFFICES ASSUME NEW i \in DOMAIN inbox', IsStart(inbox'[i])
               PROVE  /\ \A j \in DOMAIN inbox' : j < i => inbox'[j].run < inbox'[i].run
                      /\ state.runId < inbox'[i].run
                      /\ \A q \in ignored : q < inbox'[i].run
    BY <1>3 DEF OrderInv, IsStart
  <2>7. CASE i \in DOMAIN inbox
    <3>1. \A j \in DOMAIN inbox' : j < i => j \in DOMAIN inbox /\ inbox'[j] = inbox[j] BY <2>3, <2>7
    <3>. QED BY <2>3, <2>7, <3>1 DEF OrderInv
  <2>8. CASE i \notin DOMAIN inbox
    <3>1. i = Len(inbox) + 1 /\ inbox'[i].run = r BY <2>3, <2>4, <2>8
    <3>2. \A j \in DOMAIN inbox' : j < i => j \in DOMAIN inbox /\ inbox'[j] = inbox[j] BY <2>3, <3>1
    <3>. QED BY <2>6, <3>1, <3>2
  <2>. QED BY <2>7, <2>8
<1>. QED
  <2>1. Lasting BY LastingStep
  <2>. QED BY <1>1, <1>2, <1>3, <2>1, StepsTell, Steps DEF TellsAll

(* The window listens to the run it shows.                                   *)
LEMMA WindowInvStep == ASSUME TypeInv, OrderInv, WindowInv, [Next]_vars PROVE WindowInv'
<1>1. ASSUME UNCHANGED <<state, subscribed, ignored>> PROVE WindowInv' BY <1>1 DEF WindowInv
<1>2. ASSUME WindowMoves PROVE WindowInv'
  <2>0. ChannelsOK /\ ignored \subseteq Runs BY DEF TypeInv, WindowOK
  <2>s. Hears /\ IsStart(Head(inbox)) =>
          /\ state.runId < Head(inbox).run /\ Head(inbox).run \notin ignored
          /\ state.runId # Head(inbox).run
    <3> SUFFICES ASSUME Hears, IsStart(Head(inbox))
                 PROVE  state.runId < Head(inbox).run /\ Head(inbox).run \notin ignored
                        /\ state.runId # Head(inbox).run
      OBVIOUS
    <3>1. 1 \in DOMAIN inbox /\ inbox[1] = Head(inbox) /\ Head(inbox) \in MessagesOK BY <2>0, Shrunk
    <3>2. PICK m \in MessagesOK : m = inbox[1] BY <3>1
    <3>3. state.runId < m.run /\ \A r \in ignored : r < m.run BY <3>1, <3>2 DEF OrderInv
    <3>4. m.run \in Nat /\ state.runId \in Nat BY <3>2 DEF MessagesOK, Runs, TypeInv, WindowOK, States
    <3>. QED BY <3>1, <3>2, <3>3, <3>4
  <2> USE DEF WindowInv
  <2>1. CASE Rests \/ Overhears BY <2>1 DEF Rests, Overhears, SameShown
  <2>2. CASE Begins \/ Stops BY <2>2 DEF Begins, Stops, NoneShown
  <2>3. CASE HearsStopped BY <2>s, <2>3 DEF HearsStopped, SameShown
  <2>4. CASE HearsStart BY <2>s, <2>4 DEF HearsStart, NowShown, Counts
  <2>5. CASE HearsStopping \/ HearsEnd BY <2>5 DEF HearsStopping, HearsEnd, NoneShown, SameShown
  <2>6. CASE Reopens BY <2>6 DEF Reopens
  <2>. QED BY <1>2, <2>1, <2>2, <2>3, <2>4, <2>5, <2>6 DEF WindowMoves
<1>. QED BY <1>1, <1>2, Steps

(* The window still hears of the end of what it shows or will show.          *)
LEMMA EndsHeard ==
  ASSUME TypeInv, KnownInv, WindowInv, EndInv, Hears, WindowMoves,
         \A r \in Runs : child'[r] = "gone" <=> child[r] = "gone"
  PROVE  EndInv'
<1>0. ChannelsOK BY DEF TypeInv
<1>1. /\ 1 \in DOMAIN inbox /\ inbox[1] = Head(inbox)
      /\ \A i \in DOMAIN inbox : i \in Nat /\ i >= 1
      /\ \A i \in DOMAIN inbox' : i \in Nat /\ i >= 1 /\ i + 1 \in DOMAIN inbox /\ inbox'[i] = inbox[i + 1]
      /\ \A i \in DOMAIN inbox : i > 1 => i - 1 \in DOMAIN inbox' /\ inbox'[i - 1] = inbox[i]
  BY <1>0, Shrunk
<1>2. \A i \in DOMAIN inbox' : Shows(inbox'[i]) /\ inbox'[i].run \in Runs /\ child'[inbox'[i].run] = "gone" =>
        \E j \in DOMAIN inbox' : j > i /\ inbox'[j] = Event("run.exited", inbox'[i].run)
  <2> SUFFICES ASSUME NEW i \in DOMAIN inbox', Shows(inbox'[i]), inbox'[i].run \in Runs,
                      child'[inbox'[i].run] = "gone"
               PROVE  \E j \in DOMAIN inbox' : j > i /\ inbox'[j] = Event("run.exited", inbox'[i].run)
    OBVIOUS
  <2>1. PICK r \in Runs : r = inbox'[i].run OBVIOUS
  <2>2. i + 1 \in DOMAIN inbox /\ inbox[i + 1] = inbox'[i] /\ i \in Nat BY <1>1
  <2>3. Shows(inbox[i + 1]) /\ Gone(inbox[i + 1].run) BY <2>1, <2>2 DEF Gone, Shows
  <2>4. PICK j \in DOMAIN inbox : j > i + 1 /\ inbox[j] = Event("run.exited", inbox[i + 1].run)
    BY <2>2, <2>3 DEF EndInv
  <2>5. j - 1 \in DOMAIN inbox' /\ inbox'[j - 1] = inbox[j] /\ j - 1 > i BY <1>1, <2>2, <2>4
  <2>. QED BY <2>2, <2>4, <2>5
<1>3. state'.runId \in Runs /\ child'[state'.runId] = "gone" =>
        \E j \in DOMAIN inbox' : inbox'[j] = Event("run.exited", state'.runId)
  <2> SUFFICES ASSUME state'.runId \in Runs, child'[state'.runId] = "gone"
               PROVE  \E j \in DOMAIN inbox' : inbox'[j] = Event("run.exited", state'.runId)
    OBVIOUS
  <2>1. PICK r \in Runs : r = state'.runId OBVIOUS
  <2>2. Gone(r) /\ r # 0 BY <2>1 DEF Gone, Runs
  <2>3. CASE r = Head(inbox).run /\ Shows(Head(inbox))
    <3>1. PICK j \in DOMAIN inbox : j > 1 /\ inbox[j] = Event("run.exited", r)
      BY <1>1, <2>2, <2>3 DEF EndInv
    <3>. QED BY <1>1, <2>1, <3>1
  <2>4. CASE state.runId = r /\ ~(Head(inbox).run = r /\ Head(inbox).type = "run.exited")
    <3>1. PICK j \in DOMAIN inbox : inbox[j] = Event("run.exited", r) BY <2>2, <2>4 DEF EndInv
    <3>2. j # 1 BY <1>1, <2>4, <3>1 DEF Event, Message
    <3>. QED BY <1>1, <2>1, <3>1, <3>2
  <2>5. r = state.runId => subscribed = r /\ r \notin ignored BY <2>2 DEF WindowInv
  <2>6. CASE Overhears BY <2>1, <2>4, <2>5, <2>6 DEF Overhears, SameShown, Counts, Ends
  <2>7. CASE HearsStopped BY <2>1, <2>4, <2>7 DEF HearsStopped, SameShown, IsStart
  <2>8. CASE HearsStart BY <2>1, <2>3, <2>8 DEF HearsStart, NowShown, IsStart, Shows
  <2>9. CASE HearsEnd \/ HearsStopping
    BY <2>1, <2>2, <2>4, <2>5, <2>9 DEF HearsEnd, HearsStopping, NoneShown, SameShown
  <2>10. CASE Rests \/ Begins \/ Stops \/ Reopens
    <3>1. inbox' = inbox \/ inbox' = <<>> BY <2>10 DEF Rests, Begins, Stops, Reopens
    <3>2. CASE inbox' = inbox
      <4>1. Tail(inbox) # inbox BY <1>0 DEF ChannelsOK, Hears
      <4>. QED BY <3>2, <4>1 DEF Hears
    <3>3. CASE inbox' = <<>> /\ inbox' # inbox
      <4>1. Reopens BY <2>10, <3>3 DEF Rests, Begins, Stops
      <4>2. state'.runId = bySession BY <4>1 DEF Reopens
      <4>. QED BY <2>1, <2>2, <4>2 DEF TypeInv, ManagerOK, ById, Gone
    <3>. QED BY <3>1, <3>2, <3>3
  <2>. QED BY <2>6, <2>7, <2>8, <2>9, <2>10 DEF WindowMoves
<1>. QED BY <1>2, <1>3 DEF EndInv, Gone

(* The end of the shown run is still on its way after messages were sent.    *)
LEMMA EndsSent ==
  ASSUME TypeInv, EndInv, state' = state, NEW new \in Seq(MessagesOK), Sends(new) \/ UNCHANGED inbox,
         \A k \in DOMAIN new : Shows(new[k]) /\ new[k].run \in Runs => child'[new[k].run] # "gone",
         \A q \in Runs : child'[q] = "gone" /\ child[q] # "gone" => TellsEnd(new, q)
  PROVE  EndInv'
<1>0. ChannelsOK BY DEF TypeInv
<1>1. CASE UNCHANGED inbox /\ \A q \in Runs : child'[q] = "gone" => child[q] = "gone"
  BY <1>1 DEF EndInv, Gone
<1>2. CASE Sends(new)
  <2>1. /\ Len(inbox) \in Nat /\ DOMAIN inbox = 1..Len(inbox)
        /\ \A i \in DOMAIN inbox : i \in DOMAIN inbox' /\ inbox'[i] = inbox[i]
        /\ \A i \in DOMAIN inbox' : i \in DOMAIN inbox
             \/ (i \in Nat /\ i > Len(inbox) /\ i - Len(inbox) \in DOMAIN new /\ inbox'[i] = new[i - Len(inbox)])
        /\ \A k \in DOMAIN new : Len(inbox) + k \in DOMAIN inbox' /\ inbox'[Len(inbox) + k] = new[k]
    BY <1>0, <1>2, Grown
  <2>2. \A k \in DOMAIN new : k \in Nat /\ k >= 1 OBVIOUS
  <2>3. ASSUME NEW q \in Runs, child'[q] = "gone", child[q] # "gone"
        PROVE  \E j \in DOMAIN inbox' : j > Len(inbox) /\ inbox'[j] = Event("run.exited", q)
    <3>1. PICK k \in DOMAIN new : new[k] = Event("run.exited", q) BY <2>3 DEF TellsEnd
    <3>. QED BY <2>1, <2>2, <3>1
  <2>4. \A i \in DOMAIN inbox' : Shows(inbox'[i]) /\ inbox'[i].run \in Runs /\ child'[inbox'[i].run] = "gone" =>
          \E j \in DOMAIN inbox' : j > i /\ inbox'[j] = Event("run.exited", inbox'[i].run)
    <3> SUFFICES ASSUME NEW i \in DOMAIN inbox', Shows(inbox'[i]), inbox'[i].run \in Runs,
                        child'[inbox'[i].run] = "gone"
                 PROVE  \E j \in DOMAIN inbox' : j > i /\ inbox'[j] = Event("run.exited", inbox'[i].run)
      OBVIOUS
    <3>1. i \in DOMAIN inbox /\ inbox'[i] = inbox[i] BY <2>1 DEF Shows
    <3>2. PICK r \in Runs : r = inbox[i].run BY <3>1
    <3>3. CASE child[r] = "gone"
      <4>1. PICK j \in DOMAIN inbox : j > i /\ inbox[j] = Event("run.exited", r)
        BY <3>1, <3>2, <3>3 DEF EndInv, Gone
      <4>. QED BY <2>1, <3>1, <3>2, <4>1
    <3>4. CASE child[r] # "gone"
      <4>1. PICK j \in DOMAIN inbox' : j > Len(inbox) /\ inbox'[j] = Event("run.exited", r)
        BY <2>3, <3>1, <3>2, <3>4
      <4>2. j > i BY <2>1, <3>1, <4>1
      <4>. QED BY <3>1, <3>2, <4>1, <4>2
    <3>. QED BY <3>3, <3>4
  <2>5. state'.runId \in Runs /\ child'[state'.runId] = "gone" =>
          \E j \in DOMAIN inbox' : inbox'[j] = Event("run.exited", state'.runId)
    <3> SUFFICES ASSUME state.runId \in Runs, child'[state.runId] = "gone"
                 PROVE  \E j \in DOMAIN inbox' : inbox'[j] = Event("run.exited", state.runId)
      OBVIOUS
    <3>1. PICK r \in Runs : r = state.runId OBVIOUS
    <3>2. CASE child[r] = "gone"
      <4>1. PICK j \in DOMAIN inbox : inbox[j] = Event("run.exited", r) BY <3>1, <3>2 DEF EndInv, Gone
      <4>. QED BY <2>1, <3>1, <4>1
    <3>3. CASE child[r] # "gone" BY <2>3, <3>1, <3>3
    <3>. QED BY <3>2, <3>3
  <2>. QED BY <2>4, <2>5 DEF EndInv, Gone
<1>. QED BY <1>1, <1>2 DEF TellsEnd

(* The window never keeps showing a run of whose end it will not hear.       *)
LEMMA EndStep == ASSUME TypeInv, ForksInv, KnownInv, WindowInv, EndInv, [Next]_vars PROVE EndInv'
<1>1. CASE SameRuns /\ WindowMoves
  <2>1. \A r \in Runs : child'[r] = "gone" <=> child[r] = "gone" BY <1>1 DEF SameRuns
  <2>2. CASE Hears BY <1>1, <2>1, <2>2, EndsHeard
  <2>3. CASE UNCHANGED inbox /\ state'.runId \in {0, state.runId}
    BY <2>1, <2>3 DEF EndInv, Gone, Runs
  <2>4. CASE Reopens
    BY <2>1, <2>4 DEF Reopens, EndInv, Gone, TypeInv, ManagerOK, ById, Runs
  <2>. QED BY <1>1, <2>2, <2>3, <2>4
           DEF WindowMoves, Rests, Overhears, Begins, Stops, HearsStopped, HearsStart, HearsStopping, HearsEnd,
               SameShown, NoneShown
<1>2. ASSUME state' = state, NEW new, TellsAll(new) PROVE EndInv'
  <2>1. new \in Seq(MessagesOK) /\ (Sends(new) \/ UNCHANGED inbox) BY <1>2 DEF TellsAll, Tells
  <2>2. \A k \in DOMAIN new : Shows(new[k]) /\ new[k].run \in Runs => child'[new[k].run] # "gone"
    BY <1>2 DEF TellsAll, Tells, Shows, Runs
  <2>3. \A q \in Runs : child'[q] = "gone" /\ child[q] # "gone" => TellsEnd(new, q) BY <1>2 DEF TellsAll
  <2>. QED BY <1>2, <2>1, <2>2, <2>3, EndsSent
<1>3. ASSUME state' = state, NEW p \in Prompts, StartAgentRun(p) PROVE EndInv'
  <2>0. PICK r \in Runs : \E new : ForksFor(p, r, new) BY <1>3, ForkFacts
  <2>1. PICK new : ForksFor(p, r, new) BY <2>0
  <2>2. new \in Seq(MessagesOK) /\ Sends(new) BY <2>1 DEF ForksFor
  <2>3. \A k \in DOMAIN new : new[k].run = r
    <3>1. Message("reply", r, p).run = r /\ Event("run.started", r).run = r BY DEF Message, Event
    <3>. QED BY <2>1, <3>1 DEF ForksFor
  <2>4. child'[r] # "gone" /\ \A q \in Runs \ {r} : child'[q] = child[q] BY <2>1 DEF ForksFor
  <2>5. \A k \in DOMAIN new : Shows(new[k]) /\ new[k].run \in Runs => child'[new[k].run] # "gone"
    BY <2>3, <2>4
  <2>6. \A q \in Runs : child'[q] = "gone" /\ child[q] # "gone" => TellsEnd(new, q) BY <2>4
  <2>. QED BY <1>3, <2>2, <2>5, <2>6, EndsSent
<1>. QED
  <2>1. Lasting BY LastingStep
  <2>. QED BY <1>1, <1>2, <1>3, <2>1, StepsTell, Steps

(* What works stays seen, whatever the window does.                          *)
LEMMA SeenByWindow ==
  ASSUME TypeInv, ForksInv, KnownInv, OrderInv, WindowInv, SeenInv, SameRuns, WindowMoves
  PROVE  SeenInv'
<1>0. ChannelsOK BY DEF TypeInv
<1> SUFFICES ASSUME NEW r \in Runs, r \in Alive, r \notin interrupted, r \notin lost PROVE Seen(r)'
  BY DEF SeenInv, SameRuns, Alive
<1>1. Seen(r) /\ r = bySession /\ bySession' = r /\ r # 0 BY DEF SeenInv, Seen, SameRuns, Runs
<1>2. child[r] # "gone" BY DEF Alive
<1>3. Hears => /\ 1 \in DOMAIN inbox /\ inbox[1] = Head(inbox) /\ Heard(Head(inbox))
               /\ \A i \in DOMAIN inbox : i \in Nat /\ i >= 1
               /\ \A i \in DOMAIN inbox : i > 1 => i - 1 \in DOMAIN inbox' /\ inbox'[i - 1] = inbox[i]
  <2> SUFFICES ASSUME Hears
               PROVE  /\ 1 \in DOMAIN inbox /\ inbox[1] = Head(inbox) /\ Heard(Head(inbox))
                      /\ \A i \in DOMAIN inbox : i \in Nat /\ i >= 1
                      /\ \A i \in DOMAIN inbox : i > 1 => i - 1 \in DOMAIN inbox' /\ inbox'[i - 1] = inbox[i]
    OBVIOUS
  <2>1. /\ 1 \in DOMAIN inbox /\ inbox[1] = Head(inbox)
        /\ \A i \in DOMAIN inbox : i \in Nat /\ i >= 1
        /\ \A i \in DOMAIN inbox : i > 1 => i - 1 \in DOMAIN inbox' /\ inbox'[i - 1] = inbox[i]
    BY <1>0, Shrunk
  <2>2. Heard(inbox[1]) BY <2>1 DEF KnownInv
  <2>. QED BY <2>1, <2>2
<1>4. stops \in Seq(Runs) BY <1>0 DEF ChannelsOK
<1>5. ASSUME \E i \in DOMAIN stops : stops[i] = r PROVE Seen(r)'
  <2>1. stops' = stops \/ \E q : stops' = Append(stops, q)
    BY <1>4, <1>5 DEF WindowMoves, Rests, Overhears, Begins, Stops, Reopens, HearsStopped, HearsStart,
                      HearsStopping, HearsEnd
  <2>2. \E i \in DOMAIN stops' : stops'[i] = r BY <1>4, <1>5, <2>1
  <2>. QED BY <1>1, <2>2 DEF Seen
<1>6. ASSUME stops' = Append(stops, r) PROVE Seen(r)'
  <2>1. Len(stops) + 1 \in DOMAIN stops' /\ stops'[Len(stops) + 1] = r BY <1>4, <1>6
  <2>. QED BY <1>1, <2>1 DEF Seen
<1>7. ASSUME state'.runId = r PROVE Seen(r)' BY <1>1, <1>7 DEF Seen
<1>8. CASE state.runId = r
  <2>1. subscribed = r /\ state.phase # "idle" BY <1>1, <1>8 DEF WindowInv
  <2>2. CASE Rests \/ Overhears \/ HearsStopped BY <1>7, <1>8, <2>2 DEF Rests, Overhears, HearsStopped, SameShown
  <2>3. CASE Begins BY <2>1, <2>3 DEF Begins
  <2>4. CASE Stops BY <1>1, <1>6, <1>8, <2>4 DEF Stops
  <2>5. CASE Reopens BY <1>1, <1>7, <2>5 DEF Reopens
  <2>6. CASE HearsStart
    <3>1. CASE IsStart(Head(inbox))
      <4>1. PICK q \in Runs : q = Head(inbox).run
        BY <1>3, <2>6, <3>1 DEF HearsStart, Heard, IsStart, Forked
      <4>2. q \in Forked /\ r < q
        BY <1>3, <1>8, <2>6, <3>1, <4>1 DEF HearsStart, Heard, IsStart, OrderInv
      <4>3. q <= r BY <1>1, <4>2 DEF ForksInv
      <4>. QED BY <4>2, <4>3 DEF Runs
    <3>2. CASE Counts(Head(inbox))
      <4>1. Head(inbox).run = r BY <1>1, <2>1, <3>2 DEF Counts
      <4>. QED BY <1>7, <2>6, <4>1 DEF HearsStart, NowShown
    <3>. QED BY <2>6, <3>1, <3>2 DEF HearsStart
  <2>7. CASE HearsStopping
    <3>1. Head(inbox).run = r BY <1>1, <2>1, <2>7 DEF HearsStopping, Counts
    <3>. QED BY <1>3, <2>7, <3>1 DEF HearsStopping, Heard
  <2>8. CASE HearsEnd
    <3>1. CASE Counts(Head(inbox))
      <4>1. Head(inbox).run = r BY <1>1, <2>1, <3>1 DEF Counts
      <4>. QED BY <1>2, <1>3, <2>8, <4>1 DEF HearsEnd, Heard
    <3>2. CASE SameShown BY <1>7, <1>8, <3>2 DEF SameShown
    <3>. QED BY <2>8, <3>1, <3>2 DEF HearsEnd
  <2>. QED BY <2>2, <2>3, <2>4, <2>5, <2>6, <2>7, <2>8 DEF WindowMoves
<1>9. CASE \E i \in DOMAIN inbox : inbox[i].type = "reply" /\ inbox[i].run = r
  <2>1. PICK i \in DOMAIN inbox : inbox[i].type = "reply" /\ inbox[i].run = r BY <1>9
  <2>2. CASE UNCHANGED inbox BY <1>1, <1>9, <2>2 DEF Seen
  <2>3. CASE Reopens BY <1>1, <1>7, <2>3 DEF Reopens
  <2>4. CASE Hears /\ i # 1
    <3>1. i - 1 \in DOMAIN inbox' /\ inbox'[i - 1] = inbox[i] BY <1>3, <2>4
    <3>2. inbox'[i - 1].type = "reply" /\ inbox'[i - 1].run = r BY <2>1, <3>1
    <3>. QED BY <1>1, <3>1, <3>2 DEF Seen
  <2>5. CASE Hears /\ i = 1
    <3>1. Head(inbox).type = "reply" /\ Head(inbox).run = r /\ IsStart(Head(inbox))
      BY <1>1, <1>3, <2>1, <2>5 DEF IsStart
    <3>2. CASE HearsStopped BY <1>6, <3>1, <3>2 DEF HearsStopped
    <3>3. CASE HearsStart BY <1>7, <3>1, <3>3 DEF HearsStart, NowShown
    <3>4. ~Overhears /\ ~HearsStopping /\ ~HearsEnd
      BY <3>1 DEF Overhears, HearsStopping, HearsEnd, Ends
    <3>5. CASE Rests \/ Begins \/ Stops BY <2>2, <3>5 DEF Rests, Begins, Stops
    <3>. QED BY <2>3, <3>2, <3>3, <3>4, <3>5 DEF WindowMoves
  <2>. QED BY <2>2, <2>3, <2>4, <2>5
           DEF WindowMoves, Rests, Overhears, Begins, Stops, HearsStopped, HearsStart, HearsStopping, HearsEnd
<1>. QED BY <1>1, <1>5, <1>8, <1>9 DEF Seen

(* And whatever the runs do: who loses the entry was told to stop, or lost   *)
(* it to another one's exit, or is forked for nobody.                        *)
LEMMA SeenStep ==
  ASSUME TypeInv, ForksInv, KnownInv, OrderInv, WindowInv, SeenInv, [Next]_vars PROVE SeenInv'
<1>0. ChannelsOK /\ child \in [Runs -> Children] BY DEF TypeInv, ManagerOK
<1>1. CASE SameRuns /\ WindowMoves BY <1>1, SeenByWindow
<1>2. ASSUME UNCHANGED state,
             \/ \E p \in Prompts : Refuse(p)
             \/ InterruptAgentRun
             \/ \E r \in Runs : RunGoesOn(r) \/ Cleanup(r) \/ EventQueueDrained(r)
      PROVE  SeenInv'
  <2>0. Lasting BY LastingStep
  <2>1. PICK new : Tells(new) BY <1>2, <2>0, StepsTell DEF TellsAll
  <2>2. \A i \in DOMAIN inbox : i \in DOMAIN inbox' /\ inbox'[i] = inbox[i] BY <1>0, <2>1, Grown DEF Tells
  <2>3. ASSUME NEW r \in Runs, r \in Alive, r \notin interrupted, r \notin lost,
               bySession' = bySession, \A i \in DOMAIN stops : stops[i] = r => \E j \in DOMAIN stops' : stops'[j] = r
        PROVE  Seen(r)'
    <3>1. Seen(r) BY <2>3 DEF SeenInv
    <3>. QED BY <1>2, <2>2, <2>3, <3>1 DEF Seen
  <2>4. CASE \/ \E p \in Prompts : Refuse(p)
             \/ \E q \in Runs : RunGoesOn(q) \/ EventQueueDrained(q)
    <3>1. UNCHANGED <<bySession, stops, interrupted, lost>> /\ Alive' \subseteq Alive
      <4>1. ASSUME NEW p \in Prompts, Refuse(p)
            PROVE  UNCHANGED <<bySession, stops, interrupted, lost>> /\ Alive' \subseteq Alive
        BY <4>1 DEF Refuse, manager, Alive
      <4>2. ASSUME NEW q \in Runs, RunGoesOn(q) \/ EventQueueDrained(q)
            PROVE  UNCHANGED <<bySession, stops, interrupted, lost>> /\ Alive' \subseteq Alive
        BY <1>0, <4>2 DEF RunGoesOn, EventQueueDrained, manager, history, Alive, AliveStates
      <4>. QED BY <2>4, <4>1, <4>2
    <3>. QED BY <2>3, <3>1 DEF SeenInv, Alive
  <2>5. ASSUME NEW q \in Runs, Cleanup(q) PROVE SeenInv'
    <3>1. /\ child[q] = "ended" /\ child' = [child EXCEPT ![q] = "drains"]
          /\ UNCHANGED <<interrupted, stops>> /\ lost' = lost \union ({bySession} \ {0, q})
      BY <2>5 DEF Cleanup, chans
    <3>2. Alive' = Alive /\ q \notin Alive BY <1>0, <3>1 DEF Alive
    <3>3. \A r \in Alive \ (interrupted \union lost) : r = bySession /\ r # 0
      BY DEF SeenInv, Seen, Alive, Runs
    <3>4. Alive' \ (interrupted' \union lost') = {} BY <3>1, <3>2, <3>3
    <3>. QED BY <3>4 DEF SeenInv
  <2>6. CASE InterruptAgentRun
    <3>0. stops # <<>> /\ stops \in Seq(Runs) BY <1>0, <2>6 DEF InterruptAgentRun, ChannelsOK
    <3>1. PICK q \in Runs : q = Head(stops) BY <3>0
    <3>2. /\ stops' = Tail(stops) /\ interrupted' = interrupted \union ({q} \intersect ById)
          /\ bySession' = (IF q \in ById /\ bySession = q THEN 0 ELSE bySession) /\ lost' = lost
          /\ child' = child \/ \E c \in {"failed", "ended"} : child' = [child EXCEPT ![q] = c]
      BY <2>6, <3>1 DEF InterruptAgentRun, Killed, history
    <3>3. Alive' \subseteq Alive BY <1>0, <3>2 DEF Alive
    <3>4. ASSUME NEW r \in Runs, r \in Alive, r \notin interrupted', r \notin lost PROVE Seen(r)'
      <4>1. r \in ById /\ r # q BY <3>2, <3>4 DEF Alive, ById
      <4>2. Seen(r) /\ r = bySession BY <3>2, <3>4 DEF SeenInv, Seen
      <4>3. bySession' = bySession BY <3>2, <4>1, <4>2
      <4>4. \A i \in DOMAIN stops : stops[i] = r => \E j \in DOMAIN stops' : stops'[j] = r
        <5> SUFFICES ASSUME NEW i \in DOMAIN stops, stops[i] = r PROVE \E j \in DOMAIN stops' : stops'[j] = r
          OBVIOUS
        <5>1. i # 1 BY <3>0, <3>1, <4>1
        <5>2. i - 1 \in DOMAIN stops' /\ stops'[i - 1] = r BY <3>0, <3>2, <5>1
        <5>. QED BY <5>2
      <4>. QED BY <2>3, <3>2, <3>4, <4>3, <4>4
    <3>. QED BY <3>2, <3>3, <3>4 DEF SeenInv, Alive
  <2>. QED BY <1>2, <2>4, <2>5, <2>6
<1>3. ASSUME NEW p \in Prompts, StartAgentRun(p) PROVE SeenInv'
  <2>0. PICK r \in Runs : \E new : ForksFor(p, r, new) BY <1>3, ForkFacts
  <2>1. PICK new : ForksFor(p, r, new) BY <2>0
  <2>2. new \in Seq(MessagesOK) /\ Sends(new) /\ bySession = 0 /\ bySession' = r /\ interrupted' = interrupted
    BY <2>1 DEF ForksFor
  <2>3. \A q \in Runs : q \in Alive' => q = r \/ q \in Alive BY <2>1 DEF ForksFor, Alive
  <2>4. lost \subseteq lost' BY <2>1 DEF ForksFor
  <2>5. \A q \in Alive : q \in interrupted \union lost BY <2>2 DEF SeenInv, Seen, Alive, Runs
  <2>6. CASE r \in lost' BY <2>2, <2>3, <2>4, <2>5, <2>6 DEF SeenInv, Alive
  <2>7. CASE r \notin lost'
    <3>1. 1 \in DOMAIN new /\ new[1] = Message("reply", r, p) BY <2>1, <2>7 DEF ForksFor
    <3>2. Len(inbox) + 1 \in DOMAIN inbox' /\ inbox'[Len(inbox) + 1] = new[1] BY <1>0, <2>2, <3>1, Grown
    <3>3. Message("reply", r, p).type = "reply" /\ Message("reply", r, p).run = r BY DEF Message
    <3>4. Seen(r)' BY <2>2, <3>1, <3>2, <3>3 DEF Seen
    <3>. QED BY <2>2, <2>3, <2>4, <2>5, <3>4 DEF SeenInv, Alive
  <2>. QED BY <2>6, <2>7
<1>. QED BY <1>1, <1>2, <1>3, Steps

-----------------------------------------------------------------------------
(* Prompts on their way.                                                     *)

Replied(p) == \E i \in DOMAIN inbox : inbox[i].type = "reply" /\ inbox[i].prompt = p
Called(p)  == p \in Prompts /\ call[p] \in {"waits", "invoked"}

(* The prompts that are being started, by their calls and answers.           *)
LEMMA StartingIs ==
  /\ \A p : p \in Starting <=> Called(p) \/ Replied(p)
  /\ \A p : p \in Starting' <=> Called(p)' \/ Replied(p)'
<1>1. ToSet(inbox) = {inbox[i] : i \in DOMAIN inbox} BY DEF ToSet
<1>2. ToSet(inbox') = {inbox'[i] : i \in DOMAIN inbox'} BY DEF ToSet
<1>. QED BY <1>1, <1>2 DEF Starting, Called, Replied

(* Which answers are on their way after one was read or messages were sent.  *)
LEMMA RepliedShrinks ==
  ASSUME ChannelsOK, Hears
  PROVE  /\ \A p : Replied(p)' => Replied(p)
         /\ \A p : Replied(p) => Replied(p)' \/ (Head(inbox).type = "reply" /\ Head(inbox).prompt = p)
         /\ Head(inbox).type = "reply" => Replied(Head(inbox).prompt)
<1>1. /\ 1 \in DOMAIN inbox /\ inbox[1] = Head(inbox)
      /\ \A i \in DOMAIN inbox : i \in Nat /\ i >= 1
      /\ \A i \in DOMAIN inbox' : i + 1 \in DOMAIN inbox /\ inbox'[i] = inbox[i + 1]
      /\ \A i \in DOMAIN inbox : i > 1 => i - 1 \in DOMAIN inbox' /\ inbox'[i - 1] = inbox[i]
  BY Shrunk
<1>2. \A i \in DOMAIN inbox : i = 1 \/ i > 1 BY <1>1
<1>. QED BY <1>1, <1>2 DEF Replied

(* Messages that are sent withdraw no answer.                                *)
LEMMA RepliedGrows ==
  ASSUME ChannelsOK, NEW new \in Seq(MessagesOK), Sends(new) \/ UNCHANGED inbox
  PROVE  /\ \A p : Replied(p) => Replied(p)'
         /\ \A p : Replied(p)' =>
              Replied(p) \/ (Sends(new) /\ \E k \in DOMAIN new : new[k].type = "reply" /\ new[k].prompt = p)
<1>1. CASE UNCHANGED inbox BY <1>1 DEF Replied
<1>2. CASE Sends(new)
  <2>1. /\ \A i \in DOMAIN inbox : i \in DOMAIN inbox' /\ inbox'[i] = inbox[i]
        /\ \A i \in DOMAIN inbox' : i \in DOMAIN inbox
             \/ (i - Len(inbox) \in DOMAIN new /\ inbox'[i] = new[i - Len(inbox)])
    BY <1>2, Grown
  <2>. QED BY <1>2, <2>1 DEF Replied
<1>. QED BY <1>1, <1>2

(* A prompt that is started.                                                 *)
LEMMA StartRunStarts ==
  ASSUME WindowOK, NEW p \in Prompts, StartRun(p), UNCHANGED inbox
  PROVE  /\ Starting' = Starting \union {p}
         /\ \A q \in Prompts \ {p} : call'[q] = call[q]
<1>1. /\ call' = [call EXCEPT ![p] = IF stopping = 0 THEN "invoked" ELSE "waits"]
      /\ call \in [Prompts -> Calls]
  BY DEF StartRun, WindowOK
<1>2. \A q : Replied(q)' <=> Replied(q) BY DEF Replied
<1>3. \A q : Called(q)' <=> Called(q) \/ q = p BY <1>1 DEF Called
<1>4. \A q : q \in Starting' <=> Called(q)' \/ Replied(q)' BY StartingIs
<1>5. \A q : q \in Starting' <=> q \in Starting \/ q = p BY <1>2, <1>3, <1>4, StartingIs
<1>. QED BY <1>1, <1>5

(* A call that is over: its answer is on its way, or it has no page.         *)
LEMMA CallEnds ==
  ASSUME TypeInv, ForksInv, NEW p \in Prompts, Refuse(p) \/ StartAgentRun(p)
  PROVE  Starting' = Starting
<1>0. ChannelsOK /\ call \in [Prompts -> Calls] BY DEF TypeInv, WindowOK
<1>1. call' = [call EXCEPT ![p] = "none"] /\ call[p] \in {"invoked", "orphan"} BY DEF Refuse, StartAgentRun
<1>2. \A q : Called(q)' <=> Called(q) /\ q # p BY <1>0, <1>1 DEF Called
<1>3. Called(p) <=> call[p] = "invoked" BY <1>1 DEF Called
<1>4. /\ \A q : Replied(q) => Replied(q)'
      /\ \A q : Replied(q)' => Replied(q) \/ (q = p /\ call[p] = "invoked")
      /\ call[p] = "invoked" => Replied(p)'
  <2>1. CASE Refuse(p)
    <3>1. PICK a \in MessagesOK : a = Message("reply", 0, p) /\ a.type = "reply" /\ a.prompt = p
      <4>1. "reply" \in MessageTypes BY DEF MessageTypes
      <4>2. Message("reply", 0, p) \in MessagesOK BY <4>1, MessagesFit
      <4>. QED BY <4>2 DEF Message
    <3>2. <<a>> \in Seq(MessagesOK) OBVIOUS
    <3>3. PICK new \in Seq(MessagesOK) : new = <<a>> BY <3>2, Zenon
    <3>4. DOMAIN new = {1} /\ new[1] = a BY <3>3
    <3>5. (call[p] = "invoked" /\ Sends(new)) \/ (call[p] = "orphan" /\ UNCHANGED inbox)
      BY <2>1, <3>1, <3>3 DEF Refuse
    <3>6. /\ \A q : Replied(q) => Replied(q)'
          /\ \A q : Replied(q)' =>
               Replied(q) \/ (Sends(new) /\ \E k \in DOMAIN new : new[k].type = "reply" /\ new[k].prompt = q)
      BY <1>0, <3>5, RepliedGrows
    <3>7. CASE call[p] = "invoked" /\ Sends(new)
      <4>1. Len(inbox) + 1 \in DOMAIN inbox' /\ inbox'[Len(inbox) + 1] = a BY <1>0, <3>4, <3>7, Grown
      <4>. QED BY <3>1, <3>4, <3>6, <3>7, <4>1 DEF Replied
    <3>8. CASE call[p] = "orphan" /\ UNCHANGED inbox BY <3>8 DEF Replied
    <3>. QED BY <3>5, <3>7, <3>8
  <2>2. CASE StartAgentRun(p)
    <3>0. PICK r \in Runs : \E new : ForksFor(p, r, new) BY <2>2, ForkFacts
    <3>1. PICK new : ForksFor(p, r, new) BY <3>0
    <3>2. new \in Seq(MessagesOK) /\ Sends(new) BY <3>1 DEF ForksFor
    <3>3. /\ Message("reply", r, p).type = "reply" /\ Message("reply", r, p).prompt = p
          /\ Event("run.started", r).type = "run.started"
      BY DEF Message, Event
    <3>4. \A k \in DOMAIN new : new[k].type = "reply" => new[k].prompt = p /\ call[p] = "invoked"
      BY <3>1, <3>3 DEF ForksFor
    <3>5. call[p] = "invoked" => 1 \in DOMAIN new /\ new[1].type = "reply" /\ new[1].prompt = p
      BY <3>1, <3>3 DEF ForksFor
    <3>6. /\ \A q : Replied(q) => Replied(q)'
          /\ \A q : Replied(q)' =>
               Replied(q) \/ (Sends(new) /\ \E k \in DOMAIN new : new[k].type = "reply" /\ new[k].prompt = q)
      BY <1>0, <3>2, RepliedGrows
    <3>7. \A k \in DOMAIN new : Len(inbox) + k \in DOMAIN inbox' /\ inbox'[Len(inbox) + k] = new[k]
      BY <1>0, <3>2, Grown
    <3>. QED BY <3>4, <3>5, <3>6, <3>7 DEF Replied
  <2>. QED BY <2>1, <2>2
<1>5. \A q : q \in Starting' <=> Called(q)' \/ Replied(q)' BY StartingIs
<1>6. \A q : q \in Starting' <=> q \in Starting BY <1>2, <1>3, <1>4, <1>5, StartingIs
<1>. QED BY <1>6

(* Steps that start and answer nothing.                                      *)
LEMMA StartingKept ==
  ASSUME TypeInv, KnownInv, Lasting,
         \/ StopAnswered \/ HandleAgentEvent \/ InterruptAgentRun
         \/ \E r \in Runs : RunGoesOn(r) \/ Cleanup(r) \/ EventQueueDrained(r)
         \/ UNCHANGED <<call, inbox>>,
         call' = call \/ StopAnswered
  PROVE  Starting' = Starting
<1>0. ChannelsOK /\ call \in [Prompts -> Calls] BY DEF TypeInv, WindowOK
<1>1. \A q : Called(q)' <=> Called(q)
  <2>1. CASE call' = call BY <2>1 DEF Called
  <2>2. CASE StopAnswered
    <3>1. \A q \in Prompts : call'[q] = call[q] \/ (call[q] = "waits" /\ call'[q] = "invoked")
      BY <2>2 DEF StopAnswered
    <3>. QED BY <3>1 DEF Called
  <2>. QED BY <2>1, <2>2
<1>2. \A q : Replied(q)' <=> Replied(q)
  <2>1. CASE UNCHANGED inbox BY <2>1 DEF Replied
  <2>2. CASE StopAnswered \/ HandleAgentEvent
    <3>1. Hears /\ Head(inbox).type # "reply"
      BY <2>2 DEF StopAnswered, HandleAgentEvent, Told, Hears, EventTypes, Ends
    <3>. QED BY <1>0, <3>1, RepliedShrinks
  <2>3. CASE InterruptAgentRun \/ \E r \in Runs : RunGoesOn(r) \/ Cleanup(r) \/ EventQueueDrained(r)
    <3>1. PICK new : Tells(new) /\ NoReply(new) BY <2>3, RunsTell DEF TellsAll
    <3>2. new \in Seq(MessagesOK) /\ (Sends(new) \/ UNCHANGED inbox) BY <3>1 DEF Tells
    <3>. QED BY <1>0, <3>1, <3>2, RepliedGrows DEF NoReply
  <2>. QED BY <2>1, <2>2, <2>3
<1>3. \A q : q \in Starting' <=> Called(q)' \/ Replied(q)' BY StartingIs
<1>4. \A q : q \in Starting' <=> q \in Starting BY <1>1, <1>2, <1>3, StartingIs
<1>. QED BY <1>4

(* An answer to a start is read.                                             *)
LEMMA AnswerRead ==
  ASSUME TypeInv, RunStarted \/ RunRefused
  PROVE  /\ Starting' \subseteq Starting /\ Starting \subseteq Starting' \union {Head(inbox).prompt}
         /\ Head(inbox).prompt \in Starting
<1>1. ChannelsOK /\ Hears /\ Head(inbox).type = "reply" /\ call' = call
  BY DEF TypeInv, RunStarted, RunRefused, Told, Hears
<1>2. \A q : Called(q)' <=> Called(q) BY <1>1 DEF Called
<1>3. \A q : q \in Starting' <=> Called(q)' \/ Replied(q)' BY StartingIs
<1>4. /\ \A p : Replied(p)' => Replied(p)
      /\ \A p : Replied(p) => Replied(p)' \/ Head(inbox).prompt = p
      /\ Replied(Head(inbox).prompt)
  BY <1>1, RepliedShrinks
<1>. QED BY <1>2, <1>3, <1>4, StartingIs

(* A stop on its way stays one for what the user stopped.                    *)
LEMMA StopsStep == ASSUME TypeInv, ForksInv, KnownInv, StopsInv, [Next]_vars PROVE StopsInv'
<1>0. WindowOK /\ ChannelsOK /\ Lasting /\ interrupted \subseteq Forked /\ stops \in Seq(Runs)
  BY LastingStep DEF TypeInv, ManagerOK, ChannelsOK
<1>a. ASSUME UNCHANGED <<interrupted, prompt, stops, stopped, doomed>>, ~stale' => ~stale,
             ~stale' /\ stopPending' => Starting' # {} /\ Starting' \subseteq stopped
      PROVE  StopsInv'
  BY <1>a DEF StopsInv
<1>1. ASSUME NEW p \in Prompts, StartRun(p),
             UNCHANGED <<interrupted, prompt, inbox, stops, stopped, stopPending, doomed>>
      PROVE  StopsInv'
  <2>1. stale' = (stale \/ (stopPending /\ Starting # {})) BY <1>1 DEF StartRun
  <2>2. ~stale' => ~stale /\ ~stopPending BY <2>1 DEF StopsInv
  <2>. QED BY <1>1, <1>a, <2>2
<1>2. ASSUME UNCHANGED <<interrupted, prompt, stops, stopped, stopPending, stale>>, Starting' = Starting,
             doomed' \subseteq doomed
      PROVE  StopsInv'
  BY <1>2 DEF StopsInv
<1>3. CASE SendMessage
  <2>1. UNCHANGED <<interrupted, prompt, inbox, stops, stopped, stopPending, doomed>>
        /\ \/ StartRun(sent + 1)
           \/ UNCHANGED <<call, stale>>
    BY <1>3 DEF SendMessage, manager, chans
  <2>2. sent + 1 \in Prompts BY <1>0, <1>3, AgentRunsAssumption DEF SendMessage, WindowOK, Prompts
  <2>3. CASE StartRun(sent + 1) BY <1>1, <2>1, <2>2, <2>3
  <2>4. CASE UNCHANGED <<call, stale>>
    <3>1. Starting' = Starting BY <2>1, <2>4 DEF Starting
    <3>. QED BY <1>2, <2>1, <2>4, <3>1
  <2>. QED BY <2>1, <2>3, <2>4
<1>4. CASE DispatchQueued
  <2>1. UNCHANGED <<interrupted, prompt, inbox, stops, stopped, stopPending, doomed>> /\ StartRun(Head(state.queue))
    BY <1>4 DEF DispatchQueued, manager, chans
  <2>2. Head(state.queue) \in Prompts BY <1>0, <1>4, CutQueue DEF DispatchQueued, WindowOK, States
  <2>. QED BY <1>1, <2>1, <2>2
<1>5. CASE RemoveQueuedPrompt \/ AnswerQuestion \/ HideSession \/ ShowSession \/ UNCHANGED vars
  <2>1. UNCHANGED <<interrupted, prompt, inbox, call, stops, stopped, stopPending, stale, doomed>>
    BY <1>5 DEF RemoveQueuedPrompt, AnswerQuestion, HideSession, ShowSession, vars, window, manager, chans, history
  <2>2. Starting' = Starting BY <2>1 DEF Starting
  <2>. QED BY <1>2, <2>1, <2>2
<1>6. CASE Interrupt
  <2>1. UNCHANGED <<interrupted, prompt, inbox, call, doomed>> BY <1>6 DEF Interrupt, manager
  <2>2. Starting' = Starting BY <2>1 DEF Starting
  <2>3. CASE state.runId # 0
    <3>1. /\ stops' = Append(stops, state.runId) /\ stopped' = stopped \union {prompt[state.runId]}
          /\ UNCHANGED <<stopPending, stale>>
      BY <1>6, <2>3 DEF Interrupt, AskToStop
    <3>2. \A i \in DOMAIN stops' : (i \in DOMAIN stops /\ stops'[i] = stops[i]) \/ stops'[i] = state.runId
      BY <1>0, <3>1
    <3>. QED BY <2>1, <2>2, <3>1, <3>2 DEF StopsInv
  <2>4. CASE state.runId = 0
    <3>1. /\ UNCHANGED stops /\ stopped' = stopped \union Starting /\ stale' = (stale \/ Starting = {})
      BY <1>6, <2>4 DEF Interrupt
    <3>. QED BY <2>1, <2>2, <3>1 DEF StopsInv
  <2>. QED BY <2>3, <2>4
<1>7. CASE Reload \/ LeaveTab
  <2>1. UNCHANGED <<interrupted, prompt, stops, stopped, stale>> /\ stopPending' = FALSE
    BY <1>7, Returned DEF ComesBack, manager
  <2>2. doomed' \subseteq doomed \/ (stopPending /\ doomed' \subseteq Starting)
    BY <1>7 DEF Reload, LeaveTab, Starting
  <2>. QED BY <2>1, <2>2 DEF StopsInv
<1>8. CASE RunStarted
  <2>1. Hears /\ IsStart(Head(inbox)) /\ UNCHANGED <<interrupted, prompt, stopped, stale, doomed>>
    BY <1>8 DEF RunStarted, Told, Hears, IsStart, manager, history
  <2>2. CASE stopPending
    <3>1. stopPending' = FALSE /\ stops' = Append(stops, Head(inbox).run)
      BY <1>8, <2>2 DEF RunStarted, AskToStop
    <3>2. PICK m \in MessagesOK : m = Head(inbox) /\ m = inbox[1] /\ 1 \in DOMAIN inbox BY <1>0, <2>1, Shrunk
    <3>3. prompt[m.run] = m.prompt BY <2>1, <3>2 DEF KnownInv, Heard, IsStart
    <3>4. m.prompt \in Starting BY <1>8, <3>2, AnswerRead
    <3>5. \A i \in DOMAIN stops' : (i \in DOMAIN stops /\ stops'[i] = stops[i]) \/ stops'[i] = m.run
      BY <1>0, <3>1, <3>2
    <3>. QED BY <2>1, <2>2, <3>1, <3>3, <3>4, <3>5 DEF StopsInv
  <2>3. CASE ~stopPending
    <3>1. UNCHANGED <<stopPending, stops>> BY <1>8, <2>3 DEF RunStarted
    <3>. QED BY <2>1, <2>3, <3>1 DEF StopsInv
  <2>. QED BY <2>2, <2>3
<1>9. CASE RunRefused
  <2>1. UNCHANGED <<interrupted, prompt, stops, stopped, stopPending, doomed>> /\ stale' = (stale \/ stopPending)
    BY <1>9 DEF RunRefused, manager
  <2>. QED BY <2>1 DEF StopsInv
<1>10. CASE StopAnswered \/ HandleAgentEvent
  <2>1. UNCHANGED <<interrupted, prompt, stops, stopped, stopPending, stale, doomed>>
    BY <1>10 DEF StopAnswered, HandleAgentEvent, manager, history
  <2>2. call' = call \/ StopAnswered BY <1>10 DEF HandleAgentEvent
  <2>4. Starting' = Starting BY <1>0, <1>10, <2>2, StartingKept
  <2>. QED BY <1>2, <2>1, <2>4
<1>11. ASSUME NEW p \in Prompts, Refuse(p) PROVE StopsInv'
  <2>1. UNCHANGED <<interrupted, prompt, stops, stopped, stopPending, stale>> /\ doomed' \subseteq doomed
    BY <1>11 DEF Refuse, manager
  <2>2. Starting' = Starting BY <1>11, CallEnds
  <2>. QED BY <1>2, <2>1, <2>2
<1>12. ASSUME NEW p \in Prompts, StartAgentRun(p) PROVE StopsInv'
  <2>1. UNCHANGED <<interrupted, stopped, stopPending, stale>> BY <1>12 DEF StartAgentRun
  <2>2. Starting' = Starting BY <1>12, CallEnds
  <2>3. \A r \in Forked : prompt'[r] = prompt[r] BY <1>0 DEF Lasting
  <2>4. PICK r \in Runs : \E new : ForksFor(p, r, new) BY <1>12, ForkFacts
  <2>5. /\ prompt'[r] = p /\ doomed' \subseteq doomed
        /\ stops' = stops \/ (p \in doomed /\ stops' = Append(stops, r))
    BY <2>4 DEF ForksFor
  <2>6. \A i \in DOMAIN stops' : (i \in DOMAIN stops /\ stops'[i] = stops[i]) \/ (p \in doomed /\ stops'[i] = r)
    BY <1>0, <2>5
  <2>. QED BY <1>0, <2>1, <2>2, <2>3, <2>5, <2>6 DEF StopsInv, KnownInv
<1>13. CASE \/ InterruptAgentRun
            \/ \E r \in Runs : ForceKill(r) \/ Cleanup(r) \/ EventQueueDrained(r)
                               \/ AskUser(r) \/ CompleteTurn(r) \/ EndChild(r)
  <2>1. UNCHANGED <<prompt, call, stopped, stopPending, stale, doomed>>
    BY <1>13 DEF InterruptAgentRun, ForceKill, Cleanup, EventQueueDrained, AskUser, CompleteTurn, EndChild,
                 window, manager, history
  <2>2. \/ UNCHANGED <<interrupted, stops>>
        \/ /\ stops # <<>> /\ stops' = Tail(stops)
           /\ interrupted' = interrupted \union ({Head(stops)} \intersect ById)
    BY <1>13 DEF InterruptAgentRun, ForceKill, Cleanup, EventQueueDrained, AskUser, CompleteTurn, EndChild,
                 manager, chans
  <2>4. Starting' = Starting BY <1>0, <1>13, <2>1, RunOnlyGoesOn, StartingKept
  <2>5. CASE UNCHANGED <<interrupted, stops>> BY <1>2, <2>1, <2>4, <2>5
  <2>6. CASE /\ stops # <<>> /\ stops' = Tail(stops)
             /\ interrupted' = interrupted \union ({Head(stops)} \intersect ById)
    <3>1. 1 \in DOMAIN stops /\ stops[1] = Head(stops) BY <1>0, <2>6
    <3>2. \A i \in DOMAIN stops' : i + 1 \in DOMAIN stops /\ stops'[i] = stops[i + 1] BY <1>0, <2>6
    <3>. QED BY <2>1, <2>4, <2>6, <3>1, <3>2 DEF StopsInv
  <2>. QED BY <2>2, <2>5, <2>6
<1>. QED BY <1>3, <1>4, <1>5, <1>6, <1>7, <1>8, <1>9, <1>10, <1>11, <1>12, <1>13 DEF Next, User, Receive

-----------------------------------------------------------------------------
(* The queue, and what becomes of prompts.                                   *)

(* What an event does leaves the queue alone.                                *)
LEMMA ReducerKeepsTheQueue ==
  ASSUME TypeInv, NEW m, m.type \in EventTypes PROVE Reduced(m).queue = state.queue
<1>0. state \in States BY DEF TypeInv, WindowOK
<1>1. PICK r : r = m.run OBVIOUS
<1>2. Hydrated(state, r).queue = state.queue /\ [state EXCEPT !.asked = TRUE].queue = state.queue
  BY <1>0, FieldsOf
<1>3. TurnCompleted.queue = state.queue /\ InterruptRequested.queue = state.queue /\ RunEnded.queue = state.queue
  BY <1>0, FieldsOfState
<1>4. Reduced(m) \in {Hydrated(state, m.run), TurnCompleted, InterruptRequested,
                       [state EXCEPT !.asked = TRUE], RunEnded}
  BY DEF Reduced, EventTypes, Ends
<1>. QED BY <1>1, <1>2, <1>3, <1>4

(* The queue after an answer to a start that was made.                       *)
LEMMA QueueAfterStart ==
  ASSUME TypeInv, RunStarted
  PROVE  Q' = IF dispatching = Head(inbox).prompt /\ Q # <<>> THEN Tail(Q) ELSE Q
<1>0. state \in States BY DEF TypeInv, WindowOK
<1>1. PICK p : p = Head(inbox).prompt OBVIOUS
<1>2. PICK r : r = Head(inbox).run OBVIOUS
<1>3. state' = Shifted(p, state) \/ state' = Shifted(p, Hydrated(state, r)) BY <1>1, <1>2 DEF RunStarted
<1>4. Head(inbox).run \in {0} \union Runs BY HeadFits DEF TypeInv, RunStarted, Told
<1>5. Hydrated(state, r) \in States /\ Hydrated(state, r).queue = Q
  BY <1>0, <1>2, <1>4, StatesFit, FieldsOf DEF Q
<1>6. PICK s \in States : s.queue = Q /\ state' = Shifted(p, s) BY <1>0, <1>3, <1>5 DEF Q
<1>. QED BY <1>1, <1>6, FieldsShifted DEF Q

(* Steps that change neither the queue nor what is being sent.               *)
LEMMA QueueLeft ==
  ASSUME TypeInv,
         \/ Interrupt \/ AnswerQuestion \/ HideSession \/ ShowSession
         \/ StopAnswered \/ HandleAgentEvent \/ UNCHANGED vars
         \/ (\E p \in Prompts : Refuse(p) \/ StartAgentRun(p)) \/ InterruptAgentRun
         \/ \E r \in Runs : ForceKill(r) \/ Cleanup(r) \/ EventQueueDrained(r)
                            \/ AskUser(r) \/ CompleteTurn(r) \/ EndChild(r)
  PROVE  UNCHANGED <<Q, dispatching, misled, sent>>
<1>0. state \in States BY DEF TypeInv, WindowOK
<1>1. CASE Interrupt
  <2>1. state' = InterruptRequested /\ UNCHANGED <<dispatching, misled, sent>> BY <1>1 DEF Interrupt
  <2>. QED BY <1>0, <2>1, FieldsOfState DEF Q
<1>2. CASE AnswerQuestion
  <2>1. state' = [state EXCEPT !.asked = FALSE] /\ UNCHANGED <<dispatching, misled, sent>>
    BY <1>2 DEF AnswerQuestion, history
  <2>2. [state EXCEPT !.asked = FALSE].queue = state.queue BY <1>0, FieldsOf
  <2>. QED BY <2>1, <2>2 DEF Q
<1>3. CASE HandleAgentEvent
  <2>1. PICK m : m = Head(inbox) OBVIOUS
  <2>2. /\ state' = state \/ state' = Reduced(m)
        /\ m.type \in EventTypes /\ UNCHANGED <<dispatching, misled, sent>>
    BY <1>3, <2>1 DEF HandleAgentEvent, history
  <2>3. Reduced(m).queue = state.queue BY <2>2, ReducerKeepsTheQueue
  <2>. QED BY <2>2, <2>3 DEF Q
<1>4. CASE HideSession \/ ShowSession \/ StopAnswered \/ UNCHANGED vars
  BY <1>4 DEF HideSession, ShowSession, StopAnswered, vars, window, history, Q
<1>5. CASE \/ (\E p \in Prompts : Refuse(p) \/ StartAgentRun(p)) \/ InterruptAgentRun
           \/ \E r \in Runs : ForceKill(r) \/ Cleanup(r) \/ EventQueueDrained(r)
                              \/ AskUser(r) \/ CompleteTurn(r) \/ EndChild(r)
  <2>1. UNCHANGED <<state, dispatching, misled, sent>> BY <1>5, RunsLeaveWindow
  <2>. QED BY <2>1 DEF Q
<1>. QED BY <1>1, <1>2, <1>3, <1>4, <1>5

(* The queue of a window that sends.                                         *)
LEMMA QueueSends ==
  ASSUME TypeInv, SendMessage \/ DispatchQueued
  PROVE  /\ misled' = misled /\ Q \in Seq(Prompts)
         /\ SendMessage =>
              /\ dispatching' = dispatching
              /\ (StartRun(sent + 1) /\ Q' = Q) \/ (UNCHANGED call /\ Q' = Append(Q, sent + 1))
         /\ DispatchQueued => Q # <<>> /\ dispatching' = Head(Q) /\ Q' = Q
<1>0. WindowOK /\ state \in States /\ Q \in Seq(Prompts) BY DEF TypeInv, WindowOK, States, Q
<1>1. CASE SendMessage
  <2>1. UNCHANGED <<dispatching, misled>>
        /\ \/ state' = [state EXCEPT !.queue = Append(state.queue, sent + 1)] /\ UNCHANGED call
           \/ StartRun(sent + 1)
    BY <1>1 DEF SendMessage
  <2>2. PICK p : p = sent + 1 OBVIOUS
  <2>3. StartRun(p) => state'.queue = state.queue BY <1>0, StartBegins
  <2>4. state' = [state EXCEPT !.queue = Append(state.queue, sent + 1)] => Q' = Append(Q, sent + 1)
    BY <1>0, FieldsOf DEF Q
  <2>5. ~DispatchQueued BY <1>0, <1>1 DEF SendMessage, DispatchQueued, WindowOK
  <2>. QED BY <1>0, <1>1, <2>1, <2>2, <2>3, <2>4, <2>5 DEF Q
<1>2. CASE DispatchQueued
  <2>1. /\ UNCHANGED misled /\ Q # <<>> /\ dispatching' = Head(Q) /\ StartRun(Head(Q))
        /\ dispatching = 0 /\ sent' = sent
    BY <1>2 DEF DispatchQueued, Q
  <2>2. PICK p : p = Head(Q) OBVIOUS
  <2>3. state'.queue = state.queue BY <1>0, <2>1, <2>2, StartBegins
  <2>4. ~SendMessage BY <1>0, <2>1 DEF SendMessage, WindowOK
  <2>. QED BY <1>0, <2>1, <2>3, <2>4 DEF Q
<1>. QED BY <1>1, <1>2

(* The queue from which a prompt is removed.                                 *)
LEMMA QueueRemoved ==
  ASSUME TypeInv, RemoveQueuedPrompt
  PROVE  \E i \in DOMAIN Q :
           /\ Q \in Seq(Prompts) /\ Q' = RemoveAt(Q, i) /\ settled' = settled \union {Q[i]}
           /\ misled' = (misled \/ Q[i] = dispatching) /\ UNCHANGED dispatching
<1>0. state \in States /\ Q \in Seq(Prompts) BY DEF TypeInv, WindowOK, States, Q
<1>1. PICK i \in DOMAIN Q :
        /\ state' = [state EXCEPT !.queue = RemoveAt(Q, i)] /\ settled' = settled \union {Q[i]}
        /\ misled' = (misled \/ Q[i] = dispatching) /\ UNCHANGED dispatching
  BY DEF RemoveQueuedPrompt, Q
<1>2. PICK q : q = RemoveAt(Q, i) OBVIOUS
<1>3. Q' = q BY <1>0, <1>1, <1>2, FieldsOf DEF Q
<1>. QED BY <1>0, <1>1, <1>2, <1>3

(* What is being sent stays the head of the queue.                           *)
LEMMA HeadStep == ASSUME TypeInv, HeadIsSent, [Next]_vars PROVE HeadIsSent'
<1>0. Q \in Seq(Prompts) /\ state \in States BY DEF TypeInv, WindowOK, States, Q
<1>1. ASSUME UNCHANGED <<Q, dispatching, misled>> PROVE HeadIsSent' BY <1>1 DEF HeadIsSent
<1>2. CASE SendMessage
  <2>1. /\ Q' = Q \/ Q' = Append(Q, sent + 1)
        /\ UNCHANGED <<misled, dispatching>>
    BY <1>2, QueueSends
  <2>2. Q # <<>> => Append(Q, sent + 1) # <<>> /\ Head(Append(Q, sent + 1)) = Head(Q) BY <1>0
  <2>. QED BY <2>1, <2>2 DEF HeadIsSent
<1>3. CASE DispatchQueued BY <1>3, QueueSends DEF HeadIsSent
<1>4. CASE RemoveQueuedPrompt
  <2>1. PICK i \in DOMAIN Q : /\ Q' = RemoveAt(Q, i) /\ misled' = (misled \/ Q[i] = dispatching)
                              /\ UNCHANGED dispatching
    BY <1>4, QueueRemoved
  <2> SUFFICES ASSUME ~misled', dispatching' # 0 PROVE Q' # <<>> /\ Head(Q') = dispatching'
    BY DEF HeadIsSent
  <2>2. Q # <<>> /\ Head(Q) = dispatching /\ Q[i] # dispatching BY <2>1 DEF HeadIsSent
  <2>3. i # 1 /\ i \in 1..Len(Q) /\ Len(Q) \in Nat /\ Q[1] = dispatching BY <1>0, <2>2
  <2>4. /\ Q' \in Seq(Prompts) /\ Len(Q') = Len(Q) - 1
        /\ \A j \in 1..(Len(Q) - 1) : Q'[j] = IF j < i THEN Q[j] ELSE Q[j + 1]
    BY <1>0, <2>1, RemovedAt
  <2>5. Len(Q') >= 1 /\ Q'[1] = Q[1] BY <2>3, <2>4
  <2>. QED BY <2>1, <2>3, <2>4, <2>5
<1>5. CASE Reload \/ LeaveTab
  <2>1. dispatching' = 0 BY <1>5, Returned DEF ComesBack
  <2>. QED BY <2>1 DEF HeadIsSent
<1>6. CASE RunStarted
  <2>1. Dispatched(Head(inbox).prompt) /\ misled' = misled BY <1>6 DEF RunStarted, history
  <2>2. Q' = IF dispatching = Head(inbox).prompt /\ Q # <<>> THEN Tail(Q) ELSE Q BY <1>6, QueueAfterStart
  <2>. QED BY <2>1, <2>2 DEF HeadIsSent, Dispatched
<1>7. CASE RunRefused
  <2>1. /\ Dispatched(Head(inbox).prompt) /\ misled' = misled
        /\ dispatching # Head(inbox).prompt => state' = state
    BY <1>7 DEF RunRefused
  <2>. QED BY <2>1 DEF HeadIsSent, Dispatched, Q
<1>8. CASE \/ Interrupt \/ AnswerQuestion \/ HideSession \/ ShowSession
           \/ StopAnswered \/ HandleAgentEvent \/ UNCHANGED vars
           \/ (\E p \in Prompts : Refuse(p) \/ StartAgentRun(p)) \/ InterruptAgentRun
           \/ \E r \in Runs : ForceKill(r) \/ Cleanup(r) \/ EventQueueDrained(r)
                              \/ AskUser(r) \/ CompleteTurn(r) \/ EndChild(r)
  BY <1>1, <1>8, QueueLeft
<1>. QED BY <1>2, <1>3, <1>4, <1>5, <1>6, <1>7, <1>8 DEF Next, User, Receive

(* Prompts that were removed, refused or lost with their page or tab.        *)
GivenUp == settled \union forgotten

(* Where a prompt is that the user sent.                                     *)
Kept(p) ==
  \/ p \in GivenUp \/ (\E i \in DOMAIN Q : Q[i] = p) \/ p \in Starting \/ call[p] = "orphan"
  \/ \E r \in Forked : prompt[r] = p

(* Every prompt is kept, one by one.                                         *)
LEMMA KeptIs ==
  /\ PromptsAreKept <=> (~misled => \A p \in 1..sent : Kept(p))
  /\ PromptsAreKept' <=> (~misled' => \A p \in 1..sent' : Kept(p)')
<1>1. ToSet(state.queue) = {Q[i] : i \in DOMAIN Q} BY DEF ToSet, Q
<1>2. ToSet(state'.queue) = {Q'[i] : i \in DOMAIN Q'} BY DEF ToSet, Q
<1>3. \A p : Kept(p) <=> p \in forgotten \/ IsKept(p) BY <1>1 DEF Kept, IsKept, GivenUp
<1>4. \A p : Kept(p)' <=> p \in forgotten' \/ IsKept(p)' BY <1>2 DEF Kept, IsKept, GivenUp
<1>. QED BY <1>3, <1>4 DEF PromptsAreKept

(* A prompt that is kept stays so when it stays where it is.                 *)
LEMMA KeptByFrame ==
  ASSUME Lasting, GivenUp \subseteq GivenUp', NEW p,
         p \in Starting => Kept(p)',
         (\E i \in DOMAIN Q : Q[i] = p) => Kept(p)',
         call[p] = "orphan" => Kept(p)',
         Kept(p)
  PROVE  Kept(p)'
<1>1. CASE p \in GivenUp BY <1>1 DEF Kept
<1>2. CASE \E r \in Forked : prompt[r] = p BY <1>2 DEF Kept, Lasting
<1>. QED BY <1>1, <1>2 DEF Kept

(* No step loses a prompt.                                                   *)
LEMMA KeptStep ==
  ASSUME TypeInv, ForksInv, KnownInv, HeadIsSent, PromptsAreKept, [Next]_vars PROVE PromptsAreKept'
<1>0. /\ WindowOK /\ ChannelsOK /\ Lasting /\ Q \in Seq(Prompts) /\ state \in States
      /\ call \in [Prompts -> Calls] /\ sent \in Nat /\ sent <= MaxPrompts /\ MaxPrompts \in Nat
  BY LastingStep, AgentRunsAssumption DEF TypeInv, WindowOK, States, Q
<1>k. ASSUME sent' = sent, misled => misled', \A p \in 1..sent : ~misled /\ Kept(p) => Kept(p)'
      PROVE  PromptsAreKept'
  BY <1>k, KeptIs
<1>1. ASSUME UNCHANGED <<sent, Q>>, misled => misled', GivenUp \subseteq GivenUp', Starting \subseteq Starting',
             \A p \in Prompts : call[p] = "orphan" => Kept(p)'
      PROVE  PromptsAreKept'
  <2> SUFFICES ASSUME NEW p \in 1..sent, Kept(p) PROVE Kept(p)'
    BY <1>1, <1>k
  <2>1. p \in Prompts BY <1>0 DEF Prompts
  <2>2. p \in Starting => Kept(p)' BY <1>1 DEF Kept
  <2>3. (\E i \in DOMAIN Q : Q[i] = p) => Kept(p)' BY <1>1 DEF Kept
  <2>. QED BY <1>0, <1>1, <2>1, <2>2, <2>3, KeptByFrame
<1>2. ASSUME NEW p \in Prompts, StartRun(p), UNCHANGED <<inbox, GivenUp, misled, Q, prompt>>,
             sent' = sent \/ (sent' = sent + 1 /\ p = sent + 1)
      PROVE  PromptsAreKept'
  <2>1. Starting' = Starting \union {p} /\ \A q \in Prompts \ {p} : call'[q] = call[q]
    BY <1>0, <1>2, StartRunStarts
  <2>2. Kept(p)' BY <2>1 DEF Kept
  <2>3. ASSUME NEW q \in 1..sent, Kept(q) PROVE Kept(q)'
    <3>1. q \in Prompts BY <1>0 DEF Prompts
    <3>2. q \in Starting => Kept(q)' BY <2>1 DEF Kept
    <3>3. (\E i \in DOMAIN Q : Q[i] = q) => Kept(q)' BY <1>2 DEF Kept
    <3>4. call[q] = "orphan" => Kept(q)'
      <4>1. CASE q = p BY <2>2, <4>1
      <4>2. CASE q # p BY <2>1, <3>1, <4>2 DEF Kept
      <4>. QED BY <4>1, <4>2
    <3>. QED BY <1>0, <1>2, <2>3, <3>2, <3>3, <3>4, KeptByFrame
  <2>4. \A q \in 1..sent' : q \in 1..sent \/ q = p BY <1>0, <1>2
  <2>. QED BY <1>2, <2>2, <2>3, <2>4, KeptIs
<1>3. CASE SendMessage
  <2>0. PICK n \in Prompts : n = sent + 1 /\ sent' = n BY <1>0, <1>3 DEF SendMessage, Prompts
  <2>1. UNCHANGED <<inbox, GivenUp, prompt, misled>> BY <1>3 DEF SendMessage, chans, manager, GivenUp
  <2>2. (StartRun(n) /\ Q' = Q) \/ (UNCHANGED call /\ Q' = Append(Q, n)) BY <1>3, <2>0, QueueSends
  <2>3. CASE UNCHANGED call /\ Q' = Append(Q, n)
    <3>1. /\ Len(Q) + 1 \in DOMAIN Q' /\ Q'[Len(Q) + 1] = n
          /\ \A i \in DOMAIN Q : i \in DOMAIN Q' /\ Q'[i] = Q[i]
      BY <1>0, <2>3
    <3>2. Kept(n)' BY <3>1 DEF Kept
    <3>3. Starting' = Starting BY <2>1, <2>3 DEF Starting
    <3>4. ASSUME NEW q \in 1..sent, Kept(q) PROVE Kept(q)'
      <4>1. (\E i \in DOMAIN Q : Q[i] = q) => Kept(q)' BY <3>1 DEF Kept
      <4>2. q \in Starting => Kept(q)' BY <3>3 DEF Kept
      <4>3. call[q] = "orphan" => Kept(q)' BY <2>3 DEF Kept
      <4>. QED BY <1>0, <2>1, <3>4, <4>1, <4>2, <4>3, KeptByFrame
    <3>5. \A q \in 1..sent' : q \in 1..sent \/ q = n BY <1>0, <2>0
    <3>. QED BY <2>1, <3>2, <3>4, <3>5, KeptIs
  <2>4. CASE StartRun(n) /\ Q' = Q BY <1>2, <2>0, <2>1, <2>4
  <2>. QED BY <2>2, <2>3, <2>4
<1>4. CASE DispatchQueued
  <2>1. PICK p \in Prompts : p = Head(Q) BY <1>0, <1>4, CutQueue DEF DispatchQueued, Q
  <2>2. StartRun(p) /\ UNCHANGED <<inbox, GivenUp, prompt, sent>>
    BY <1>4, <2>1 DEF DispatchQueued, chans, manager, Q, GivenUp
  <2>3. UNCHANGED <<misled, Q>> BY <1>4, QueueSends
  <2>. QED BY <1>2, <2>2, <2>3
<1>5. CASE RemoveQueuedPrompt
  <2>1. PICK i \in DOMAIN Q :
          /\ Q' = RemoveAt(Q, i) /\ settled' = settled \union {Q[i]} /\ misled' = (misled \/ Q[i] = dispatching)
    BY <1>5, QueueRemoved
  <2>2. UNCHANGED <<call, inbox, prompt, sent, forgotten>> BY <1>5 DEF RemoveQueuedPrompt, chans, manager
  <2>3. Starting' = Starting BY <2>2 DEF Starting
  <2>4. /\ Q' \in Seq(Prompts) /\ Len(Q') = Len(Q) - 1
        /\ \A j \in 1..(Len(Q) - 1) : Q'[j] = IF j < i THEN Q[j] ELSE Q[j + 1]
    BY <1>0, <2>1, RemovedAt
  <2>5. \A j \in DOMAIN Q : j = i \/ \E k \in DOMAIN Q' : Q'[k] = Q[j]
    <3> SUFFICES ASSUME NEW j \in DOMAIN Q, j # i PROVE \E k \in DOMAIN Q' : Q'[k] = Q[j]
      OBVIOUS
    <3>1. CASE j < i
      <4>1. j \in DOMAIN Q' /\ Q'[j] = Q[j] BY <1>0, <2>4, <3>1
      <4>. QED BY <4>1
    <3>2. CASE ~(j < i)
      <4>1. j - 1 \in 1..(Len(Q) - 1) /\ ~(j - 1 < i) /\ (j - 1) + 1 = j BY <1>0, <3>2
      <4>2. j - 1 \in DOMAIN Q' /\ Q'[j - 1] = Q[j] BY <2>4, <4>1
      <4>. QED BY <4>2
    <3>. QED BY <3>1, <3>2
  <2>6. ASSUME NEW q \in 1..sent, Kept(q) PROVE Kept(q)'
    <3>1. (\E j \in DOMAIN Q : Q[j] = q) => Kept(q)' BY <2>1, <2>5 DEF Kept, GivenUp
    <3>2. q \in Starting => Kept(q)' BY <2>3 DEF Kept
    <3>3. call[q] = "orphan" => Kept(q)' BY <2>2 DEF Kept
    <3>4. GivenUp \subseteq GivenUp' BY <2>1, <2>2 DEF GivenUp
    <3>. QED BY <1>0, <2>6, <3>1, <3>2, <3>3, <3>4, KeptByFrame
  <2>. QED BY <1>k, <2>1, <2>2, <2>6
<1>6. CASE Reload \/ LeaveTab
  <2>1. UNCHANGED <<sent, prompt, misled, settled>> /\ call' \in [Prompts -> {"none", "orphan"}]
    BY <1>6, Returned, ReturnedCalls DEF ComesBack, manager
  <2>2. ToSet(state.queue) = {Q[i] : i \in DOMAIN Q} BY DEF ToSet, Q
  <2>3. /\ forgotten \union ToSet(state.queue) \subseteq forgotten'
        /\ \A q \in Prompts : q \in Starting => q \in forgotten' \/ call'[q] = "orphan"
        /\ \A q \in Prompts : call[q] = "orphan" => call'[q] = "orphan"
    <3>1. CASE Reload BY <3>1 DEF Reload, Orphaned
    <3>2. CASE LeaveTab
      <4>1. \A q \in Prompts : call[q] \in {"none", "waits", "invoked", "orphan"} BY <1>0 DEF Calls
      <4>. QED BY <3>2, <4>1 DEF LeaveTab, Orphaned
    <3>. QED BY <1>6, <3>1, <3>2
  <2>4. ASSUME NEW q \in 1..sent, Kept(q) PROVE Kept(q)'
    <3>1. (\E j \in DOMAIN Q : Q[j] = q) => Kept(q)' BY <2>2, <2>3 DEF Kept, GivenUp
    <3>2. q \in Prompts BY <1>0 DEF Prompts
    <3>3. q \in Starting => Kept(q)' BY <2>3, <3>2 DEF Kept, GivenUp
    <3>4. call[q] = "orphan" => Kept(q)' BY <2>3, <3>2 DEF Kept
    <3>5. GivenUp \subseteq GivenUp' BY <2>1, <2>3 DEF GivenUp
    <3>. QED BY <1>0, <2>4, <3>1, <3>3, <3>4, <3>5, KeptByFrame
  <2>. QED BY <1>k, <2>1, <2>4
<1>7. CASE RunStarted
  <2>1. UNCHANGED <<sent, prompt, misled, GivenUp, call>> /\ Hears /\ IsStart(Head(inbox))
    BY <1>7 DEF RunStarted, manager, history, GivenUp, Told, Hears, IsStart
  <2>2. PICK m \in MessagesOK : m = Head(inbox) /\ m = inbox[1] /\ 1 \in DOMAIN inbox BY <1>0, <2>1, Shrunk
  <2>3. m.run \in Forked /\ prompt[m.run] = m.prompt /\ m.prompt # 0
    BY <2>1, <2>2 DEF KnownInv, Heard, IsStart, Forked
  <2>4. Kept(m.prompt)'
    <3>1. PICK p : p = m.prompt OBVIOUS
    <3>2. m.run \in Forked' /\ prompt'[m.run] = p BY <2>1, <2>3, <3>1 DEF Forked
    <3>3. Kept(p)' BY <3>2 DEF Kept
    <3>. QED BY <3>1, <3>3
  <2>5. Starting \subseteq Starting' \union {m.prompt} BY <1>7, <2>2, AnswerRead
  <2>6. Q' = IF dispatching = m.prompt /\ Q # <<>> THEN Tail(Q) ELSE Q BY <1>7, <2>2, QueueAfterStart
  <2>7. ASSUME NEW q \in 1..sent, ~misled, Kept(q) PROVE Kept(q)'
    <3>1. (\E j \in DOMAIN Q : Q[j] = q) => Kept(q)'
      <4> SUFFICES ASSUME NEW j \in DOMAIN Q, Q[j] = q PROVE Kept(q)'
        OBVIOUS
      <4>1. CASE ~(dispatching = m.prompt /\ Q # <<>>) BY <2>6, <4>1 DEF Kept
      <4>2. CASE dispatching = m.prompt /\ Q # <<>>
        <5>1. Head(Q) = m.prompt BY <2>3, <2>7, <4>2 DEF HeadIsSent
        <5>2. CASE j = 1
          <6>1. q = m.prompt BY <1>0, <4>2, <5>1, <5>2
          <6>. QED BY <2>4, <6>1
        <5>3. CASE j # 1
          <6>1. j - 1 \in DOMAIN Q' /\ Q'[j - 1] = q BY <1>0, <2>6, <4>2, <5>3
          <6>. QED BY <6>1 DEF Kept
        <5>. QED BY <5>2, <5>3
      <4>. QED BY <4>1, <4>2
    <3>2. q \in Starting => Kept(q)'
      <4>1. CASE q = m.prompt BY <2>4, <4>1
      <4>2. CASE q # m.prompt BY <2>5, <4>2 DEF Kept
      <4>. QED BY <4>1, <4>2
    <3>3. call[q] = "orphan" => Kept(q)' BY <2>1 DEF Kept
    <3>. QED BY <1>0, <2>1, <2>7, <3>1, <3>2, <3>3, KeptByFrame
  <2>. QED BY <1>k, <2>1, <2>7
<1>8. CASE RunRefused
  <2>0. PICK p : p = Head(inbox).prompt OBVIOUS
  <2>1. /\ UNCHANGED <<sent, prompt, misled, forgotten, call>>
        /\ settled' = settled \union {p} \union (IF dispatching = p THEN ToSet(state.queue) ELSE {})
        /\ dispatching # p => state' = state
    BY <1>8, <2>0 DEF RunRefused, manager
  <2>2. ToSet(state.queue) = {Q[i] : i \in DOMAIN Q} BY DEF ToSet, Q
  <2>3. Starting \subseteq Starting' \union {p} BY <1>8, <2>0, AnswerRead
  <2>4. ASSUME NEW q \in 1..sent, Kept(q) PROVE Kept(q)'
    <3>1. (\E j \in DOMAIN Q : Q[j] = q) => Kept(q)'
      <4>1. CASE dispatching = p BY <2>1, <2>2, <4>1 DEF Kept, GivenUp
      <4>2. CASE dispatching # p
        <5>1. Q' = Q BY <2>1, <4>2 DEF Q
        <5>. QED BY <5>1 DEF Kept
      <4>. QED BY <4>1, <4>2
    <3>2. q \in Starting => Kept(q)' BY <2>1, <2>3 DEF Kept, GivenUp
    <3>3. call[q] = "orphan" => Kept(q)' BY <2>1 DEF Kept
    <3>4. GivenUp \subseteq GivenUp' BY <2>1 DEF GivenUp
    <3>. QED BY <1>0, <2>4, <3>1, <3>2, <3>3, <3>4, KeptByFrame
  <2>. QED BY <1>k, <2>1, <2>4
<1>9. ASSUME NEW p \in Prompts, Refuse(p) \/ StartAgentRun(p) PROVE PromptsAreKept'
  <2>1. UNCHANGED <<sent, Q, misled>> BY <1>9, QueueLeft
  <2>2. /\ call' = [call EXCEPT ![p] = "none"] /\ GivenUp \subseteq GivenUp'
        /\ Refuse(p) /\ call[p] = "orphan" => p \in GivenUp'
    BY <1>9 DEF Refuse, StartAgentRun, GivenUp
  <2>3. Starting' = Starting BY <1>9, CallEnds
  <2>4. StartAgentRun(p) => \E r \in Forked' : prompt'[r] = p
    <3> SUFFICES ASSUME StartAgentRun(p) PROVE \E r \in Forked' : prompt'[r] = p
      OBVIOUS
    <3>1. PICK r \in Runs : \E new : ForksFor(p, r, new) BY ForkFacts
    <3>. QED BY <3>1 DEF ForksFor, Forked
  <2>5. \A q \in Prompts : call[q] = "orphan" => Kept(q)'
    <3> SUFFICES ASSUME NEW q \in Prompts, call[q] = "orphan" PROVE Kept(q)'
      OBVIOUS
    <3>1. CASE q # p
      <4>1. call'[q] = "orphan" BY <1>0, <2>2, <3>1
      <4>. QED BY <4>1 DEF Kept
    <3>2. CASE q = p BY <1>9, <2>2, <2>4, <3>2 DEF Kept
    <3>. QED BY <3>1, <3>2
  <2>. QED BY <1>1, <2>1, <2>2, <2>3, <2>5
<1>10. CASE \/ Interrupt \/ AnswerQuestion \/ HideSession \/ ShowSession \/ UNCHANGED vars
            \/ StopAnswered \/ HandleAgentEvent \/ InterruptAgentRun
            \/ \E r \in Runs : ForceKill(r) \/ Cleanup(r) \/ EventQueueDrained(r)
                               \/ AskUser(r) \/ CompleteTurn(r) \/ EndChild(r)
  <2>1. UNCHANGED <<sent, Q, misled>> BY <1>10, QueueLeft
  <2>2. GivenUp' = GivenUp /\ (call' = call \/ StopAnswered)
    BY <1>10 DEF GivenUp, Interrupt, AnswerQuestion, HideSession, ShowSession, vars, StopAnswered, HandleAgentEvent, InterruptAgentRun, ForceKill,
                 Cleanup, EventQueueDrained, AskUser, CompleteTurn, EndChild, window, history
  <2>3. Starting' = Starting
    <3>1. CASE Interrupt \/ AnswerQuestion \/ HideSession \/ ShowSession \/ UNCHANGED vars
      <4>1. UNCHANGED <<call, inbox>>
        BY <3>1 DEF Interrupt, AnswerQuestion, HideSession, ShowSession, vars, window, chans
      <4>. QED BY <4>1 DEF Starting
    <3>2. CASE ~(Interrupt \/ AnswerQuestion \/ HideSession \/ ShowSession \/ UNCHANGED vars)
      BY <1>0, <1>10, <2>2, <3>2, RunOnlyGoesOn, StartingKept
    <3>. QED BY <3>1, <3>2
  <2>4. \A q \in Prompts : call[q] = "orphan" => call'[q] = "orphan" BY <2>2 DEF StopAnswered
  <2>5. \A q \in Prompts : call[q] = "orphan" => Kept(q)' BY <2>4 DEF Kept
  <2>. QED BY <1>1, <2>1, <2>2, <2>3, <2>5
<1>. QED BY <1>3, <1>4, <1>5, <1>6, <1>7, <1>8, <1>9, <1>10 DEF Next, User, Receive

(* No step breaks any of it.                                                 *)
LEMMA AgreeStep == TypeInv /\ AgreeInv /\ [Next]_vars => AgreeInv'
  BY ForksStep, KnownStep, OrderStep, WindowInvStep, EndStep, SeenStep, StopsStep, HeadStep, KeptStep DEF AgreeInv

(* What the window and the main process believe of a session's runs agrees.  *)
THEOREM RunsAreRightHolds == Spec => []RunsAreRight
<1>1. TypeInv /\ [Next]_vars => TypeInv'
  BY ManagerStep, ChannelsStep, WindowStep, StopPendingStep DEF TypeInv
<1>2. Init => TypeInv /\ AgreeInv BY InitTypes, InitAgree
<1>3. TypeInv /\ AgreeInv /\ PromptsRunOnce => RunsAreRight BY AgreeIsEnough DEF RunsAreRight
<1>. QED BY <1>1, <1>2, <1>3, AgreeStep, PromptsRunOnceHolds, PTL DEF Spec
=============================================================================
