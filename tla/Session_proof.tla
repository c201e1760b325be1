---------------------------- MODULE Session_proof ----------------------------
(***************************************************************************)
(* The requests to end, restart and save, proved for any number of them,   *)
(* of changes, of saves of the manager and of lost connections.            *)
(*                                                                         *)
(* OneDone is not inductive: a SaveYourselfDone is sent when a message     *)
(* arrives, so the invariant follows the one question from the manager to  *)
(* the answer (OneAnswer: a question in s2c, a request for the second      *)
(* phase or an answer in c2s, never two of them, and sent_save_done set    *)
(* when a cancellation behind it must not be answered too).  RequestKept   *)
(* needs what save_complete_fn stands for (LastAsked), and that the        *)
(* session is saved and the hint sent before the answer (SavedBefore).     *)
(***************************************************************************)
EXTENDS Session, SequenceTheorems, TLAPS

\* The messages that have still to be answered, and the answers
In(messages, m) == {i \in DOMAIN messages : messages[i] = m}
Asks == In(s2c, "SaveYourself") \cup In(s2c, "SaveYourselfPhase2")
Cancels == In(s2c, "ShutdownCancelled")
PhaseRequests == Of(c2s, "SaveYourselfPhase2Request")

\* The types, the bound of the changes, and that only the hook leaves a function
Bounded ==
  /\ TypeOK
  /\ left \in [changes : Nat, requests : Nat, saves : Nat, breaks : Nat]
  /\ session + left.changes <= MaxChanges
  /\ save_complete_fn # "none" => smhook

\* For each SaveYourself there is one message that leads to the answer, or the
\* answer; sent_save_done tells whether a cancellation on the way is to be answered.
OneAnswer ==
  /\ sm.phase \in {"idle", "saved", "over"} => Asks = {} /\ PhaseRequests = {} /\ Dones = {}
  /\ sm.phase = "saved" => sent_save_done
  /\ \A i, j \in Asks : i = j
  /\ \A i, j \in PhaseRequests : i = j
  /\ \A i, j \in Dones : i = j
  /\ Asks # {} => PhaseRequests = {} /\ Dones = {}
  /\ \A i \in PhaseRequests, j \in Dones : i < j
  /\ ~sent_save_done => Dones = {}
  /\ Cancels # {} => sent_save_done \/ sm.phase = "cancelled"
  /\ \A i \in Cancels, j \in Asks : i < j => sent_save_done
  /\ sm.phase = "saving" =>
       /\ PhaseRequests = {} \/ Dones = {}
       /\ \A i \in Asks : s2c[i] = "SaveYourself"
       /\ \A i \in Cancels : \E j \in Asks : i < j
  /\ sm.phase = "phase2" =>
       /\ PhaseRequests = {} /\ Cancels = {}
       /\ \A i \in Asks : s2c[i] = "SaveYourselfPhase2"

\* save_complete_fn is that of the last request
LastAsked ==
  /\ save_complete_fn = "sm_exit" => asked.what = "restart" /\ restart_hint = "Immediately"
  /\ save_complete_fn = "sm_restart" => asked.what = "restart_other" /\ other = asked.cmd
  /\ wm = "left" => asked.what = "restart" /\ smhook
  /\ wm = "restarted" => asked.what \in {"restart", "restart_other"} /\ other = asked.cmd

\* When the answer is under way, or has come, what is to happen has been saved
\* and the hint published
Answered ==
  Dones # {} \/ sm.phase = "saved" \/ In(s2c, "SaveComplete") # {} \/ wm \in {"left", "restarted"}
SavedBefore ==
  smhook /\ ~asked.crossing /\ ~asked.failed /\ Answered =>
    /\ save_complete_fn # "none" \/ wm \in {"left", "restarted"} => saved >= asked.at
    /\ save_complete_fn = "sm_exit" \/ wm = "left" => LastHint("Immediately")

SessionInv == Bounded /\ OneAnswer /\ LastAsked /\ SavedBefore

\* What the manager does with a message
SentTo(m) ==
  CASE m.type = "SaveYourselfRequest" ->
         waiting' = Append(waiting, m.shutdown) /\ UNCHANGED <<sm, s2c>>
    [] m.type = "SetProperties" ->
         sm' = [sm EXCEPT !.hint = m.hint] /\ UNCHANGED <<waiting, s2c>>
    [] m.type = "SaveYourselfDone" ->
         /\ sm' = [sm EXCEPT !.phase = IF @ = "cancelled" THEN "idle" ELSE "saved"]
         /\ UNCHANGED <<waiting, s2c>>
    [] m.type = "SaveYourselfPhase2Request" ->
         /\ IF sm.phase = "saving"
            THEN sm' = [sm EXCEPT !.phase = "phase2"] /\ s2c' = Append(s2c, "SaveYourselfPhase2")
            ELSE UNCHANGED <<sm, s2c>>
         /\ UNCHANGED waiting

-----------------------------------------------------------------------------
(* Messages *)

\* The messages to the manager are of the four kinds.
LEMMA MessageTypes ==
  /\ \A b \in BOOLEAN : Request(b) \in ToSm /\ Request(b).type = "SaveYourselfRequest"
  /\ Phase2Request \in ToSm /\ Phase2Request.type = "SaveYourselfPhase2Request"
  /\ \A b \in BOOLEAN : Done(b) \in ToSm /\ Done(b).type = "SaveYourselfDone"
  /\ \A h \in Hints : Props(h) \in ToSm /\ Props(h).type = "SetProperties" /\ Props(h).hint = h
BY DEF ToSm, Request, Phase2Request, Done, Props

\* A message that is sent to the manager comes last.
LEMMA Sent ==
  ASSUME NEW q \in Seq(ToSm), NEW m \in ToSm
  PROVE  /\ Append(q, m) \in Seq(ToSm) /\ Len(q) \in Nat /\ Append(q, m)[Len(q) + 1] = m
         /\ \A i \in 1 .. Len(q) : Append(q, m)[i] = q[i]
         /\ \A t : /\ Of(q, t) \subseteq 1 .. Len(q)
                   /\ m.type = t => Of(Append(q, m), t) = Of(q, t) \cup {Len(q) + 1}
                   /\ m.type # t => Of(Append(q, m), t) = Of(q, t)
<1>1. /\ Append(q, m) \in Seq(ToSm) /\ Len(q) \in Nat /\ Append(q, m)[Len(q) + 1] = m
      /\ \A i \in 1 .. Len(q) : Append(q, m)[i] = q[i]
      /\ Len(Append(q, m)) = Len(q) + 1
  BY AppendProperties
<1>2. DOMAIN q = 1 .. Len(q) /\ DOMAIN Append(q, m) = 1 .. Len(q) + 1
  BY <1>1
<1>3. 1 .. Len(q) + 1 = 1 .. Len(q) \cup {Len(q) + 1}
  BY <1>1
<1> DEFINE r == Append(q, m)
<1> HIDE DEF r
<1>4. ASSUME NEW t
      PROVE  /\ Of(q, t) \subseteq 1 .. Len(q)
             /\ m.type = t => Of(r, t) = Of(q, t) \cup {Len(q) + 1}
             /\ m.type # t => Of(r, t) = Of(q, t)
  BY <1>1, <1>2, <1>3 DEF Of, r
<1> QED BY <1>1, <1>4 DEF r

\* One that the manager takes was the first.
LEMMA Taken ==
  ASSUME NEW q \in Seq(ToSm), q # <<>>
  PROVE  /\ Tail(q) \in Seq(ToSm) /\ Head(q) \in ToSm /\ Head(q) = q[1] /\ Len(q) \in Nat \ {0}
         /\ \A t : /\ 1 \in Of(q, t) <=> Head(q).type = t
                   /\ \A i \in Of(Tail(q), t) : i \in Nat \ {0} /\ i + 1 \in Of(q, t) /\ Tail(q)[i] = q[i + 1]
                   /\ \A i \in Of(q, t) : i \in Nat \ {0} /\ (i = 1 \/ i - 1 \in Of(Tail(q), t))
<1>1. /\ Tail(q) \in Seq(ToSm) /\ Head(q) \in ToSm /\ Head(q) = q[1] /\ Len(q) \in Nat \ {0}
      /\ Len(Tail(q)) = Len(q) - 1 /\ \A i \in 1 .. Len(Tail(q)) : Tail(q)[i] = q[i + 1]
  BY HeadTailProperties
<1>2. DOMAIN q = 1 .. Len(q) /\ DOMAIN Tail(q) = 1 .. Len(q) - 1
  BY <1>1
<1> DEFINE r == Tail(q)
<1> HIDE DEF r
<1>3. ASSUME NEW t
      PROVE  /\ 1 \in Of(q, t) <=> Head(q).type = t
             /\ \A i \in Of(r, t) : i \in Nat \ {0} /\ i + 1 \in Of(q, t) /\ r[i] = q[i + 1]
             /\ \A i \in Of(q, t) : i \in Nat \ {0} /\ (i = 1 \/ i - 1 \in Of(r, t))
  <2>1. \A i \in 1 .. Len(q) - 1 : i + 1 \in 1 .. Len(q) /\ r[i] = q[i + 1]
    BY <1>1 DEF r
  <2>2. \A i \in 1 .. Len(q) : i = 1 \/ (i - 1 \in 1 .. Len(q) - 1 /\ (i - 1) + 1 = i)
    BY <1>1
  <2> QED BY <1>1, <1>2, <2>1, <2>2 DEF Of, r
<1> QED BY <1>1, <1>3 DEF r

\* The same for messages of the manager.
LEMMA SentBack ==
  ASSUME NEW q \in Seq(FromSm), NEW m \in FromSm
  PROVE  /\ Append(q, m) \in Seq(FromSm) /\ Len(q) \in Nat /\ Append(q, m)[Len(q) + 1] = m
         /\ \A i \in 1 .. Len(q) : Append(q, m)[i] = q[i]
         /\ \A t : /\ In(q, t) \subseteq 1 .. Len(q)
                   /\ m = t => In(Append(q, m), t) = In(q, t) \cup {Len(q) + 1}
                   /\ m # t => In(Append(q, m), t) = In(q, t)
<1>1. /\ Append(q, m) \in Seq(FromSm) /\ Len(q) \in Nat /\ Append(q, m)[Len(q) + 1] = m
      /\ \A i \in 1 .. Len(q) : Append(q, m)[i] = q[i]
      /\ Len(Append(q, m)) = Len(q) + 1
  BY AppendProperties
<1>2. DOMAIN q = 1 .. Len(q) /\ DOMAIN Append(q, m) = 1 .. Len(q) + 1
  BY <1>1
<1>3. 1 .. Len(q) + 1 = 1 .. Len(q) \cup {Len(q) + 1}
  BY <1>1
<1> DEFINE r == Append(q, m)
<1> HIDE DEF r
<1>4. ASSUME NEW t
      PROVE  /\ In(q, t) \subseteq 1 .. Len(q)
             /\ m = t => In(r, t) = In(q, t) \cup {Len(q) + 1}
             /\ m # t => In(r, t) = In(q, t)
  BY <1>1, <1>2, <1>3 DEF In, r
<1> QED BY <1>1, <1>4 DEF r

\* One that the window manager takes was the first too.
LEMMA TakenBack ==
  ASSUME NEW q \in Seq(FromSm), q # <<>>
  PROVE  /\ Tail(q) \in Seq(FromSm) /\ Head(q) \in FromSm /\ Head(q) = q[1] /\ Len(q) \in Nat \ {0}
         /\ \A t : /\ 1 \in In(q, t) <=> Head(q) = t
                   /\ \A i \in In(Tail(q), t) : i \in Nat \ {0} /\ i + 1 \in In(q, t) /\ Tail(q)[i] = q[i + 1]
                   /\ \A i \in In(q, t) : i \in Nat \ {0} /\ (i = 1 \/ i - 1 \in In(Tail(q), t))
<1>1. /\ Tail(q) \in Seq(FromSm) /\ Head(q) \in FromSm /\ Head(q) = q[1] /\ Len(q) \in Nat \ {0}
      /\ Len(Tail(q)) = Len(q) - 1 /\ \A i \in 1 .. Len(Tail(q)) : Tail(q)[i] = q[i + 1]
  BY HeadTailProperties
<1>2. DOMAIN q = 1 .. Len(q) /\ DOMAIN Tail(q) = 1 .. Len(q) - 1
  BY <1>1
<1> DEFINE r == Tail(q)
<1> HIDE DEF r
<1>3. ASSUME NEW t
      PROVE  /\ 1 \in In(q, t) <=> Head(q) = t
             /\ \A i \in In(r, t) : i \in Nat \ {0} /\ i + 1 \in In(q, t) /\ r[i] = q[i + 1]
             /\ \A i \in In(q, t) : i \in Nat \ {0} /\ (i = 1 \/ i - 1 \in In(r, t))
  <2>1. \A i \in 1 .. Len(q) - 1 : i + 1 \in 1 .. Len(q) /\ r[i] = q[i + 1]
    BY <1>1 DEF r
  <2>2. \A i \in 1 .. Len(q) : i = 1 \/ (i - 1 \in 1 .. Len(q) - 1 /\ (i - 1) + 1 = i)
    BY <1>1
  <2> QED BY <1>1, <1>2, <2>1, <2>2 DEF In, r
<1> QED BY <1>1, <1>3 DEF r

\* What is sent, in terms of the messages the answers depend on
LEMMA OnTheWay ==
  ASSUME NEW q \in Seq(ToSm), NEW m \in ToSm, NEW t
  PROVE  /\ Of(q, t) \subseteq 1 .. Len(q) /\ Len(q) \in Nat
         /\ m.type = t => Of(Append(q, m), t) = Of(q, t) \cup {Len(q) + 1}
         /\ m.type # t => Of(Append(q, m), t) = Of(q, t)
<1> DEFINE r == Append(q, m)
<1>1. Len(q) \in Nat
  BY Sent
<1>2. \A u : /\ Of(q, u) \subseteq 1 .. Len(q)
             /\ m.type = u => Of(r, u) = Of(q, u) \cup {Len(q) + 1}
             /\ m.type # u => Of(r, u) = Of(q, u)
  BY Sent
<1> HIDE DEF r
<1>3. QED BY <1>1, <1>2 DEF r

\* A message to the manager, in terms of what an answer depends on
LEMMA ToManager ==
  ASSUME c2s \in Seq(ToSm), NEW m \in ToSm, c2s' = Append(c2s, m)
  PROVE  /\ PhaseRequests \subseteq 1 .. Len(c2s) /\ Dones \subseteq 1 .. Len(c2s) /\ Len(c2s) \in Nat
         /\ m.type = "SaveYourselfPhase2Request" =>
              PhaseRequests' = PhaseRequests \cup {Len(c2s) + 1} /\ Dones' = Dones
         /\ m.type = "SaveYourselfDone" =>
              PhaseRequests' = PhaseRequests /\ Dones' = Dones \cup {Len(c2s) + 1}
         /\ m.type \in {"SaveYourselfRequest", "SetProperties"} =>
              PhaseRequests' = PhaseRequests /\ Dones' = Dones
<1>1. /\ PhaseRequests = Of(c2s, "SaveYourselfPhase2Request")
      /\ PhaseRequests' = Of(Append(c2s, m), "SaveYourselfPhase2Request")
  BY DEF PhaseRequests
<1>2. /\ Dones = Of(c2s, "SaveYourselfDone")
      /\ Dones' = Of(Append(c2s, m), "SaveYourselfDone")
  BY DEF Dones
<1> QED BY <1>1, <1>2, OnTheWay

\* A message of the manager, in terms of what an answer depends on
LEMMA FromManager ==
  ASSUME s2c \in Seq(FromSm), NEW m \in FromSm, s2c' = Append(s2c, m)
  PROVE  /\ Asks \subseteq 1 .. Len(s2c) /\ Cancels \subseteq 1 .. Len(s2c) /\ Len(s2c) \in Nat
         /\ \A i \in 1 .. Len(s2c) : s2c'[i] = s2c[i]
         /\ s2c'[Len(s2c) + 1] = m
         /\ m \in {"SaveYourself", "SaveYourselfPhase2"} =>
              Asks' = Asks \cup {Len(s2c) + 1} /\ Cancels' = Cancels
         /\ m = "ShutdownCancelled" => Asks' = Asks /\ Cancels' = Cancels \cup {Len(s2c) + 1}
         /\ m \in {"SaveComplete", "Die"} => Asks' = Asks /\ Cancels' = Cancels
<1>1. ASSUME NEW t
      PROVE  /\ In(s2c, t) \subseteq 1 .. Len(s2c)
             /\ m = t => In(s2c', t) = In(s2c, t) \cup {Len(s2c) + 1}
             /\ m # t => In(s2c', t) = In(s2c, t)
  BY SentBack
<1>2. Asks = In(s2c, "SaveYourself") \cup In(s2c, "SaveYourselfPhase2")
  BY DEF Asks
<1>3. Asks' = In(s2c', "SaveYourself") \cup In(s2c', "SaveYourselfPhase2")
  BY DEF Asks
<1>4. Cancels = In(s2c, "ShutdownCancelled") /\ Cancels' = In(s2c', "ShutdownCancelled")
  BY DEF Cancels
<1>5. /\ Len(s2c) \in Nat /\ s2c'[Len(s2c) + 1] = m
      /\ \A i \in 1 .. Len(s2c) : s2c'[i] = s2c[i]
  BY SentBack
<1> QED BY <1>1, <1>2, <1>3, <1>4, <1>5

\* Two messages are sent one after the other.
LEMMA TwoSent ==
  ASSUME NEW q \in Seq(ToSm), NEW m \in ToSm, NEW n \in ToSm
  PROVE  q \o <<m>> \o <<n>> = Append(Append(q, m), n)
OBVIOUS
-----------------------------------------------------------------------------
(* Types *)

\* Each operation, handler and step of the manager keeps the types.
LEMMA BoundedStep == Bounded /\ [Next]_vars => Bounded'
<1> SUFFICES ASSUME Bounded, [Next]_vars PROVE Bounded'
  OBVIOUS
<1> USE SessionAssumption
<1>1. /\ c2s \in Seq(ToSm) /\ s2c \in Seq(FromSm) /\ waiting \in Seq(BOOLEAN)
      /\ session \in Nat /\ saved \in Nat /\ MaxChanges \in Nat
  BY DEF Bounded, TypeOK
<1>2. \A b \in BOOLEAN : Append(c2s, Request(b)) \in Seq(ToSm)
  BY <1>1, MessageTypes, Sent
<1>3. \A h \in Hints : Append(c2s, Props(h)) \in Seq(ToSm)
  BY <1>1, MessageTypes, Sent
<1>4. \A b \in BOOLEAN : Append(c2s, Done(b)) \in Seq(ToSm)
  BY <1>1, MessageTypes, Sent
<1>5. Append(c2s, Phase2Request) \in Seq(ToSm)
  BY <1>1, MessageTypes, Sent
<1>6. \A m \in FromSm : Append(s2c, m) \in Seq(FromSm)
  BY <1>1, SentBack
<1>7. \A b \in BOOLEAN : Append(waiting, b) \in Seq(BOOLEAN)
  BY <1>1
<1>8. ASSUME NEW what \in Requests \ {"none"}, NEW cmd \in Cmds \cup {None}, NEW ok \in BOOLEAN,
             (cmd = None) = (what # "restart_other"), Do(what, cmd, ok), MayRequest
      PROVE  Bounded'
  <2>1. /\ asked' \in [what : Requests, at : 0 .. session, cmd : Cmds \cup {None},
                       crossing : BOOLEAN, failed : BOOLEAN]
        /\ smhook' = smhook /\ sm_conn' = sm_conn /\ sent_save_done' = sent_save_done
        /\ session' = session /\ sm' = sm /\ waiting' = waiting /\ s2c' = s2c
    BY <1>1, <1>8 DEF Do, Ask, Saving
  <2>2. left' \in [changes : Nat, requests : Nat, saves : Nat, breaks : Nat] /\ left'.changes = left.changes
    BY <1>8 DEF MayRequest, Bounded
  <2>3. other' \in Cmds \cup {None}
    BY <1>8 DEF Do, SetOther, Bounded, TypeOK
  <2>4. CASE smhook
    <3>1. saved' = saved /\ Smhook(what)
      BY <1>8, <2>4 DEF Do
    <3>2. /\ save_complete_fn' = SaveCompleteFn(what) /\ save_complete_fn' \in {"none", "sm_exit", "sm_restart"}
          /\ save_complete_fn' = "sm_restart" => what = "restart_other"
      BY <3>1 DEF Smhook, SaveCompleteFn
    <3>3. what = "restart_other" => other' = cmd /\ cmd # None
      BY <1>8 DEF Do, SetOther
    <3>4. restart_hint' \in Hints
      BY <3>1 DEF Smhook, Hints
    <3>5. wm' \in Ended \cup {"running"} /\ some_sent' \in BOOLEAN /\ c2s' \in Seq(ToSm)
      BY <1>1, <1>2, <1>3, <3>1, <3>4 DEF Smhook, End, Ended, Bounded, TypeOK
    <3> QED BY <2>1, <2>2, <2>3, <2>4, <3>1, <3>2, <3>3, <3>4, <3>5 DEF Bounded, TypeOK
  <2>5. CASE ~smhook
    <3>1. NoSmhook(what, ok)
      BY <1>8, <2>5 DEF Do
    <3>2. UNCHANGED <<save_complete_fn, restart_hint, some_sent, c2s>> /\ wm' \in Ended \cup {"running"}
      BY <3>1 DEF NoSmhook, End, Ended, Bounded, TypeOK
    <3>3. saved' \in 0 .. session
      BY <1>1, <3>1 DEF NoSmhook, DoSnapshot, Bounded, TypeOK
    <3> QED BY <2>1, <2>2, <2>3, <2>5, <3>2, <3>3 DEF Bounded, TypeOK
  <2> QED BY <2>4, <2>5 DEF Bounded, TypeOK
<1>9. CASE Change
  <2>1. /\ left.changes \in Nat \ {0} /\ left'.changes = left.changes - 1 /\ session' = session + 1
        /\ left' \in [changes : Nat, requests : Nat, saves : Nat, breaks : Nat]
    BY <1>9 DEF Change, Bounded
  <2>2. UNCHANGED core /\ UNCHANGED <<saved, asked>> /\ UNCHANGED net
    BY <1>9 DEF Change
  <2>3. /\ session' \in 0 .. MaxChanges /\ session' + left'.changes <= MaxChanges
        /\ saved \in 0 .. session' /\ 0 .. session \subseteq 0 .. session'
    BY <1>1, <2>1 DEF Bounded, TypeOK
  <2>4. asked \in [what : Requests, at : 0 .. session', cmd : Cmds \cup {None},
                   crossing : BOOLEAN, failed : BOOLEAN]
    BY <2>3 DEF Bounded, TypeOK
  <2> QED BY <2>1, <2>2, <2>3, <2>4 DEF core, net, Bounded, TypeOK
<1>10. CASE UserRequest
  BY <1>8, <1>10 DEF UserRequest
<1>11. CASE Usr1
  <2>1. CASE smhook
    <3>1. /\ UNCHANGED <<smhook, sm_conn, save_complete_fn, sent_save_done, restart_hint,
                           some_sent, other>> /\ UNCHANGED data /\ UNCHANGED net
          /\ wm' \in Ended
      BY <1>11, <2>1 DEF Usr1, End, Ended
    <3>2. left' \in [changes : Nat, requests : Nat, saves : Nat, breaks : Nat] /\ left'.changes = left.changes
      BY <1>11 DEF Usr1, MayRequest, Bounded
    <3> QED BY <3>1, <3>2 DEF data, net, Bounded, TypeOK
  <2>2. CASE ~smhook
    <3>1. PICK ok \in BOOLEAN : Do("restart", None, ok)
      BY <1>11, <2>2 DEF Usr1
    <3> QED BY <1>8, <1>11, <3>1 DEF Usr1, Requests
  <2> QED BY <2>1, <2>2
<1>12. CASE Term
  <2>1. /\ asked' \in [what : Requests, at : 0 .. session, cmd : Cmds \cup {None},
                       crossing : BOOLEAN, failed : BOOLEAN]
        /\ smhook' = smhook /\ sm_conn' = sm_conn /\ sent_save_done' = sent_save_done
        /\ session' = session /\ sm' = sm /\ waiting' = waiting /\ s2c' = s2c /\ other' = other
    BY <1>1, <1>12 DEF Term, Ask, Saving, Requests
  <2>2. left' \in [changes : Nat, requests : Nat, saves : Nat, breaks : Nat] /\ left'.changes = left.changes
    BY <1>12 DEF Term, MayRequest, Bounded
  <2>3. saved' \in 0 .. session
    BY <1>1, <1>12 DEF Term, DoSnapshot, Bounded, TypeOK
  <2>4. CASE smhook
    <3>1. Smhook("resign")
      BY <1>12, <2>4 DEF Term
    <3>2. save_complete_fn' = "none" /\ restart_hint' \in Hints
      BY <3>1 DEF Smhook, SaveCompleteFn, Hints
    <3>3. wm' \in Ended \cup {"running"} /\ some_sent' \in BOOLEAN /\ c2s' \in Seq(ToSm)
      BY <1>1, <1>2, <1>3, <3>1, <3>2 DEF Smhook, End, Ended, Bounded, TypeOK
    <3> QED BY <2>1, <2>2, <2>3, <3>2, <3>3 DEF Bounded, TypeOK
  <2>5. CASE ~smhook
    BY <1>12, <2>1, <2>2, <2>3, <2>5 DEF Term, End, Ended, Bounded, TypeOK
  <2> QED BY <2>4, <2>5
<1>13. CASE Deadly
  <2>1. saved' \in 0 .. session
    BY <1>1, <1>13 DEF Deadly, DoSnapshot, Bounded, TypeOK
  <2>2. /\ UNCHANGED <<smhook, sm_conn, save_complete_fn, sent_save_done, restart_hint,
                         some_sent, other, session, asked>> /\ UNCHANGED net /\ wm' \in Ended
    BY <1>13 DEF Deadly, End, Ended
  <2>3. left' \in [changes : Nat, requests : Nat, saves : Nat, breaks : Nat] /\ left'.changes = left.changes
    BY <1>13 DEF Deadly, MayRequest, Bounded
  <2> QED BY <2>1, <2>2, <2>3 DEF net, Bounded, TypeOK
<1>14. ASSUME NEW m, Receive(m)
       PROVE  /\ s2c' \in Seq(FromSm)
              /\ UNCHANGED <<smhook, sm_conn, restart_hint, other, session, sm, waiting, left>>
  BY <1>1, <1>14, TakenBack DEF Receive
<1>15. CASE RecvSaveYourself
  <2>1. /\ s2c' \in Seq(FromSm)
        /\ UNCHANGED <<smhook, sm_conn, restart_hint, other, session, sm, waiting, left>>
        /\ UNCHANGED <<wm, save_complete_fn, some_sent, saved>> /\ sent_save_done' \in BOOLEAN
    BY <1>14, <1>15 DEF RecvSaveYourself
  <2>2. c2s' \in Seq(ToSm)
    BY <1>4, <1>5, <1>15 DEF RecvSaveYourself
  <2>3. asked' \in [what : Requests, at : 0 .. session, cmd : Cmds \cup {None},
                    crossing : BOOLEAN, failed : BOOLEAN]
    BY <1>15 DEF RecvSaveYourself, Bounded, TypeOK
  <2> QED BY <2>1, <2>2, <2>3 DEF Bounded, TypeOK
<1>16. CASE RecvPhase2
  <2>1. /\ s2c' \in Seq(FromSm)
        /\ UNCHANGED <<smhook, sm_conn, restart_hint, other, session, sm, waiting, left>>
        /\ UNCHANGED <<wm, save_complete_fn>> /\ sent_save_done' \in BOOLEAN
    BY <1>14, <1>16 DEF RecvPhase2
  <2>2. PICK ok \in BOOLEAN :
          /\ DoSnapshot(TRUE, ok)
          /\ c2s' = c2s \o (IF ok THEN <<Props(restart_hint)>> ELSE <<>>) \o <<Done(ok)>>
          /\ some_sent' = (some_sent \/ ok)
          /\ asked' = [asked EXCEPT !.failed = @ \/ ~ok]
    BY <1>16 DEF RecvPhase2
  <2>3. restart_hint \in Hints
    BY DEF Bounded, TypeOK
  <2>4. c2s' \in Seq(ToSm)
    BY <1>1, <2>2, <2>3, MessageTypes
  <2>5. saved' \in 0 .. session
    BY <1>1, <2>2 DEF DoSnapshot, Bounded, TypeOK
  <2>6. asked' \in [what : Requests, at : 0 .. session, cmd : Cmds \cup {None},
                    crossing : BOOLEAN, failed : BOOLEAN]
    BY <2>2 DEF Bounded, TypeOK
  <2> QED BY <2>1, <2>2, <2>4, <2>5, <2>6 DEF Bounded, TypeOK
<1>17. CASE RecvShutdownCancelled
  <2>1. /\ s2c' \in Seq(FromSm)
        /\ UNCHANGED <<smhook, sm_conn, restart_hint, other, session, sm, waiting, left>>
        /\ UNCHANGED <<wm, some_sent, saved>> /\ sent_save_done' \in BOOLEAN
        /\ save_complete_fn' = "none"
    BY <1>14, <1>17 DEF RecvShutdownCancelled
  <2>2. c2s' \in Seq(ToSm)
    BY <1>1, <1>4, <1>17 DEF RecvShutdownCancelled
  <2>3. asked' \in [what : Requests, at : 0 .. session, cmd : Cmds \cup {None},
                    crossing : BOOLEAN, failed : BOOLEAN]
    BY <1>17 DEF RecvShutdownCancelled, Bounded, TypeOK, Requests
  <2> QED BY <2>1, <2>2, <2>3 DEF Bounded, TypeOK
<1>18. CASE RecvSaveComplete
  <2>1. /\ s2c' \in Seq(FromSm)
        /\ UNCHANGED <<smhook, sm_conn, restart_hint, other, session, sm, waiting, left>>
        /\ UNCHANGED <<sent_save_done, some_sent, saved, asked, c2s>>
        /\ save_complete_fn' = "none"
    BY <1>14, <1>18 DEF RecvSaveComplete
  <2>2. wm' \in Ended \cup {"running"}
    BY <1>18 DEF RecvSaveComplete, End, Ended, Bounded, TypeOK
  <2> QED BY <2>1, <2>2 DEF Bounded, TypeOK
<1>19. CASE RecvDie
  BY <1>14, <1>19 DEF RecvDie, End, Ended, Bounded, TypeOK
<1>20. CASE mod_sm_close
  <2>1. left' \in [changes : Nat, requests : Nat, saves : Nat, breaks : Nat] /\ left'.changes = left.changes
    BY <1>20 DEF mod_sm_close, Bounded
  <2>2. /\ UNCHANGED <<wm, smhook, save_complete_fn, sent_save_done, restart_hint, some_sent, other>>
        /\ UNCHANGED <<session, saved, asked>> /\ UNCHANGED <<sm, waiting, c2s, s2c>> /\ sm_conn' \in BOOLEAN
    BY <1>20 DEF mod_sm_close, data, net
  <2>3. TypeOK'
    BY <2>2 DEF Bounded, TypeOK
  <2> QED BY <2>1, <2>2, <2>3 DEF Bounded
<1>21. ASSUME NEW shutdown \in BOOLEAN, SmStart(shutdown)
       PROVE  /\ UNCHANGED <<core, data, c2s>> /\ s2c' \in Seq(FromSm)
              /\ sm' \in [phase : {"idle", "saving", "phase2", "saved", "cancelled", "over"},
                          shutdown : BOOLEAN, hint : Hints]
  BY <1>6, <1>21 DEF SmStart, FromSm, Bounded, TypeOK
<1>22. CASE SmServe
  <2>1. Head(waiting) \in BOOLEAN /\ waiting' \in Seq(BOOLEAN) /\ left' = left
    BY <1>1, <1>22, HeadTailProperties DEF SmServe
  <2>2. SmStart(Head(waiting))
    BY <1>22 DEF SmServe
  <2> QED BY <1>21, <2>1, <2>2 DEF core, data, Bounded, TypeOK
<1>23. ASSUME NEW shutdown \in BOOLEAN, SmSave(shutdown) PROVE Bounded'
  <2>1. left' \in [changes : Nat, requests : Nat, saves : Nat, breaks : Nat] /\ left'.changes = left.changes
        /\ waiting' = waiting
    BY <1>23 DEF SmSave, Bounded
  <2> QED BY <1>21, <1>23, <2>1 DEF SmSave, core, data, Bounded, TypeOK
<1>24. CASE SmReceive
  <2>1. c2s' \in Seq(ToSm) /\ Head(c2s) \in ToSm /\ UNCHANGED <<core, data, left>>
    BY <1>1, <1>24, Taken DEF SmReceive
  <2> DEFINE m == Head(c2s)
  <2>2. /\ m.type = "SaveYourselfRequest" => m.shutdown \in BOOLEAN
        /\ m.type = "SetProperties" => m.hint \in Hints
        /\ m.type \in {"SaveYourselfRequest", "SetProperties", "SaveYourselfDone", "SaveYourselfPhase2Request"}
    BY <2>1 DEF ToSm, Phase2Request
  <2>3. SentTo(m)
    BY <1>24 DEF SmReceive, SentTo
  <2> HIDE DEF m
  <2>4. /\ waiting' \in Seq(BOOLEAN) /\ s2c' \in Seq(FromSm)
        /\ sm' \in [phase : {"idle", "saving", "phase2", "saved", "cancelled", "over"},
                    shutdown : BOOLEAN, hint : Hints]
    <3>1. "SaveYourselfPhase2" \in FromSm
      BY DEF FromSm
    <3> QED BY <1>1, <1>6, <1>7, <2>2, <2>3, <3>1 DEF SentTo, Bounded, TypeOK
  <2> QED BY <2>1, <2>4 DEF core, data, Bounded, TypeOK
<1>25. CASE SmComplete
  <2>1. s2c' \in Seq(FromSm)
    BY <1>6, <1>25 DEF SmComplete, FromSm
  <2>2. sm' \in [phase : {"idle", "saving", "phase2", "saved", "cancelled", "over"},
                 shutdown : BOOLEAN, hint : Hints]
    BY <1>25 DEF SmComplete, Bounded, TypeOK
  <2> QED BY <1>25, <2>1, <2>2 DEF SmComplete, core, data, Bounded, TypeOK
<1>26. CASE SmCancel
  BY <1>6, <1>26 DEF SmCancel, FromSm, core, data, Bounded, TypeOK
<1>27. CASE UNCHANGED vars
  BY <1>27 DEF vars, core, data, net, Bounded, TypeOK
<1> QED
  BY <1>9, <1>10, <1>11, <1>12, <1>13, <1>15, <1>16, <1>17, <1>18, <1>19, <1>20, <1>22,
     <1>23, <1>24, <1>25, <1>26, <1>27 DEF Next
-----------------------------------------------------------------------------
(* Answers *)

\* What neither sends nor receives a message an answer depends on
LEMMA NoAnswer ==
  ASSUME OneAnswer, UNCHANGED <<sm, s2c, sent_save_done>>,
         PhaseRequests' = PhaseRequests, Dones' = Dones
  PROVE  OneAnswer'
BY DEF OneAnswer, Asks, Cancels

\* What the handlers of requests and signals send to the manager
LEMMA RequestsSent ==
  ASSUME Bounded, NEW what \in Requests, Smhook(what)
  PROVE  PhaseRequests' = PhaseRequests /\ Dones' = Dones
<1>1. c2s \in Seq(ToSm)
  BY DEF Bounded, TypeOK
<1>2. restart_hint' \in Hints
  BY DEF Smhook, Hints
<1>3. CASE c2s' = c2s
  BY <1>3 DEF PhaseRequests, Dones
<1>4. CASE c2s' = Append(c2s, Request(what = "shutdown"))
  BY <1>1, <1>4, MessageTypes, ToManager
<1>5. CASE c2s' = Append(c2s, Props(restart_hint'))
  BY <1>1, <1>2, <1>5, MessageTypes, ToManager
<1> QED BY <1>3, <1>4, <1>5 DEF Smhook

\* A message of the manager is received: it was the first, and is gone.
LEMMA Received ==
  ASSUME Bounded, NEW m \in FromSm, Receive(m)
  PROVE  /\ sm' = sm /\ wm = "running" /\ s2c[1] = m
         /\ 1 \in Asks <=> m \in {"SaveYourself", "SaveYourselfPhase2"}
         /\ 1 \in Cancels <=> m = "ShutdownCancelled"
         /\ \A i \in Asks' : i \in Nat \ {0} /\ i + 1 \in Asks /\ s2c'[i] = s2c[i + 1]
         /\ \A i \in Asks : i \in Nat \ {0} /\ (i = 1 \/ i - 1 \in Asks')
         /\ \A i \in Cancels' : i \in Nat \ {0} /\ i + 1 \in Cancels
         /\ In(s2c', "SaveComplete") # {} => In(s2c, "SaveComplete") # {}
         /\ 1 \in In(s2c, "SaveComplete") <=> m = "SaveComplete"
<1>1. s2c \in Seq(FromSm) /\ s2c # <<>> /\ Head(s2c) = m /\ s2c' = Tail(s2c) /\ sm' = sm /\ wm = "running"
  BY DEF Bounded, TypeOK, Receive
<1> DEFINE r == Tail(s2c)
<1>2. /\ s2c[1] = Head(s2c)
      /\ \A t : /\ 1 \in In(s2c, t) <=> Head(s2c) = t
                /\ \A i \in In(r, t) : i \in Nat \ {0} /\ i + 1 \in In(s2c, t) /\ r[i] = s2c[i + 1]
                /\ \A i \in In(s2c, t) : i \in Nat \ {0} /\ (i = 1 \/ i - 1 \in In(r, t))
  BY <1>1, TakenBack
<1>3. r = s2c'
  BY <1>1
<1> HIDE DEF r
<1>4. ASSUME NEW t
      PROVE  /\ 1 \in In(s2c, t) <=> m = t
             /\ \A i \in In(s2c', t) : i \in Nat \ {0} /\ i + 1 \in In(s2c, t) /\ s2c'[i] = s2c[i + 1]
             /\ \A i \in In(s2c, t) : i \in Nat \ {0} /\ (i = 1 \/ i - 1 \in In(s2c', t))
  BY <1>1, <1>2, <1>3
<1>5. s2c[1] = m
  BY <1>1, <1>2
<1>6. Asks = In(s2c, "SaveYourself") \cup In(s2c, "SaveYourselfPhase2")
  BY DEF Asks
<1>7. Asks' = In(s2c', "SaveYourself") \cup In(s2c', "SaveYourselfPhase2")
  BY DEF Asks
<1>8. Cancels = In(s2c, "ShutdownCancelled") /\ Cancels' = In(s2c', "ShutdownCancelled")
  BY DEF Cancels
<1> QED BY <1>1, <1>4, <1>5, <1>6, <1>7, <1>8

\* A message that is none of the questions is gone, or a cancellation that needs no
\* answer: the others move up.
LEMMA Shifted ==
  ASSUME OneAnswer, sm' = sm, sent_save_done' <=> sent_save_done,
         PhaseRequests' = PhaseRequests, Dones' = Dones,
         \A i \in Asks' : i \in Nat \ {0} /\ i + 1 \in Asks /\ s2c'[i] = s2c[i + 1],
         \A i \in Asks : i \in Nat \ {0, 1} /\ i - 1 \in Asks',
         \A i \in Cancels' : i \in Nat \ {0} /\ i + 1 \in Cancels
  PROVE  OneAnswer'
BY DEF OneAnswer

\* One question, one answer, at each step.
LEMMA AnswerStep == Bounded /\ Bounded' /\ OneAnswer /\ [Next]_vars => OneAnswer'
<1> SUFFICES ASSUME Bounded, Bounded', OneAnswer, [Next]_vars PROVE OneAnswer'
  OBVIOUS
<1>1. /\ c2s \in Seq(ToSm) /\ s2c \in Seq(FromSm)
      /\ sm \in [phase : {"idle", "saving", "phase2", "saved", "cancelled", "over"},
                 shutdown : BOOLEAN, hint : Hints]
  BY DEF Bounded, TypeOK
<1>2. ASSUME UNCHANGED <<sm, c2s, s2c, sent_save_done>> PROVE OneAnswer'
  BY <1>2, NoAnswer DEF PhaseRequests, Dones
<1>3. ASSUME NEW what \in Requests, NEW cmd, NEW ok, Do(what, cmd, ok) PROVE OneAnswer'
  <2>1. UNCHANGED <<sm, s2c, sent_save_done>>
    BY <1>3 DEF Do
  <2>2. CASE smhook
    <3>1. Smhook(what)
      BY <1>3, <2>2 DEF Do
    <3> QED BY <2>1, <3>1, RequestsSent, NoAnswer
  <2>3. CASE ~smhook
    BY <1>2, <1>3, <2>1, <2>3 DEF Do, NoSmhook
  <2> QED BY <2>2, <2>3
<1>4. CASE Change
  BY <1>2, <1>4 DEF Change, core, net
<1>5. CASE UserRequest
  BY <1>3, <1>5 DEF UserRequest
<1>6. CASE Usr1
  <2>1. CASE smhook
    BY <1>2, <1>6, <2>1 DEF Usr1, net
  <2>2. CASE ~smhook
    BY <1>3, <1>6, <2>2 DEF Usr1, Requests
  <2> QED BY <2>1, <2>2
<1>7. CASE Term
  <2>1. UNCHANGED <<sm, s2c, sent_save_done>>
    BY <1>7 DEF Term
  <2>2. CASE smhook
    <3>1. Smhook("resign") /\ "resign" \in Requests
      BY <1>7, <2>2 DEF Term, Requests
    <3> QED BY <2>1, <3>1, RequestsSent, NoAnswer
  <2>3. CASE ~smhook
    BY <1>2, <1>7, <2>1, <2>3 DEF Term
  <2> QED BY <2>2, <2>3
<1>8. CASE Deadly
  BY <1>2, <1>8 DEF Deadly, net
<1>9. CASE RecvSaveYourself
  <2>1. Receive("SaveYourself") /\ "SaveYourself" \in FromSm
    BY <1>9 DEF RecvSaveYourself, FromSm
  <2>2. PhaseRequests = {} /\ Dones = {} /\ Asks = {1} /\ Asks' = {}
    BY <2>1, Received DEF OneAnswer
  <2>3. s2c[1] = "SaveYourself" /\ sm' = sm /\ sm.phase \in {"saving", "cancelled"}
    BY <1>1, <2>1, <2>2, Received DEF OneAnswer, In
  <2>4. sm.phase = "saving" => Cancels' = {}
    <3>1. \A i \in Cancels' : i \in Nat \ {0} /\ i + 1 \in Cancels
      BY <2>1, Received
    <3>2. sm.phase = "saving" => \A i \in Cancels : i < 1
      BY <2>2 DEF OneAnswer
    <3> QED BY <3>1, <3>2
  <2>5. CASE c2s' = Append(c2s, Phase2Request) /\ sent_save_done' = FALSE
    <3>1. PhaseRequests' = {Len(c2s) + 1} /\ Dones' = {}
      BY <1>1, <2>2, <2>5, MessageTypes, ToManager
    <3> QED BY <2>2, <2>3, <2>4, <2>5, <3>1 DEF OneAnswer
  <2>6. CASE c2s' = Append(c2s, Done(FALSE)) /\ sent_save_done' = TRUE
    <3>1. PhaseRequests' = {} /\ Dones' = {Len(c2s) + 1}
      BY <1>1, <2>2, <2>6, MessageTypes, ToManager
    <3> QED BY <2>2, <2>3, <2>4, <2>6, <3>1 DEF OneAnswer
  <2> QED BY <1>9, <2>5, <2>6 DEF RecvSaveYourself
<1>10. CASE RecvPhase2
  <2>1. Receive("SaveYourselfPhase2") /\ "SaveYourselfPhase2" \in FromSm /\ sent_save_done' = TRUE
    BY <1>10 DEF RecvPhase2, FromSm
  <2>2. PhaseRequests = {} /\ Dones = {} /\ Asks = {1} /\ Asks' = {}
    BY <2>1, Received DEF OneAnswer
  <2>3. s2c[1] = "SaveYourselfPhase2" /\ sm' = sm /\ sm.phase \in {"phase2", "cancelled"}
    BY <1>1, <2>1, <2>2, Received DEF OneAnswer, In
  <2>4. sm.phase = "phase2" => Cancels' = {}
    BY <2>1, Received DEF OneAnswer
  <2>5. PICK n \in Nat : PhaseRequests' = {} /\ Dones' = {n}
    <3>1. PICK ok \in BOOLEAN :
            c2s' = c2s \o (IF ok THEN <<Props(restart_hint)>> ELSE <<>>) \o <<Done(ok)>>
      BY <1>10 DEF RecvPhase2
    <3>2. restart_hint \in Hints
      BY DEF Bounded, TypeOK
    <3>3. CASE ok
      <4>1. c2s' = Append(Append(c2s, Props(restart_hint)), Done(ok))
        <5>1. c2s' = c2s \o <<Props(restart_hint)>> \o <<Done(ok)>>
          BY <3>1, <3>3
        <5>2. Props(restart_hint) \in ToSm /\ Done(ok) \in ToSm
          BY <3>2, MessageTypes
        <5> QED BY <1>1, <5>1, <5>2, TwoSent
      <4> DEFINE q == Append(c2s, Props(restart_hint))
      <4>2. Props(restart_hint) \in ToSm /\ Props(restart_hint).type = "SetProperties"
        BY <3>2, MessageTypes
      <4>3. Done(ok) \in ToSm /\ Done(ok).type = "SaveYourselfDone"
        BY MessageTypes
      <4>4. q \in Seq(ToSm) /\ Of(q, "SaveYourselfPhase2Request") = {} /\ Of(q, "SaveYourselfDone") = {}
        <5>1. Of(c2s, "SaveYourselfPhase2Request") = {} /\ Of(c2s, "SaveYourselfDone") = {}
          BY <2>2 DEF PhaseRequests, Dones
        <5> QED BY <1>1, <4>2, <5>1, OnTheWay
      <4>5. c2s' = Append(q, Done(ok))
        BY <4>1
      <4> HIDE DEF q
      <4>6. /\ Of(c2s', "SaveYourselfPhase2Request") = {} /\ Of(c2s', "SaveYourselfDone") = {Len(q) + 1}
            /\ Len(q) + 1 \in Nat
        <5>1. /\ Of(Append(q, Done(ok)), "SaveYourselfPhase2Request") = Of(q, "SaveYourselfPhase2Request")
              /\ Len(q) \in Nat
          BY <4>3, <4>4, OnTheWay
        <5>2. Of(Append(q, Done(ok)), "SaveYourselfDone") = Of(q, "SaveYourselfDone") \cup {Len(q) + 1}
          BY <4>3, <4>4, OnTheWay
        <5> QED BY <4>4, <4>5, <5>1, <5>2
      <4> QED BY <4>6 DEF PhaseRequests, Dones
    <3>4. CASE ~ok
      <4>1. c2s' = Append(c2s, Done(ok))
        BY <1>1, <3>1, <3>4, MessageTypes
      <4>2. Done(ok) \in ToSm /\ Done(ok).type = "SaveYourselfDone"
        BY MessageTypes
      <4> QED BY <1>1, <2>2, <4>1, <4>2, ToManager
    <3> QED BY <3>3, <3>4
  <2> QED BY <2>1, <2>2, <2>3, <2>4, <2>5 DEF OneAnswer
<1>11. CASE RecvShutdownCancelled
  <2>1. Receive("ShutdownCancelled") /\ "ShutdownCancelled" \in FromSm /\ sent_save_done' = TRUE
    BY <1>11 DEF RecvShutdownCancelled, FromSm
  <2>2. 1 \in Cancels /\ 1 \notin Asks /\ sm' = sm
    BY <2>1, Received
  <2>3. /\ \A i \in Asks' : i \in Nat \ {0} /\ i + 1 \in Asks /\ s2c'[i] = s2c[i + 1]
        /\ \A i \in Asks : i \in Nat \ {0, 1} /\ i - 1 \in Asks'
        /\ \A i \in Cancels' : i \in Nat \ {0} /\ i + 1 \in Cancels
    BY <2>1, <2>2, Received
  <2>4. CASE sent_save_done
    <3>1. PhaseRequests' = PhaseRequests /\ Dones' = Dones
      BY <1>11, <2>4 DEF RecvShutdownCancelled, PhaseRequests, Dones
    <3> QED BY <2>1, <2>2, <2>3, <2>4, <3>1, Shifted
  <2>5. CASE ~sent_save_done
    <3>1. sm.phase = "cancelled" /\ Dones = {} /\ Asks = {} /\ Asks' = {}
      BY <1>1, <2>2, <2>3, <2>5 DEF OneAnswer
    <3>2. /\ PhaseRequests' = PhaseRequests /\ Dones' = {Len(c2s) + 1}
          /\ PhaseRequests \subseteq 1 .. Len(c2s) /\ Len(c2s) \in Nat
      BY <1>1, <1>11, <2>5, <3>1, MessageTypes, ToManager DEF RecvShutdownCancelled
    <3> QED BY <2>1, <2>2, <3>1, <3>2 DEF OneAnswer
  <2> QED BY <2>4, <2>5
<1>12. ASSUME NEW m \in {"SaveComplete", "Die"}, Receive(m), UNCHANGED <<c2s, sent_save_done>>
       PROVE  OneAnswer'
  <2>1. m \in FromSm
    BY DEF FromSm
  <2>2. /\ \A i \in Asks' : i \in Nat \ {0} /\ i + 1 \in Asks /\ s2c'[i] = s2c[i + 1]
        /\ \A i \in Asks : i \in Nat \ {0, 1} /\ i - 1 \in Asks'
        /\ \A i \in Cancels' : i \in Nat \ {0} /\ i + 1 \in Cancels
        /\ sm' = sm
    BY <1>12, <2>1, Received
  <2>3. PhaseRequests' = PhaseRequests /\ Dones' = Dones
    BY <1>12 DEF PhaseRequests, Dones
  <2> QED BY <1>12, <2>2, <2>3, Shifted
<1>13. CASE RecvSaveComplete
  BY <1>12, <1>13 DEF RecvSaveComplete
<1>14. CASE RecvDie
  BY <1>12, <1>14 DEF RecvDie
<1>15. CASE mod_sm_close
  BY <1>2, <1>15 DEF mod_sm_close, net
<1>16. ASSUME NEW shutdown, SmStart(shutdown), sm.phase = "idle" PROVE OneAnswer'
  <2>1. /\ sm'.phase = "saving" /\ s2c' = Append(s2c, "SaveYourself") /\ "SaveYourself" \in FromSm
        /\ UNCHANGED <<c2s, sent_save_done>>
    BY <1>1, <1>16 DEF SmStart, core, FromSm
  <2>2. /\ Asks = {} /\ PhaseRequests = {} /\ Dones = {} /\ PhaseRequests' = {} /\ Dones' = {}
        /\ Cancels # {} => sent_save_done
    BY <1>16, <2>1 DEF OneAnswer, PhaseRequests, Dones
  <2>3. /\ Asks' = {Len(s2c) + 1} /\ Cancels' = Cancels /\ Cancels \subseteq 1 .. Len(s2c)
        /\ Len(s2c) \in Nat /\ s2c'[Len(s2c) + 1] = "SaveYourself"
    BY <1>1, <2>1, <2>2, FromManager
  <2> QED BY <2>1, <2>2, <2>3 DEF OneAnswer
<1>17. CASE SmServe
  BY <1>16, <1>17 DEF SmServe
<1>18. ASSUME NEW shutdown \in BOOLEAN, SmSave(shutdown) PROVE OneAnswer'
  BY <1>16, <1>18 DEF SmSave
<1>19. CASE SmReceive
  <2> DEFINE m == Head(c2s)
  <2>1. c2s # <<>> /\ c2s' = Tail(c2s) /\ SentTo(m) /\ sent_save_done' = sent_save_done
    BY <1>19 DEF SmReceive, SentTo, core
  <2>2. /\ 1 \in PhaseRequests <=> m.type = "SaveYourselfPhase2Request"
        /\ 1 \in Dones <=> m.type = "SaveYourselfDone"
        /\ \A i \in PhaseRequests' : i \in Nat \ {0} /\ i + 1 \in PhaseRequests
        /\ \A i \in PhaseRequests : i \in Nat \ {0} /\ (i = 1 \/ i - 1 \in PhaseRequests')
        /\ \A i \in Dones' : i \in Nat \ {0} /\ i + 1 \in Dones
        /\ \A i \in Dones : i \in Nat \ {0} /\ (i = 1 \/ i - 1 \in Dones')
    BY <1>1, <2>1, Taken DEF PhaseRequests, Dones
  <2>3. m.type \in {"SaveYourselfRequest", "SetProperties", "SaveYourselfDone", "SaveYourselfPhase2Request"}
    BY <1>1, <2>1, Taken DEF ToSm, Phase2Request
  <2> HIDE DEF m
  <2>4. CASE s2c' = s2c /\ sm'.phase = sm.phase
    <3>1. Asks' = Asks /\ Cancels' = Cancels
      BY <2>4 DEF Asks, Cancels
    <3> QED BY <2>1, <2>2, <2>4, <3>1 DEF OneAnswer
  <2>5. CASE m.type = "SaveYourselfRequest"
    BY <2>1, <2>4, <2>5 DEF SentTo
  <2>6. CASE m.type = "SetProperties"
    BY <1>1, <2>1, <2>4, <2>6 DEF SentTo
  <2>7. CASE m.type = "SaveYourselfDone"
    <3>1. s2c' = s2c /\ sm'.phase = IF sm.phase = "cancelled" THEN "idle" ELSE "saved"
      BY <1>1, <2>1, <2>7 DEF SentTo
    <3>2. /\ Asks = {} /\ PhaseRequests = {} /\ Dones = {1} /\ sent_save_done
          /\ sm.phase \in {"saving", "phase2", "cancelled"}
      BY <1>1, <2>2, <2>7 DEF OneAnswer
    <3>3. Asks' = {} /\ Cancels' = Cancels /\ PhaseRequests' = {} /\ Dones' = {}
      BY <2>2, <3>1, <3>2 DEF Asks, Cancels
    <3> QED BY <2>1, <3>1, <3>2, <3>3 DEF OneAnswer
  <2>8. CASE m.type = "SaveYourselfPhase2Request" /\ sm.phase = "saving"
    <3>1. /\ s2c' = Append(s2c, "SaveYourselfPhase2") /\ "SaveYourselfPhase2" \in FromSm
          /\ sm'.phase = "phase2"
      BY <1>1, <2>1, <2>8 DEF SentTo, FromSm
    <3>2. Asks = {} /\ PhaseRequests = {1} /\ Dones = {} /\ Cancels = {}
      BY <2>2, <2>8 DEF OneAnswer
    <3>3. PhaseRequests' = {} /\ Dones' = {}
      BY <2>2, <3>2
    <3>4. Asks' = {Len(s2c) + 1} /\ Cancels' = {} /\ s2c'[Len(s2c) + 1] = "SaveYourselfPhase2"
      BY <1>1, <3>1, <3>2, FromManager
    <3> QED BY <2>1, <3>1, <3>3, <3>4 DEF OneAnswer
  <2>9. CASE m.type = "SaveYourselfPhase2Request" /\ sm.phase # "saving"
    BY <2>1, <2>4, <2>9 DEF SentTo
  <2> QED BY <2>3, <2>5, <2>6, <2>7, <2>8, <2>9
<1>20. CASE SmComplete
  <2>1. PICK t \in {"Die", "SaveComplete"} : s2c' = Append(s2c, t)
    BY <1>20 DEF SmComplete
  <2>2. /\ sm.phase = "saved" /\ sm'.phase \in {"over", "idle"} /\ t \in FromSm
        /\ UNCHANGED <<c2s, sent_save_done>>
    BY <1>1, <1>20 DEF SmComplete, core, FromSm
  <2>3. Asks' = Asks /\ Cancels' = Cancels /\ PhaseRequests' = PhaseRequests /\ Dones' = Dones
    BY <1>1, <2>1, <2>2, FromManager DEF PhaseRequests, Dones
  <2> QED BY <2>2, <2>3 DEF OneAnswer
<1>21. CASE SmCancel
  <2>1. /\ s2c' = Append(s2c, "ShutdownCancelled") /\ "ShutdownCancelled" \in FromSm
        /\ sm.phase \in {"saving", "phase2", "saved"}
        /\ sm'.phase = IF sm.phase = "saved" THEN "idle" ELSE "cancelled"
        /\ UNCHANGED <<c2s, sent_save_done>>
    BY <1>1, <1>21 DEF SmCancel, core, FromSm
  <2>2. /\ Asks' = Asks /\ Cancels' = Cancels \cup {Len(s2c) + 1} /\ Asks \subseteq 1 .. Len(s2c)
        /\ Len(s2c) \in Nat /\ PhaseRequests' = PhaseRequests /\ Dones' = Dones
    BY <1>1, <2>1, FromManager DEF PhaseRequests, Dones
  <2> QED BY <2>1, <2>2 DEF OneAnswer
<1>22. CASE UNCHANGED vars
  BY <1>2, <1>22 DEF vars, core, net
<1> QED
  BY <1>4, <1>5, <1>6, <1>7, <1>8, <1>9, <1>10, <1>11, <1>13, <1>14, <1>15, <1>17, <1>18,
     <1>19, <1>20, <1>21, <1>22 DEF Next
-----------------------------------------------------------------------------
(* What is to happen is that of the last request *)

\* save_complete_fn, and how the window manager ends, follow the last request.
LEMMA LastAskedStep == Bounded /\ LastAsked /\ [Next]_vars => LastAsked'
<1> SUFFICES ASSUME Bounded, LastAsked, [Next]_vars PROVE LastAsked'
  OBVIOUS
<1>1. asked \in [what : Requests, at : 0 .. session, cmd : Cmds \cup {None},
                 crossing : BOOLEAN, failed : BOOLEAN]
  BY DEF Bounded, TypeOK
<1>2. ASSUME UNCHANGED <<smhook, save_complete_fn, restart_hint, other>>, asked'.what = asked.what,
             asked'.cmd = asked.cmd, wm' = wm \/ wm' \notin {"left", "restarted"}
      PROVE  LastAsked'
  BY <1>2 DEF LastAsked
<1>3. ASSUME NEW what \in Requests, Smhook(what), wm = "running",
             what = "restart_other" => other' = asked'.cmd, asked'.what = what
      PROVE  LastAsked'
  <2>1. wm' \notin {"left", "restarted"}
    BY <1>3 DEF Smhook, End
  <2>2. /\ save_complete_fn' = "sm_exit" => what = "restart" /\ restart_hint' = "Immediately"
        /\ save_complete_fn' = "sm_restart" => what = "restart_other"
    BY <1>3 DEF Smhook, SaveCompleteFn
  <2> QED BY <1>3, <2>1, <2>2 DEF LastAsked
<1>4. ASSUME NEW what \in Requests \ {"none"}, NEW cmd, NEW ok, wm = "running",
             (cmd = None) = (what # "restart_other"), Do(what, cmd, ok)
      PROVE  LastAsked'
  <2>1. /\ asked'.what = what /\ asked'.cmd = cmd
        /\ what = "restart_other" => other' = cmd
        /\ what = "restart" => other' = None
    BY <1>4 DEF Do, Ask, SetOther
  <2>2. CASE smhook
    BY <1>3, <1>4, <2>1, <2>2 DEF Do
  <2>3. CASE ~smhook
    <3>1. /\ save_complete_fn' = "none" /\ wm' # "left"
          /\ wm' = "restarted" => what \in {"restart", "restart_other"}
      BY <1>4, <2>3 DEF Do, NoSmhook, End, Requests, Bounded
    <3> QED BY <1>4, <2>1, <3>1 DEF LastAsked
  <2> QED BY <2>2, <2>3
<1>5. CASE Change
  BY <1>2, <1>5 DEF Change, core
<1>6. CASE UserRequest
  BY <1>4, <1>6 DEF UserRequest, MayRequest
<1>7. CASE Usr1
  <2>1. CASE smhook
    BY <1>2, <1>7, <2>1 DEF Usr1, data, End
  <2>2. CASE ~smhook
    BY <1>4, <1>7, <2>2 DEF Usr1, Requests, MayRequest
  <2> QED BY <2>1, <2>2
<1>8. CASE Term
  <2>1. wm = "running" /\ asked'.what = "resign" /\ "resign" \in Requests
    BY <1>8 DEF Term, MayRequest, Ask, Requests
  <2>2. CASE smhook
    BY <1>3, <1>8, <2>1, <2>2 DEF Term
  <2>3. CASE ~smhook
    BY <1>8, <2>1, <2>3 DEF Term, End, LastAsked, Bounded
  <2> QED BY <2>2, <2>3
<1>9. CASE Deadly
  BY <1>2, <1>9 DEF Deadly, End
<1>10. CASE RecvSaveYourself
  BY <1>1, <1>2, <1>10 DEF RecvSaveYourself, Receive
<1>11. CASE RecvPhase2
  BY <1>1, <1>2, <1>11 DEF RecvPhase2, Receive
<1>12. CASE RecvShutdownCancelled
  BY <1>1, <1>12 DEF RecvShutdownCancelled, Receive, LastAsked
<1>13. CASE RecvSaveComplete
  BY <1>13 DEF RecvSaveComplete, Receive, End, LastAsked, Bounded
<1>14. CASE RecvDie
  BY <1>2, <1>14 DEF RecvDie, Receive, End
<1>15. CASE mod_sm_close
  BY <1>2, <1>15 DEF mod_sm_close, data
<1>16. ASSUME UNCHANGED <<core, data>> PROVE LastAsked'
  BY <1>2, <1>16 DEF core, data
<1>17. CASE SmServe
  BY <1>16, <1>17 DEF SmServe, SmStart
<1>18. CASE \E shutdown \in BOOLEAN : SmSave(shutdown)
  BY <1>16, <1>18 DEF SmSave, SmStart
<1>19. CASE SmReceive \/ SmComplete \/ SmCancel
  BY <1>16, <1>19 DEF SmReceive, SmComplete, SmCancel
<1>20. CASE UNCHANGED vars
  BY <1>16, <1>20 DEF vars
<1> QED
  BY <1>5, <1>6, <1>7, <1>8, <1>9, <1>10, <1>11, <1>12, <1>13, <1>14, <1>15, <1>17, <1>18,
     <1>19, <1>20 DEF Next

-----------------------------------------------------------------------------
(* The hint the manager will have when it has taken what is on its way *)

HintIn(q, known, hint) ==
  IF Of(q, "SetProperties") = {} THEN known = hint
  ELSE \E i \in Of(q, "SetProperties") :
         (\A j \in Of(q, "SetProperties") : j <= i) /\ q[i].hint = hint

\* Any other message leaves the hint on its way.
LEMMA HintKept ==
  ASSUME NEW q \in Seq(ToSm), NEW m \in ToSm, m.type # "SetProperties", NEW known, NEW hint,
         HintIn(q, known, hint)
  PROVE  HintIn(Append(q, m), known, hint)
<1> DEFINE r == Append(q, m)
<1>1. /\ Of(q, "SetProperties") \subseteq 1 .. Len(q)
      /\ Of(r, "SetProperties") = Of(q, "SetProperties")
  BY OnTheWay
<1>2. \A i \in 1 .. Len(q) : r[i] = q[i]
  BY Sent
<1> HIDE DEF r
<1>3. HintIn(r, known, hint)
  BY <1>1, <1>2 DEF HintIn
<1> QED BY <1>3 DEF r

\* The hint that is published last is the one the manager will have.
LEMMA HintPublished ==
  ASSUME NEW q \in Seq(ToSm), NEW h \in Hints, NEW known
  PROVE  HintIn(Append(q, Props(h)), known, h)
<1> DEFINE r == Append(q, Props(h))
<1>1. Props(h) \in ToSm /\ Props(h).type = "SetProperties" /\ Props(h).hint = h
  BY MessageTypes
<1>2. /\ Of(q, "SetProperties") \subseteq 1 .. Len(q) /\ Len(q) \in Nat
      /\ Of(r, "SetProperties") = Of(q, "SetProperties") \cup {Len(q) + 1}
  BY <1>1, OnTheWay
<1>3. r[Len(q) + 1] = Props(h)
  BY <1>1, Sent
<1> HIDE DEF r
<1>4. HintIn(r, known, h)
  BY <1>1, <1>2, <1>3 DEF HintIn
<1> QED BY <1>4 DEF r

\* So is one that the manager takes.
LEMMA HintTaken ==
  ASSUME NEW q \in Seq(ToSm), q # <<>>, NEW known, NEW hint, HintIn(q, known, hint)
  PROVE  HintIn(Tail(q), IF Head(q).type = "SetProperties" THEN Head(q).hint ELSE known, hint)
<1> DEFINE r == Tail(q)
           O == Of(q, "SetProperties")
           P == Of(r, "SetProperties")
           k == IF Head(q).type = "SetProperties" THEN Head(q).hint ELSE known
<1>1. /\ Head(q) = q[1]
      /\ 1 \in O <=> Head(q).type = "SetProperties"
      /\ \A i \in P : i \in Nat \ {0} /\ i + 1 \in O /\ r[i] = q[i + 1]
      /\ \A i \in O : i \in Nat \ {0} /\ (i = 1 \/ i - 1 \in P)
  BY Taken
<1>2. k = IF 1 \in O THEN q[1].hint ELSE known
  BY <1>1
<1>3. IF O = {} THEN known = hint
      ELSE \E i \in O : (\A j \in O : j <= i) /\ q[i].hint = hint
  BY DEF HintIn
<1> HIDE DEF r, O, P, k
<1>4. CASE P = {}
  <2>1. O \subseteq {1}
    BY <1>1, <1>4
  <2>2. k = hint
    BY <1>2, <1>3, <2>1
  <2> QED BY <1>4, <2>2 DEF HintIn, P, r, k
<1>5. CASE P # {}
  <2>1. PICK i \in O : (\A j \in O : j <= i) /\ q[i].hint = hint
    BY <1>1, <1>3, <1>5
  <2>2. i - 1 \in P /\ r[i - 1] = q[i] /\ \A j \in P : j <= i - 1
    <3>1. i # 1
      BY <1>1, <1>5, <2>1
    <3>2. i \in Nat \ {0} /\ i - 1 \in P /\ (i - 1) + 1 = i
      BY <1>1, <3>1
    <3>3. \A j \in P : j \in Nat /\ j + 1 <= i
      BY <1>1, <2>1
    <3> QED BY <1>1, <3>2, <3>3
  <2>3. \E n \in P : (\A j \in P : j <= n) /\ r[n].hint = hint
    BY <2>1, <2>2
  <2> QED BY <1>5, <2>3 DEF HintIn, P, r
<1> QED BY <1>4, <1>5
-----------------------------------------------------------------------------
(* The session is saved, and the hint published, before the answer *)

\* What does not bring the answer nearer, nor change what it is about
LEMMA NoNearer ==
  ASSUME SavedBefore, UNCHANGED <<smhook, saved, save_complete_fn>>,
         asked'.at = asked.at, asked'.crossing = asked.crossing, asked'.failed = asked.failed,
         wm' = wm \/ wm' \notin {"left", "restarted"},
         Answered' => Answered,
         LastHint("Immediately") => LastHint("Immediately")'
  PROVE  SavedBefore'
BY DEF SavedBefore

\* LastHint is HintIn of what is on its way
LEMMA HintOnTheWay ==
  /\ \A hint : LastHint(hint) <=> HintIn(c2s, sm.hint, hint)
  /\ \A hint : LastHint(hint)' <=> HintIn(c2s', sm'.hint, hint)
BY DEF LastHint, Published, HintIn

\* The session is saved, and the hint sent, before the manager can say that the save is complete.
LEMMA SavedStep ==
  SessionInv /\ Bounded' /\ [Next]_vars => SavedBefore'
<1> SUFFICES ASSUME SessionInv, Bounded', [Next]_vars PROVE SavedBefore'
  OBVIOUS
<1>1. /\ c2s \in Seq(ToSm) /\ s2c \in Seq(FromSm) /\ restart_hint \in Hints
      /\ sm \in [phase : {"idle", "saving", "phase2", "saved", "cancelled", "over"},
                 shutdown : BOOLEAN, hint : Hints]
      /\ session \in Nat /\ saved \in 0 .. session
      /\ asked \in [what : Requests, at : 0 .. session, cmd : Cmds \cup {None},
                    crossing : BOOLEAN, failed : BOOLEAN]
  BY SessionAssumption DEF SessionInv, Bounded, TypeOK
<1>2. SavedBefore /\ OneAnswer /\ LastAsked /\ Bounded
  BY DEF SessionInv
<1>3. ASSUME UNCHANGED <<core, c2s, s2c, sm, saved>>,
             asked'.at = asked.at, asked'.crossing = asked.crossing, asked'.failed = asked.failed
      PROVE  SavedBefore'
  <2>1. Answered' => Answered
    BY <1>3 DEF Answered, Dones, In, core
  <2>2. LastHint("Immediately") => LastHint("Immediately")'
    BY <1>3 DEF LastHint, Published
  <2> QED BY <1>2, <1>3, <2>1, <2>2, NoNearer DEF core
<1>4. ASSUME NEW what \in Requests, Smhook(what), asked'.crossing = Saving, wm = "running",
             UNCHANGED <<sm, s2c>>
      PROVE  SavedBefore'
  <2>1. CASE Saving
    BY <1>1, <1>4, <2>1 DEF SavedBefore, Saving
  <2>2. CASE ~Saving
    <3>1. sm.phase = "idle" /\ c2s = <<>> /\ s2c = <<>>
      BY <2>2 DEF Saving
    <3>2. Dones = {} /\ In(s2c, "SaveComplete") = {}
      BY <1>2, <3>1 DEF OneAnswer, In
    <3>3. wm' \notin {"left", "restarted"}
      BY <1>4 DEF Smhook, End
    <3>4. Dones' = {}
      BY <1>2, <1>4, <3>2, RequestsSent
    <3>5. In(s2c, "SaveComplete")' = {} /\ sm'.phase # "saved"
      BY <1>4, <3>1, <3>2 DEF In
    <3> QED BY <3>3, <3>4, <3>5 DEF SavedBefore, Answered
  <2> QED BY <2>1, <2>2
<1>5. ASSUME NEW what \in Requests, NEW cmd, NEW ok, wm = "running", Do(what, cmd, ok)
      PROVE  SavedBefore'
  <2>1. CASE smhook
    BY <1>4, <1>5, <2>1 DEF Do, Ask
  <2>2. CASE ~smhook
    BY <1>5, <2>2 DEF Do, SavedBefore
  <2> QED BY <2>1, <2>2
<1>6. CASE Change
  BY <1>1, <1>3, <1>6 DEF Change, net
<1>7. CASE UserRequest
  BY <1>5, <1>7 DEF UserRequest, MayRequest
<1>8. CASE Usr1
  <2>1. CASE smhook
    <3>1. /\ UNCHANGED <<smhook, save_complete_fn, c2s, s2c, sm, saved, asked>>
          /\ wm = "running" /\ wm' = "aborted"
      BY <1>8, <2>1 DEF Usr1, End, data, net, MayRequest
    <3>2. Answered' => Answered
      BY <3>1 DEF Answered, Dones, In
    <3>3. LastHint("Immediately") => LastHint("Immediately")'
      BY <3>1 DEF LastHint, Published
    <3> QED BY <1>2, <3>1, <3>2, <3>3, NoNearer
  <2>2. CASE ~smhook
    BY <1>5, <1>8, <2>2 DEF Usr1, Requests, MayRequest
  <2> QED BY <2>1, <2>2
<1>9. CASE Term
  <2>1. CASE smhook
    BY <1>4, <1>9, <2>1 DEF Term, Ask, Requests, MayRequest
  <2>2. CASE ~smhook
    BY <1>9, <2>2 DEF Term, SavedBefore
  <2> QED BY <2>1, <2>2
<1>10. CASE Deadly
  <2>1. CASE smhook
    <3>1. /\ UNCHANGED <<smhook, save_complete_fn, c2s, s2c, sm, saved, asked>>
          /\ wm = "running" /\ wm' = "killed"
      BY <1>10, <2>1 DEF Deadly, End, net, MayRequest
    <3>2. Answered' => Answered
      BY <3>1 DEF Answered, Dones, In
    <3>3. LastHint("Immediately") => LastHint("Immediately")'
      BY <3>1 DEF LastHint, Published
    <3> QED BY <1>2, <3>1, <3>2, <3>3, NoNearer
  <2>2. CASE ~smhook
    BY <1>10, <2>2 DEF Deadly, SavedBefore
  <2> QED BY <2>1, <2>2
<1>11. CASE RecvSaveYourself
  <2>1. /\ Receive("SaveYourself") /\ "SaveYourself" \in FromSm /\ sm' = sm
        /\ UNCHANGED <<wm, smhook, save_complete_fn, saved>> /\ Asks # {}
    BY <1>2, <1>11, Received DEF RecvSaveYourself, Receive, FromSm
  <2>2. CASE c2s' = Append(c2s, Phase2Request) /\ UNCHANGED asked
    <3>1. Dones' = {} /\ sm.phase # "saved"
      BY <1>1, <1>2, <2>1, <2>2, MessageTypes, ToManager DEF OneAnswer
    <3>2. Answered' => Answered
      BY <1>2, <2>1, <3>1, Received DEF Answered
    <3>3. LastHint("Immediately") => LastHint("Immediately")'
      BY <1>1, <2>1, <2>2, MessageTypes, HintKept, HintOnTheWay
    <3> QED BY <1>2, <2>1, <2>2, <3>2, <3>3, NoNearer
  <2>3. CASE asked' = [asked EXCEPT !.failed = TRUE]
    BY <1>1, <2>3 DEF SavedBefore
  <2> QED BY <1>11, <2>2, <2>3 DEF RecvSaveYourself
<1>12. CASE RecvPhase2
  <2>1. PICK ok \in BOOLEAN :
          /\ DoSnapshot(TRUE, ok)
          /\ c2s' = c2s \o (IF ok THEN <<Props(restart_hint)>> ELSE <<>>) \o <<Done(ok)>>
          /\ asked' = [asked EXCEPT !.failed = @ \/ ~ok]
    BY <1>12 DEF RecvPhase2
  <2>2. /\ UNCHANGED <<wm, smhook, save_complete_fn>> /\ wm = "running"
    BY <1>12 DEF RecvPhase2, Receive
  <2>3. CASE ~ok
    BY <1>1, <2>1, <2>3 DEF SavedBefore
  <2>4. CASE ok
    <3>1. saved' >= asked'.at
      BY <1>1, <2>1, <2>4 DEF DoSnapshot
    <3>2. c2s' = Append(Append(c2s, Props(restart_hint)), Done(TRUE))
      <4>1. c2s' = c2s \o <<Props(restart_hint)>> \o <<Done(TRUE)>>
        BY <2>1, <2>4
      <4>2. Props(restart_hint) \in ToSm /\ Done(TRUE) \in ToSm
        BY <1>1, MessageTypes
      <4> QED BY <1>1, <4>1, <4>2, TwoSent
    <3>3. HintIn(c2s', sm'.hint, restart_hint)
      <4> DEFINE q == Append(c2s, Props(restart_hint))
      <4>1. HintIn(q, sm'.hint, restart_hint)
        BY <1>1, HintPublished
      <4>2. q \in Seq(ToSm) /\ Done(TRUE) \in ToSm /\ Done(TRUE).type # "SetProperties"
        BY <1>1, MessageTypes, Sent
      <4> HIDE DEF q
      <4>3. HintIn(Append(q, Done(TRUE)), sm'.hint, restart_hint)
        BY <4>1, <4>2, HintKept
      <4> QED BY <3>2, <4>3 DEF q
    <3>4. save_complete_fn = "sm_exit" => restart_hint = "Immediately"
      BY <1>2 DEF LastAsked
    <3> QED BY <2>2, <3>1, <3>3, <3>4, HintOnTheWay DEF SavedBefore
  <2> QED BY <2>3, <2>4
<1>13. CASE RecvShutdownCancelled
  BY <1>13 DEF RecvShutdownCancelled, Receive, SavedBefore
<1>14. ASSUME NEW m \in {"SaveComplete", "Die"}, Receive(m), UNCHANGED <<c2s, asked, saved>>
       PROVE  /\ Answered => SavedBefore
              /\ ~Answered => m # "SaveComplete"
              /\ wm = "running" /\ UNCHANGED <<smhook, sm>>
              /\ Dones' = Dones /\ (In(s2c', "SaveComplete") # {} => In(s2c, "SaveComplete") # {})
              /\ LastHint("Immediately") => LastHint("Immediately")'
  <2>1. m \in FromSm
    BY DEF FromSm
  <2>2. /\ sm' = sm /\ wm = "running"
        /\ m = "SaveComplete" => In(s2c, "SaveComplete") # {}
        /\ In(s2c', "SaveComplete") # {} => In(s2c, "SaveComplete") # {}
    BY <1>2, <1>14, <2>1, Received
  <2>3. LastHint("Immediately") => LastHint("Immediately")'
    BY <1>14, <2>2 DEF LastHint, Published
  <2> QED BY <1>2, <1>14, <2>2, <2>3 DEF Answered, Dones, Receive
<1>15. CASE RecvSaveComplete
  <2>1. /\ Receive("SaveComplete") /\ UNCHANGED <<c2s, asked, saved>> /\ save_complete_fn' = "none"
        /\ wm' = "left" => save_complete_fn = "sm_exit"
        /\ wm' = "restarted" => save_complete_fn = "sm_restart"
    BY <1>14, <1>15 DEF RecvSaveComplete, End
  <2>2. Answered /\ UNCHANGED smhook /\ (LastHint("Immediately") => LastHint("Immediately")')
    BY <1>14, <2>1
  <2> QED BY <1>2, <2>1, <2>2 DEF SavedBefore
<1>16. CASE RecvDie
  <2>1. /\ Receive("Die") /\ UNCHANGED <<c2s, asked, saved, save_complete_fn>> /\ wm' = "died"
    BY <1>16 DEF RecvDie, End
  <2>2. Answered' => Answered
    BY <1>14, <2>1 DEF Answered
  <2> QED BY <1>2, <1>14, <2>1, <2>2, NoNearer
<1>17. CASE mod_sm_close
  <2>1. UNCHANGED <<wm, smhook, save_complete_fn, c2s, s2c, sm, saved, asked>>
    BY <1>17 DEF mod_sm_close, data, net
  <2>2. Answered' => Answered
    BY <2>1 DEF Answered, Dones, In
  <2>3. LastHint("Immediately") => LastHint("Immediately")'
    BY <2>1 DEF LastHint, Published
  <2> QED BY <1>2, <2>1, <2>2, <2>3, NoNearer
<1>18. ASSUME NEW t \in FromSm \ {"SaveComplete"}, s2c' = Append(s2c, t), UNCHANGED <<core, data, c2s>>,
              sm'.phase # "saved", sm'.hint = sm.hint
       PROVE  SavedBefore'
  <2>1. In(s2c', "SaveComplete") = In(s2c, "SaveComplete")
    BY <1>1, <1>18, SentBack
  <2>2. UNCHANGED <<wm, smhook, save_complete_fn, saved, asked>>
    BY <1>18 DEF core, data
  <2>3. Answered' => Answered
    BY <1>18, <2>1, <2>2 DEF Answered, Dones
  <2>4. LastHint("Immediately") => LastHint("Immediately")'
    BY <1>18 DEF LastHint, Published
  <2> QED BY <1>2, <2>2, <2>3, <2>4, NoNearer
<1>19. CASE SmServe
  BY <1>1, <1>18, <1>19 DEF SmServe, SmStart, FromSm
<1>20. CASE \E shutdown \in BOOLEAN : SmSave(shutdown)
  BY <1>1, <1>18, <1>20 DEF SmSave, SmStart, FromSm
<1>21. CASE SmReceive
  <2> DEFINE m == Head(c2s)
  <2>1. c2s # <<>> /\ c2s' = Tail(c2s) /\ SentTo(m) /\ UNCHANGED <<wm, smhook, save_complete_fn, saved, asked>>
    BY <1>21 DEF SmReceive, SentTo, core, data
  <2>2. /\ 1 \in Dones <=> m.type = "SaveYourselfDone"
        /\ \A i \in Dones' : i \in Nat \ {0} /\ i + 1 \in Dones
    BY <1>1, <2>1, Taken DEF Dones
  <2>3. m.type \in {"SaveYourselfRequest", "SetProperties", "SaveYourselfDone", "SaveYourselfPhase2Request"}
    BY <1>1, <2>1, Taken DEF ToSm, Phase2Request
  <2>4. LastHint("Immediately") => HintIn(Tail(c2s), IF m.type = "SetProperties" THEN m.hint ELSE sm.hint, "Immediately")
    BY <1>1, <2>1, HintTaken, HintOnTheWay
  <2> HIDE DEF m
  <2>5. sm'.hint = IF m.type = "SetProperties" THEN m.hint ELSE sm.hint
    BY <1>1, <2>1, <2>3 DEF SentTo
  <2>6. LastHint("Immediately") => LastHint("Immediately")'
    BY <2>1, <2>4, <2>5, HintOnTheWay
  <2>7. In(s2c', "SaveComplete") = In(s2c, "SaveComplete")
    <3>1. CASE s2c' = s2c
      BY <3>1
    <3>2. CASE s2c' = Append(s2c, "SaveYourselfPhase2")
      BY <1>1, <3>2, SentBack DEF FromSm
    <3> QED BY <2>1, <2>3, <3>1, <3>2 DEF SentTo
  <2>8. sm'.phase = "saved" => sm.phase = "saved" \/ Dones # {}
    BY <1>1, <2>1, <2>2, <2>3 DEF SentTo
  <2>9. Answered' => Answered
    BY <2>1, <2>2, <2>7, <2>8 DEF Answered
  <2> QED BY <1>2, <2>1, <2>6, <2>9, NoNearer
<1>22. CASE SmComplete
  <2>1. Answered /\ UNCHANGED <<core, data, c2s>> /\ sm'.hint = sm.hint
    BY <1>1, <1>22 DEF SmComplete, Answered
  <2>2. LastHint("Immediately") => LastHint("Immediately")'
    BY <2>1 DEF LastHint, Published
  <2> QED BY <1>2, <2>1, <2>2, NoNearer DEF core, data
<1>23. CASE SmCancel
  BY <1>1, <1>18, <1>23 DEF SmCancel, FromSm
<1>24. CASE UNCHANGED vars
  BY <1>3, <1>24 DEF vars, data, net
<1> QED
  BY <1>6, <1>7, <1>8, <1>9, <1>10, <1>11, <1>12, <1>13, <1>15, <1>16, <1>17, <1>19, <1>20,
     <1>21, <1>22, <1>23, <1>24 DEF Next

-----------------------------------------------------------------------------
(* The theorems *)

\* The first states
LEMMA InitInv == Init => SessionInv
<1> SUFFICES ASSUME Init PROVE SessionInv
  OBVIOUS
<1> USE SessionAssumption
<1>1. c2s = <<>> /\ c2s \in Seq(ToSm) /\ waiting \in Seq(BOOLEAN)
  BY DEF Init
<1>2. s2c \in Seq(FromSm)
  <2>1. "SaveYourself" \in FromSm
    BY DEF FromSm
  <2>2. <<"SaveYourself">> \in Seq(FromSm) /\ <<>> \in Seq(FromSm)
    BY <2>1
  <2> QED BY <2>2 DEF Init
<1>3. Bounded
  <2>1. sm \in [phase : {"idle", "saving", "phase2", "saved", "cancelled", "over"},
                shutdown : BOOLEAN, hint : Hints]
    <3>1. "IfRunning" \in Hints
      BY DEF Hints
    <3>2. \E p \in {"idle", "saving"} : sm = [phase |-> p, shutdown |-> FALSE, hint |-> "IfRunning"]
      BY DEF Init
    <3>3. PICK p \in {"idle", "saving"} : sm = [phase |-> p, shutdown |-> FALSE, hint |-> "IfRunning"]
      BY <3>2
    <3> QED BY <3>1, <3>3
  <2>2. asked \in [what : Requests, at : 0 .. session, cmd : Cmds \cup {None},
                   crossing : BOOLEAN, failed : BOOLEAN]
    <3>1. session = 0 /\ "none" \in Requests
      BY DEF Init, Requests
    <3>2. 0 \in 0 .. session
      BY <3>1
    <3> QED BY <3>1, <3>2 DEF Init
  <2>3. /\ left \in [changes : Nat, requests : Nat, saves : Nat, breaks : Nat]
        /\ session + left.changes <= MaxChanges /\ session \in 0 .. MaxChanges /\ saved \in 0 .. session
    BY DEF Init
  <2>4. /\ wm \in Ended \cup {"running"} /\ smhook \in BOOLEAN /\ sm_conn \in BOOLEAN
        /\ sent_save_done \in BOOLEAN /\ some_sent \in BOOLEAN /\ restart_hint \in Hints
        /\ save_complete_fn = "none" /\ other \in Cmds \cup {None}
    BY DEF Init, Hints
  <2> QED BY <1>1, <1>2, <2>1, <2>2, <2>3, <2>4 DEF Bounded, TypeOK
<1>4. PhaseRequests = {} /\ Dones = {}
  BY <1>1 DEF PhaseRequests, Dones, Of
<1>5. \/ sm.phase = "idle" /\ s2c = <<>>
      \/ sm.phase = "saving" /\ s2c = <<"SaveYourself">>
  BY DEF Init
<1>6. OneAnswer
  <2>1. /\ Cancels = {}
        /\ sm.phase = "idle" => Asks = {}
        /\ Asks \subseteq {1}
        /\ \A i \in Asks : s2c[i] = "SaveYourself"
    BY <1>5 DEF Cancels, Asks, In
  <2> QED BY <1>4, <1>5, <2>1 DEF OneAnswer
<1>7. LastAsked /\ SavedBefore
  <2>1. In(s2c, "SaveComplete") = {}
    BY <1>5 DEF In
  <2> QED BY <1>4, <1>5, <2>1 DEF Init, LastAsked, SavedBefore, Answered
<1> QED BY <1>3, <1>6, <1>7 DEF SessionInv

\* The steps
LEMMA InvStep == SessionInv /\ [Next]_vars => SessionInv'
BY BoundedStep, AnswerStep, LastAskedStep, SavedStep DEF SessionInv

\* Types: at every step of exit, restart, save and of the session manager, whatever
\* the number of requests, saves and changes (exec.c, sm_session.c)
THEOREM SessionTypeOK == Spec => []TypeOK
<1>1. SessionInv => TypeOK
  BY DEF SessionInv, Bounded
<1> QED BY <1>1, InitInv, InvStep, PTL DEF Spec

\* The manager gets only the answers it waits for: the second phase and a
\* cancellation that race never make two SaveYourselfDone (sent_save_done in
\* sm_save_yourself_phase2 and sm_shutdown_cancelled).
THEOREM OneDoneAlways == Spec => []OneDone
<1>1. SessionInv => OneDone
  BY DEF SessionInv, Bounded, TypeOK, OneAnswer, OneDone
<1> QED BY <1>1, InitInv, InvStep, PTL DEF Spec

\* What ends the window manager under a session manager is the last request made, and
\* unless a save was under way or failed, the session is saved and the restart hint
\* published by then (mod_sm_smhook, sm_save_complete, sm_set_properties).
THEOREM RequestsKept == Spec => []RequestKept
<1>1. SessionInv => RequestKept
  <2> SUFFICES ASSUME SessionInv PROVE RequestKept
    OBVIOUS
  <2>1. LastRequestWins
    BY DEF SessionInv, Bounded, LastAsked, LastRequestWins
  <2>2. SavedFirstQuiet
    BY DEF SessionInv, SavedBefore, Answered, SavedFirstQuiet, SavedFirst, LastAsked
  <2> QED BY <2>1, <2>2 DEF RequestKept
<1> QED BY <1>1, InitInv, InvStep, PTL DEF Spec
=============================================================================
