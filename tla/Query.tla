------------------------------- MODULE Query --------------------------------
(***************************************************************************)
(* A query (mod_query: wedln.c, edln.c, complete.c): a line to edit, with  *)
(* history, and completions.  The completor is Lua code; it answers        *)
(* through the WComplProxy it is given, at once or when the program it     *)
(* asks has answered (popen_completions), and by then the line may be      *)
(* another, another completion asked for, or the query gone.  Programs     *)
(* answer in any order, or not at all.                                     *)
(*                                                                         *)
(* Requests are numbered: compl_waiting_id is the request an answer is     *)
(* taken for, compl_current_id the one the list on screen answers and      *)
(* compl_timed_id the one the timer will make, which runs after each       *)
(* change of the line when completions are shown automatically.            *)
(*                                                                         *)
(* Lines are numbers, and a line is a prefix of the larger ones.  Marks,   *)
(* the selection, scrolling and drawing are left out.                      *)
(***************************************************************************)
EXTENDS Integers, Sequences, FiniteSets, SequencesExt, History

CONSTANTS
  Lines,     \* what can stand on the line, 0 = nothing
  Context,   \* the context of the query in the history, and
  Foreign,   \* that of other queries
  NULL,
  Histories, \* the history the query finds: <<hist, hist_head, hist_count>>
  Pushed,    \* what other queries and Lua code push
  Calls,     \* calls included although they break a property, see Guarded
  MaxOps     \* bound of the model: what the user and others do

ASSUME QueryAssumption ==
  /\ Lines \subseteq Nat /\ 0 \in Lines
  /\ Context # Foreign /\ Entries = {Context, Foreign} \X Lines /\ Pushed \subseteq Entries
  /\ MaxOps \in Nat

VARIABLES
  autoshow,  \* mod_query_config.autoshowcompl
  w,         \* the WEdln, see Init
  proxies,   \* the WComplProxies of programs that have not answered
  actions,   \* deferred actions of the WEdln
  left       \* operations left

vars == <<history, autoshow, w, proxies, actions, left>>

-----------------------------------------------------------------------------
(* Changes of the line *)

\* wedln_alloc_compl_id
Alloc(u) == [u EXCEPT !.waiting = IF @ + 1 > 0 THEN @ + 1 ELSE 0]

\* wedln_update_handler, of a change that is not a completion
Changed(u) ==
  IF ~autoshow THEN u
  ELSE LET v == Alloc(u)
       IN [v EXCEPT !.current = -1, !.timed = v.waiting, !.timer = TRUE, !.fresh = TRUE]

\* edln_do_set_completion: edln_reset leaves what was saved for the history
SetLine(u, line) == [u EXCEPT !.line = line, !.before = line, !.histent = -1]

-----------------------------------------------------------------------------
(* Completions *)

\* wedln_do_set_completions: n > 0 sorted strings.  shown = what it returns
Shown(strs) == autoshow \/ Len(strs) > 1
SetCompletions(u, strs, cycle, run) ==
  LET sel == CASE cycle = 0 \/ ~autoshow -> 0 [] cycle > 0 /\ autoshow -> 1 [] OTHER -> Len(strs)
      common == CHOOSE l \in Range(strs) : \A k \in Range(strs) : l <= k
      v == [u EXCEPT !.current = -1, !.done = run]
      x == IF ~autoshow THEN SetLine(v, common) ELSE IF sel > 0 THEN SetLine(v, strs[sel]) ELSE v
  IN IF Shown(strs) THEN [x EXCEPT !.list = strs, !.sel = sel] ELSE x

Hide(u) == [u EXCEPT !.list = <<>>, !.sel = 0]

\* Mutant: the answer is not asked which request it is for
complproxy_set_completions_any(u, proxy, strs) ==
  LET v == IF strs = <<>> THEN Hide([u EXCEPT !.done = proxy.run])
           ELSE LET x == SetCompletions(u, strs, proxy.cycle, proxy.run)
                IN IF Shown(strs) THEN x ELSE Hide(x)
  IN [v EXCEPT !.current = proxy.id]

\* with wedln_set_completions
complproxy_set_completions(u, proxy, strs) ==
  LET v == IF strs = <<>> THEN Hide([u EXCEPT !.done = proxy.run])
           ELSE LET x == SetCompletions(u, strs, proxy.cycle, proxy.run)
                IN IF Shown(strs) THEN x ELSE Hide(x)
  IN IF u.waiting = proxy.id THEN [v EXCEPT !.current = proxy.id] ELSE u

\* what a completor may answer for a line: up to two lines it is a prefix of
Answers(line) ==
  {<<>>} \cup {<<k>> : k \in {x \in Lines : x >= line}}
  \cup {<<p[1], p[2]>> : p \in {x \in Lines \X Lines : line <= x[1] /\ x[1] < x[2]}}

\* mod_query_history_complete: the lines of the context that begin with what is
\* before the point, the latest first
InContext(i) == i \in DOMAIN Get /\ Get[i][1] = Context
HistoryMatches(u) ==
  LET ms[i \in 0..hist_count] ==
        IF i = 0 THEN <<>>
        ELSE IF InContext(i - 1) /\ u.before <= Get[i - 1][2] THEN Append(ms[i - 1], Get[i - 1][2])
        ELSE ms[i - 1]
  IN ms[hist_count]

\* wedln_do_call_completor in history mode, and what it returns
HistoryCompleted(u, id, cycle) ==
  LET strs == HistoryMatches(u)
      v == [u EXCEPT !.waiting = id, !.runs = @ + 1, !.fresh = FALSE]
      x == SetCompletions(v, strs, cycle, v.runs)
  IN IF strs = <<>> THEN Hide(v) ELSE IF Shown(strs) THEN [x EXCEPT !.current = id] ELSE x
HistoryReturns(u) == HistoryMatches(u) # <<>> /\ Shown(HistoryMatches(u))

\* otherwise: the completor answers at once, or a program will
CompletorCalled(u, id, cycle) ==
  LET v == [u EXCEPT !.runs = @ + 1, !.fresh = FALSE]
      proxy == [id |-> id, cycle |-> cycle, run |-> v.runs, line |-> u.line]
  IN \/ /\ \E strs \in Answers(u.line) : w' = complproxy_set_completions(v, proxy, strs)
        /\ UNCHANGED proxies
     \/ /\ w' = v
        /\ proxies' = proxies \cup {proxy}

\* Mutant: the first request is not a request
timed_complete_first ==
  LET u == [w EXCEPT !.timed = -1, !.timer = FALSE]
  IN /\ w.open /\ w.timer /\ actions = <<>>
     /\ IF w.timed # w.waiting \/ w.timed <= 0 THEN w' = u /\ UNCHANGED proxies
        ELSE IF w.histmode THEN w' = HistoryCompleted(u, w.timed, 0) /\ UNCHANGED proxies
        ELSE CompletorCalled(u, w.timed, 0)
     /\ UNCHANGED <<history, autoshow, actions, left>>

\* the timer; it runs no more when the WEdln is gone
timed_complete ==
  LET u == [w EXCEPT !.timed = -1, !.timer = FALSE]
  IN /\ w.open /\ w.timer /\ actions = <<>>
     /\ IF w.timed # w.waiting \/ w.timed < 0 THEN w' = u /\ UNCHANGED proxies
        ELSE IF w.histmode THEN w' = HistoryCompleted(u, w.timed, 0) /\ UNCHANGED proxies
        ELSE CompletorCalled(u, w.timed, 0)
     /\ UNCHANGED <<history, autoshow, actions, left>>

-----------------------------------------------------------------------------
(* What the user does *)

Op == left > 0 /\ left' = left - 1
Key == w.open /\ Op
Guarded(call, cond) == cond => call \in Calls

Edited(u) ==
  /\ Key /\ w' = Changed(u)
  /\ UNCHANGED <<history, autoshow, proxies, actions>>

\* edln_insstr_n, edln_rspc and those that call them, but edln_cut
Edit == \E line \in Lines \ {w.line} : Edited([w EXCEPT !.line = line, !.before = line])

\* edln_cut: what is between the mark and the point goes, but the update that follows
\* does not say that the line changed (edln.c:549-555), so wedln_update_handler
\* neither sets the timer nor gives up the request that is waited for
edln_cut ==
  /\ Key /\ Guarded("cut", autoshow)
  /\ \E line \in Lines \ {w.line} :
       w' = [w EXCEPT !.line = line, !.before = line, !.fresh = autoshow]
  /\ UNCHANGED <<history, autoshow, proxies, actions>>

MovePoint ==
  /\ Key /\ \E k \in {x \in Lines : x <= w.line} \ {w.before} : w' = [w EXCEPT !.before = k]
  /\ UNCHANGED <<history, autoshow, proxies, actions>>

\* search: the entries of the context, that begin with the line up to the point
Found(i, match) == InContext(i) /\ (match /\ w.before > 0 => w.before <= Get[i][2])

SetHist(i, match) ==
  LET line == Get[i][2]
  IN [w EXCEPT !.saved = IF w.histent < 0 THEN w.line ELSE @, !.histent = i, !.line = line,
               !.before = IF match THEN IF @ < line THEN @ ELSE line ELSE line]

edln_history_prev(match) ==
  \E i \in {k \in DOMAIN Get : k > w.histent /\ Found(k, match)} :
    /\ \A k \in DOMAIN Get : w.histent < k /\ k < i => ~Found(k, match)
    /\ Edited(SetHist(i, match))

edln_history_next(match) ==
  LET found == {k \in DOMAIN Get : k < w.histent /\ Found(k, match)}
      e == CHOOSE i \in found : \A k \in found : k <= i
  IN /\ w.histent >= 0
     \* the search begins at histent-1, which must be in the history
     /\ Edited(IF found # {} /\ w.histent - 1 \in DOMAIN Get THEN SetHist(e, match)
               ELSE [w EXCEPT !.line = w.saved, !.before = w.saved, !.saved = NULL, !.histent = -1])

\* wedln_next_completion and wedln_prev_completion
CycleTo(forward) ==
  LET n == Len(w.list)
      i == IF forward THEN IF w.sel <= 0 \/ w.sel = n THEN 1 ELSE w.sel + 1
           ELSE IF w.sel <= 1 THEN n ELSE w.sel - 1
  IN IF w.current = w.waiting /\ n > 0 /\ i # w.sel
     THEN SetLine([w EXCEPT !.sel = i], w.list[i]) ELSE w

wedln_cycle(forward) ==
  /\ Key /\ w' = CycleTo(forward)
  /\ UNCHANGED <<history, autoshow, proxies, actions>>

\* wedln_complete; always = the cycle argument ends in "-always"
wedln_complete(cycle, always, histmode) ==
  LET valid == histmode = w.histmode
      cyclei == IF valid \/ always THEN cycle ELSE 0
      u == [w EXCEPT !.histmode = histmode]
      v == Alloc(u)
  IN /\ Key
     /\ IF valid /\ cyclei # 0 /\ autoshow /\ w.list # <<>>
        THEN w' = CycleTo(cyclei > 0) /\ UNCHANGED proxies
        ELSE IF histmode
        THEN /\ Guarded("one", HistoryMatches(v) # <<>> /\ ~HistoryReturns(v))
             /\ w' = IF HistoryReturns(v) THEN HistoryCompleted(v, v.waiting, cyclei)
                     ELSE [HistoryCompleted(v, v.waiting, cyclei)
                             EXCEPT !.waiting = w.waiting, !.fresh = w.fresh]
             /\ UNCHANGED proxies
        ELSE CompletorCalled(v, v.waiting, cyclei)
     /\ UNCHANGED <<history, autoshow, actions>>

Defer(action) ==
  /\ Key /\ action \notin Range(actions)
  /\ actions' = Append(actions, action)
  /\ UNCHANGED <<history, autoshow, w, proxies>>

wedln_finish == Defer("wedln_do_finish")
input_cancel == Defer("region_rqdispose")

\* wedln_do_finish, or region_rqdispose; the WEdln, its timer and its watches go
ExecuteDeferred ==
  /\ actions # <<>>
  /\ IF Head(actions) = "wedln_do_finish" THEN mod_query_history_push_(<<Context, w.line>>)
     ELSE UNCHANGED history
  /\ actions' = <<>>
  /\ w' = [w EXCEPT !.open = FALSE, !.timer = FALSE, !.fresh = FALSE]
  /\ UNCHANGED <<autoshow, proxies, left>>

-----------------------------------------------------------------------------
(* Everybody else *)

\* Another query ends, or Lua code changes the history
ChangeHistory ==
  /\ Op
  /\ mod_query_history_clear \/ \E e \in Pushed : mod_query_history_push_(e)
  /\ UNCHANGED <<autoshow, w, proxies, actions>>

\* A program has answered: the receiver of popen_completions calls the proxy,
\* unless it fails.  The proxy of a WEdln that is gone has lost it
Answered ==
  /\ actions = <<>>
  /\ \E proxy \in proxies :
       /\ proxies' = proxies \ {proxy}
       /\ \/ UNCHANGED w
          \/ w.open /\ \E strs \in Answers(proxy.line) : w' = complproxy_set_completions(w, proxy, strs)
  /\ UNCHANGED <<history, autoshow, actions, left>>

Init ==
  /\ \E h \in Histories : hist = h[1] /\ hist_head = h[2] /\ hist_count = h[3]
  /\ proxies = {}
  /\ autoshow \in BOOLEAN
  /\ w = [open |-> TRUE, line |-> 0, before |-> 0, histent |-> -1, saved |-> NULL,
          waiting |-> -1, current |-> -1, timed |-> -1, timer |-> FALSE,
          list |-> <<>>, sel |-> 0, histmode |-> FALSE,
          runs |-> 0, done |-> 0, fresh |-> FALSE]
  /\ actions = <<>>
  /\ left = MaxOps

UserNext ==
  \/ Edit \/ edln_cut \/ MovePoint \/ wedln_finish \/ input_cancel
  \/ \E b \in BOOLEAN : edln_history_prev(b) \/ edln_history_next(b) \/ wedln_cycle(b)
  \/ \E cycle \in {-1, 0, 1}, always, histmode \in BOOLEAN : wedln_complete(cycle, always, histmode)

Next ==
  \/ UserNext \/ timed_complete \/ ExecuteDeferred \/ ChangeHistory \/ Answered

Spec == Init /\ [][Next]_vars

-----------------------------------------------------------------------------
(* Properties *)

\* Completions are those of a later run than the ones before, and, if they are
\* shown automatically, those of the line that is there, whatever was typed,
\* asked for or answered in the meantime
AnswerFits ==
  [][w'.done # w.done => w'.done > w.done /\
       (autoshow => \A p \in proxies : p.run = w'.done => p.line = w.line)]_vars

\* Types
QueryTypeOK ==
  /\ HistoryTypeOK
  /\ w.line \in Lines /\ w.before \in Lines /\ w.before <= w.line
  /\ w.waiting \in -1..MaxOps /\ w.timed \in -1..MaxOps /\ left \in 0..MaxOps

\* Types, and: after a change of the line the timer is set until the completor was asked for
\* completions of it, whatever else was asked for and failed in the meantime
AskedAfterChange ==
  /\ QueryTypeOK
  /\ w.fresh => w.timer /\ w.timed = w.waiting
=============================================================================
