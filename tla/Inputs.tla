------------------------------- MODULE Inputs -------------------------------
(***************************************************************************)
(* The descriptors of the main loop (libmainloop/select.c), the pipes from *)
(* programs (libmainloop/exec.c) and the connections of notionflux         *)
(* (mod_notionflux.c) that use them.                                       *)
(***************************************************************************)
EXTENDS Integers, Sequences, FiniteSets, SequencesExt

CONSTANTS
  Pipes,       \* from the programs that are started, with the handlers of their data
  Conns,       \* of clients of notionflux
  Nothing,
  MAX_SERVED, MAX_DATA,
  InputCalls,  \* calls that break the invariant and are included: "nomem"
  InUse,       \* sets of streams, one of which is in use in a behaviour
  MaxData, MaxRequest  \* bounds: what a program, and a client before the end mark, sends

Streams == Pipes \cup Conns

ASSUME InputsAssumption ==
  /\ IsFiniteSet(Streams) /\ Pipes \cap Conns = {} /\ Nothing \notin Streams
  /\ MAX_SERVED \in Nat /\ MAX_DATA \in Nat

\* X and the listening socket are open before
Listen == 0
Fds == 1..Cardinality(Streams) + 1

VARIABLES
  open,       \* the stream each descriptor stands for
  streams,    \* per stream: sent, read, ended (the mark or the last of it was sent), closed
              \* (the client hung up), state "none", "new", "waiting" (to be accepted),
              \* "open", "done" or "failed" (closed after an error)
  input_fds,  \* the descriptors that are registered, with their callbacks and data
  bufs,       \* the buffers of the connections that are served
  rfds, next, \* the descriptors pselect returned; the one to be looked at next
  handled,    \* what each handler was called with: data, and how often the end
  replied     \* what each connection was told

inputs == <<open, streams, input_fds, bufs, rfds, next, handled, replied>>

Entry(fd, fn, data) == [fd |-> fd, fn |-> fn, data |-> data]
FreeBuf == [fd |-> -1, ndata |-> 0, data |-> FALSE]

InputsInit ==
  /\ open = [fd \in Fds |-> Nothing]
  /\ \E used \in InUse :
       streams = [st \in Streams |-> [sent |-> 0, read |-> 0, ended |-> FALSE, closed |-> FALSE,
                                     state |-> IF st \in used THEN "new" ELSE "none"]]
  /\ input_fds = <<Entry(Listen, "connection_attempt", Nothing)>>
  /\ bufs = [b \in 1..MAX_SERVED |-> FreeBuf]
  /\ rfds = {} /\ next = -1
  /\ handled = [p \in Pipes |-> [data |-> 0, ends |-> 0]]
  /\ replied = [c \in Conns |-> <<>>]

\* The kernel takes the lowest descriptor that is free
FreeFd(o) == CHOOSE fd \in Fds : o[fd] = Nothing /\ \A x \in Fds : o[x] = Nothing => fd <= x
find_input_fd(l, fd) == {k \in DOMAIN l : l[k].fd = fd}

\* At the end of the list; none twice
mainloop_register_input_fd(l, e) == IF find_input_fd(l, e.fd) # {} THEN l ELSE Append(l, e)

\* Mutant: the descriptor is closed but stays
mainloop_unregister_input_fd_not(l, fd) == l
mainloop_unregister_input_fd(l, fd) ==
  LET ks == find_input_fd(l, fd)
  IN IF ks = {} THEN l ELSE RemoveAt(l, CHOOSE k \in ks : \A j \in ks : k <= j)

\* The program or the client sends, and ends its data; a client connects, and hangs up
Send(st) ==
  /\ ~streams[st].ended /\ ~streams[st].closed /\ streams[st].state \in {"waiting", "open"}
  /\ streams[st].sent < (IF st \in Pipes THEN MaxData ELSE MaxRequest)
  /\ streams' = [streams EXCEPT ![st].sent = @ + 1]
  /\ UNCHANGED <<open, input_fds, bufs, rfds, next, handled, replied>>
End(st) ==
  /\ ~streams[st].ended /\ ~streams[st].closed /\ streams[st].state \in {"waiting", "open"}
  /\ streams' = [streams EXCEPT ![st].ended = TRUE]
  /\ UNCHANGED <<open, input_fds, bufs, rfds, next, handled, replied>>
Connect(c) ==
  /\ streams[c].state = "new"
  /\ streams' = [streams EXCEPT ![c].state = "waiting"]
  /\ UNCHANGED <<open, input_fds, bufs, rfds, next, handled, replied>>
Hangup(c) ==
  /\ ~streams[c].closed /\ streams[c].state \in {"waiting", "open"}
  /\ streams' = [streams EXCEPT ![c].closed = TRUE]
  /\ UNCHANGED <<open, input_fds, bufs, rfds, next, handled, replied>>

Waiting == {c \in Conns : streams[c].state = "waiting"}
Left(st) == streams[st].sent - streams[st].read
Readable(fd) ==
  IF fd = Listen THEN Waiting # {}
  ELSE open[fd] # Nothing /\ (Left(open[fd]) > 0 \/ streams[open[fd]].ended \/ streams[open[fd]].closed)

\* mainloop_select returns when a descriptor is readable
mainloop_select ==
  /\ next = -1
  /\ rfds' = {input_fds[k].fd : k \in {j \in DOMAIN input_fds : Readable(input_fds[j].fd)}}
  /\ rfds' # {}
  /\ next' = input_fds[1].fd
  /\ UNCHANGED <<open, streams, input_fds, bufs, handled, replied>>

\* The entry behind is read before the callback of this one is called
Advance(fd) ==
  LET k == CHOOSE n \in DOMAIN input_fds : input_fds[n].fd = fd
  IN IF k < Len(input_fds) THEN next' = input_fds[k + 1].fd /\ UNCHANGED rfds
     ELSE next' = -1 /\ rfds' = {}
At(fd) == input_fds[CHOOSE n \in DOMAIN input_fds : input_fds[n].fd = fd]

Skip ==
  /\ next # -1 /\ next \notin rfds /\ Advance(next)
  /\ UNCHANGED <<open, streams, input_fds, bufs, handled, replied>>

\* A program is started, when news = {p}, and its end of the pipe registered
News == {{}} \cup {{p} : p \in {q \in Pipes : streams[q].state = "new"}}
Started(news) ==
  LET fd == FreeFd(open)
      p == CHOOSE x \in news : TRUE
  IN IF news = {} THEN [open |-> open, fds |-> input_fds]
     ELSE [open |-> [open EXCEPT ![fd] = p],
           fds |-> mainloop_register_input_fd(input_fds, Entry(fd, "process_pipe", p))]
StreamsAfter(news, st, read, state) ==
  [x \in Streams |-> IF x \in news THEN [streams[x] EXCEPT !.state = "open"]
                     ELSE IF x = st THEN [streams[x] EXCEPT !.read = read, !.state = state]
                     ELSE streams[x]]

mainloop_popen_bgread ==
  /\ next = -1
  /\ \E news \in News \ {{}} :
       /\ open' = Started(news).open /\ input_fds' = Started(news).fds
       /\ streams' = StreamsAfter(news, Nothing, 0, "open")
  /\ UNCHANGED <<bufs, rfds, next, handled, replied>>

\* A callback unregisters and closes its descriptor, after a program was started or none
Close(news, st, how) ==
  /\ open' = [Started(news).open EXCEPT ![next] = Nothing]
  /\ input_fds' = mainloop_unregister_input_fd(Started(news).fds, next)
  /\ streams' = StreamsAfter(news, st, streams[st].read, how)

\* process_pipe: the handler gets the data, or the end, and may start a program.  The
\* descriptor is closed after the end, and when it cannot be read: the handler is then
\* told nothing.  There may be nothing to read
process_pipe ==
  /\ next \in rfds /\ At(next).fn = "process_pipe" /\ Advance(next)
  /\ LET st == open[next]
         p == At(next).data
     IN \/ /\ Left(st) > 0
           /\ \E news \in News :
                /\ open' = Started(news).open /\ input_fds' = Started(news).fds
                /\ streams' = StreamsAfter(news, st, streams[st].sent, "open")
           /\ handled' = [handled EXCEPT ![p].data = @ + Left(st)]
        \/ /\ Left(st) = 0 /\ streams[st].ended
           /\ \E news \in News : Close(news, st, "done")
           /\ handled' = [handled EXCEPT ![p].ends = @ + 1]
        \/ Close({}, st, "failed") /\ UNCHANGED handled
        \/ /\ Left(st) = 0 /\ ~streams[st].ended
           /\ UNCHANGED <<open, input_fds, streams, handled>>
  /\ UNCHANGED <<bufs, replied>>

Reply(c, what) == replied' = [replied EXCEPT ![c] = Append(@, what)]

\* connection_attempt.  accept may fail, and leave the client to the next round or not;
\* so may fcntl.  Memory fails only if that is among the calls
connection_attempt ==
  /\ next \in rfds /\ next = Listen /\ Advance(next)
  /\ \/ UNCHANGED <<open, streams, input_fds, bufs, replied>>
     \/ \E c \in Waiting :
          /\ streams' = [streams EXCEPT ![c].state = "failed"]
          /\ UNCHANGED <<open, input_fds, bufs, replied>>
     \/ \E c \in Waiting :
          LET fd == FreeFd(open)
              free == {b \in DOMAIN bufs : bufs[b].fd < 0}
              b == CHOOSE x \in free : \A y \in free : x <= y
          IN IF free = {}
             THEN /\ Reply(c, "busy")
                  /\ streams' = [streams EXCEPT ![c].state = "done"]
                  /\ UNCHANGED <<open, input_fds, bufs>>
             ELSE \/ /\ open' = [open EXCEPT ![fd] = c]
                     /\ streams' = [streams EXCEPT ![c].state = "open"]
                     /\ input_fds' = mainloop_register_input_fd(input_fds, Entry(fd, "receive_data", b))
                     /\ bufs' = [bufs EXCEPT ![b].fd = fd, ![b].data = TRUE]
                     /\ UNCHANGED replied
                  \/ /\ "nomem" \in InputCalls
                     /\ bufs' = [bufs EXCEPT ![b].data = TRUE]
                     /\ Reply(c, "malloc")
                     /\ streams' = [streams EXCEPT ![c].state = "done"]
                     /\ UNCHANGED <<open, input_fds>>
  /\ UNCHANGED handled

\* receive_data.  The mark that ends a request takes a place in the buffer.  The request
\* is Lua code, run before the connection is closed: it may start a program.  A client
\* that hung up, or filled the buffer, is told nothing
receive_data ==
  /\ next \in rfds /\ At(next).fn = "receive_data" /\ Advance(next)
  /\ LET c == open[next]
         b == At(next).data
         avail == Left(c) + (IF streams[c].ended THEN 1 ELSE 0)
         room == MAX_DATA - bufs[b].ndata
         n == IF avail < room THEN avail ELSE room
         end == streams[c].ended /\ n = Left(c) + 1
         close_conn(news, how) == Close(news, c, how) /\ bufs' = [bufs EXCEPT ![b] = FreeBuf]
     IN \/ Reply(c, "io") /\ close_conn({}, "failed")
        \/ /\ avail = 0 /\ room > 0 /\ ~streams[c].closed
           /\ UNCHANGED <<input_fds, open, bufs, streams, replied>>
        \/ /\ n = 0 /\ (room = 0 \/ streams[c].closed)
           /\ UNCHANGED replied /\ close_conn({}, "done")
        \/ /\ n > 0 /\ ~end /\ bufs[b].ndata + n + n = MAX_DATA
           /\ Reply(c, "toomuch") /\ close_conn({}, "done")
        \/ /\ n > 0 /\ ~end /\ bufs[b].ndata + n + n # MAX_DATA
           /\ bufs' = [bufs EXCEPT ![b].ndata = @ + n]
           /\ streams' = [streams EXCEPT ![c].read = @ + n]
           /\ UNCHANGED <<input_fds, open, replied>>
        \/ /\ n > 0 /\ end
           /\ Reply(c, "result") /\ \E news \in News : close_conn(news, "done")
  /\ UNCHANGED handled

InputsNext ==
  \/ \E st \in Streams : Send(st) \/ End(st)
  \/ \E c \in Conns : Connect(c) \/ Hangup(c)
  \/ mainloop_select \/ Skip \/ mainloop_popen_bgread \/ process_pipe
  \/ connection_attempt \/ receive_data

InputsSpec == InputsInit /\ [][InputsNext]_inputs

-----------------------------------------------------------------------------
(* Properties *)

InputsTypeOK ==
  /\ open \in [Fds -> Streams \cup {Nothing}] /\ rfds \subseteq Fds \cup {Listen}
  /\ next \in Fds \cup {Listen, -1}
  /\ \A b \in DOMAIN bufs : bufs[b].ndata \in 0..MAX_DATA

\* The descriptors registered are those that are open, each once and with the
\* callback and data of what it stands for, although numbers are used again in the
\* round in which they were closed; what is read reaches its own handler, all of it
\* before the end, and the end once unless the pipe could not be read.  A buffer is free
\* or has its connection.  A connection that is over got one answer, none if the client
\* hung up within its request or sent too much: a whole request that fits is run, or
\* refused when every buffer is taken
StreamsKept ==
  /\ InputsTypeOK
  /\ \A fd \in Fds :
       LET ks == find_input_fd(input_fds, fd)
       IN /\ open[fd] = Nothing => ks = {}
          /\ open[fd] \in Pipes => {input_fds[k] : k \in ks} = {Entry(fd, "process_pipe", open[fd])}
          /\ open[fd] \in Conns => \E b \in DOMAIN bufs :
               bufs[b].fd = fd /\ {input_fds[k] : k \in ks} = {Entry(fd, "receive_data", b)}
          /\ Cardinality(ks) <= 1
  /\ next # -1 => find_input_fd(input_fds, next) # {}
  /\ \A p \in Pipes :
       /\ handled[p].data = streams[p].read
       /\ handled[p].ends = (IF streams[p].state = "done" THEN 1 ELSE 0)
       /\ streams[p].state = "done" => streams[p].ended /\ Left(p) = 0
  /\ \A b \in DOMAIN bufs : bufs[b].fd < 0 => bufs[b] = FreeBuf
  /\ \A c \in Conns :
       LET x == streams[c]
           big == x.sent >= MAX_DATA
       IN CASE x.state = "done" -> \/ replied[c] = <<"busy">>
                                   \/ replied[c] = <<"result">> /\ x.ended
                                   \/ replied[c] = <<"toomuch">> /\ (~x.ended \/ big)
                                   \/ replied[c] = <<>> /\ (big \/ (x.closed /\ ~x.ended))
            [] x.state = "failed" -> replied[c] \in {<<>>, <<"io">>}
            [] OTHER -> replied[c] = <<>>
=============================================================================
