------------------------------- MODULE Opend -------------------------------
(***************************************************************************)
(* The open server of apue.3e/ipc2/opend and its clients of ipc2/open.     *)
(* The server has one loop, built on poll (loop.poll.c) or on select       *)
(* (loop.select.c), and a table of clients (client.c).  A client connects  *)
(* with its first csopen, and each csopen sends one request and waits for  *)
(* one answer, which recv_fd puts together from what the server sent.      *)
(*                                                                         *)
(* A step of the server is one pass over one entry of its array, and what  *)
(* poll or select returned is a copy that grows old while clients go on.   *)
(* The uid of a client is the client itself.                               *)
(***************************************************************************)
EXTENDS Integers, Sequences, FiniteSets

CONSTANTS
  Clients,
  Builds,     \* the loops to build, of "poll" and "select"
  Files,      \* the names open succeeds for
  Names,      \* the names clients ask for, with what is no file and no request
  Quitters,   \* the clients that may be killed in the middle of a call
  NALLOC,     \* by how much client[] and pollfd[] grow
  MaxCalls    \* bound on the calls of all clients

VARIABLES
  build,
  spc,       \* where the server is: "wait", "accept", "scan", "status", "dead"
  i,         \* the index of its loop
  client,    \* client[], of entries with a descriptor and a uid
  pollfd,    \* pollfd[] from 1 to numfd-1, each with its revents; not for select
  allset, rset, maxi,   \* of the select loop
  maxfd,     \* poll: room in pollfd[]; select: the highest descriptor
  handled,   \* the client of the last request, and the uid handle_request got
  fdOf,      \* the server's descriptor of a connection, 0 before and after
  backlog,   \* connections that wait for accept
  in, out,   \* what is on its way from and to a client
  cpc,       \* "new", "ready", "waiting", "gone"
  asked, got,
  calls,
  broke      \* the clients that were killed in the middle of a call

server == <<build, spc, i, client, pollfd, allset, rset, maxi, maxfd, handled>>
wires == <<fdOf, backlog, in, out>>
callers == <<cpc, asked, got, calls, broke>>
vars == <<server, wires, callers>>

ListenFd == 1
Free == [fd |-> 0, uid |-> ListenFd]
NoAnswer == [is |-> "none"]

Connected(c) == cpc[c] # "new"
ClientAt(fd) == CHOOSE c \in Clients : fdOf[c] = fd
Up == spc # "dead"
Pending(c) == \E n \in DOMAIN backlog : backlog[n] = c
Closed(c) == ~Up \/ (fdOf[c] = 0 /\ ~Pending(c))
NewFd == CHOOSE fd \in 2 .. Cardinality(Clients) + 2 :
           /\ \A c \in Clients : fdOf[c] # fd
           /\ \A n \in 2 .. fd - 1 : \E c \in Clients : fdOf[c] = n

-----------------------------------------------------------------------------
(* client.c                                                                *)

Grown(t) == t \o [n \in 1 .. NALLOC |-> Free]
FirstFree(t) == CHOOSE n \in DOMAIN t : t[n].fd = 0 /\ \A m \in 1 .. n - 1 : t[m].fd # 0

(* client_add: the table after it, and the index of the new entry          *)
client_add(t, fd, uid) ==
  LET room == IF \E n \in DOMAIN t : t[n].fd = 0 THEN t ELSE Grown(t)
      n == FirstFree(room)
  IN <<[room EXCEPT ![n] = [fd |-> fd, uid |-> uid]], n>>

(* client_del: the first entry with the descriptor keeps its uid           *)
client_del(t, fd) ==
  LET n == CHOOSE n \in DOMAIN t : t[n].fd = fd /\ \A m \in 1 .. n - 1 : t[m].fd # fd
  IN IF \E m \in DOMAIN t : t[m].fd = fd THEN [t EXCEPT ![n].fd = 0] ELSE <<>>

-----------------------------------------------------------------------------
(* The clients: ipc2/open                                                  *)

(* main calls csopen, which connects when it has not, and writes.  A write *)
(* to a server that died kills the client.  A name that is too long for    *)
(* one read of the server arrives in two pieces.                           *)
Pieces(name) == IF name = "long" THEN <<"head", "tail">> ELSE <<name>>

csopen(c, name) ==
  /\ cpc[c] \in {"new", "ready"} /\ calls < MaxCalls
  /\ calls' = calls + 1
  /\ IF Up
     THEN /\ cpc' = [cpc EXCEPT ![c] = "waiting"]
          /\ in' = [in EXCEPT ![c] = @ \o Pieces(name)]
          /\ backlog' = IF Connected(c) THEN backlog ELSE Append(backlog, c)
     ELSE /\ cpc' = [cpc EXCEPT ![c] = IF Connected(c) THEN "gone" ELSE @]
          /\ UNCHANGED <<in, backlog>>
  /\ asked' = [asked EXCEPT ![c] = name]
  /\ got' = [got EXCEPT ![c] = NoAnswer]
  /\ UNCHANGED <<server, fdOf, out, broke>>

(* recv_fd: a text goes to standard error; a null byte and a status, which *)
(* may come with the text or alone, end the call.  End of file is an error.*)
recv_fd(c) ==
  /\ cpc[c] = "waiting"
  /\ IF out[c] = <<>>
     THEN /\ Closed(c)
          /\ cpc' = [cpc EXCEPT ![c] = "ready"]
          /\ got' = [got EXCEPT ![c] = [is |-> "closed"]]
          /\ UNCHANGED out
     ELSE LET last == IF out[c][1].is = "text" /\ Len(out[c]) > 1 THEN 2 ELSE 1
          IN /\ out' = [out EXCEPT ![c] = SubSeq(@, last + 1, Len(@))]
             /\ IF out[c][last].is = "text"
                THEN UNCHANGED <<cpc, got>>
                ELSE /\ cpc' = [cpc EXCEPT ![c] = "ready"]
                     /\ got' = [got EXCEPT ![c] = out[c][last]]
  /\ UNCHANGED <<server, fdOf, backlog, in, asked, calls, broke>>

(* End of input: exit between two calls                                    *)
Leave(c) ==
  /\ cpc[c] = "ready"
  /\ cpc' = [cpc EXCEPT ![c] = "gone"]
  /\ UNCHANGED <<server, wires, asked, got, calls, broke>>

Killed(c) ==
  /\ c \in Quitters /\ cpc[c] = "waiting"
  /\ cpc' = [cpc EXCEPT ![c] = "gone"]
  /\ broke' = broke \cup {c}
  /\ UNCHANGED <<server, wires, asked, got, calls>>

-----------------------------------------------------------------------------
(* request.c                                                               *)

(* Closing a socket with unread data resets the connection.                *)
Gone(c) == cpc[c] = "gone"
Reset(c) == Gone(c) /\ out[c] # <<>>
Readable(c) == in[c] # <<>> \/ Gone(c)

(* A write to a client that is gone raises SIGPIPE.                        *)
Die == spc' = "dead"
Send(c, message) == out' = [out EXCEPT ![c] = Append(@, message)]

(* A read takes what there is; the piece that fills the buffer comes       *)
(* alone.  Only the text before the first null byte is parsed.             *)
ReadOf(c) == in[c][1]
RestOf(c) == IF in[c][1] = "head" THEN Tail(in[c]) ELSE <<>>

(* handle_request: the descriptor, or the text of an error whose status    *)
(* follows in a message of its own (send_err)                              *)
handle_request(c, uid) ==
  /\ in' = [in EXCEPT ![c] = RestOf(c)]
  /\ handled' = <<c, uid>>
  /\ IF Gone(c) THEN Die /\ UNCHANGED <<i, out>>
     ELSE IF ReadOf(c) \in Files
     THEN Send(c, [is |-> "fd", name |-> ReadOf(c)]) /\ spc' = "scan" /\ i' = i + 1
     ELSE Send(c, [is |-> "text"]) /\ spc' = "status" /\ UNCHANGED i

(* send_fd of an error                                                     *)
SendStatus ==
  /\ spc = "status"
  /\ IF Gone(handled[1]) THEN Die /\ UNCHANGED <<i, out>>
     ELSE /\ Send(handled[1], [is |-> "status"])
          /\ spc' = "scan" /\ i' = i + 1
  /\ UNCHANGED <<build, client, pollfd, allset, rset, maxi, maxfd, handled,
                 fdOf, backlog, in, callers>>

-----------------------------------------------------------------------------
(* loop.poll.c                                                             *)

Revents(fd) ==
  {e \in {"POLLIN", "POLLHUP"} : IF e = "POLLHUP" THEN Gone(ClientAt(fd))
                                                  ELSE Readable(ClientAt(fd))}

Poll ==
  /\ build = "poll" /\ spc = "wait"
  /\ LET now == [n \in DOMAIN pollfd |-> [fd |-> pollfd[n].fd, revents |-> Revents(pollfd[n].fd)]]
     IN /\ backlog # <<>> \/ \E n \in DOMAIN now : now[n].revents # {}
        /\ pollfd' = now
  /\ spc' = IF backlog # <<>> THEN "accept" ELSE "scan"
  /\ i' = 1
  /\ UNCHANGED <<build, client, allset, rset, maxi, maxfd, handled, wires, callers>>

\* Mutant: pollfd[] grows one client late.
PollAcceptLate ==
  /\ build = "poll" /\ spc = "accept"
  /\ LET c == Head(backlog) IN
     /\ fdOf' = [fdOf EXCEPT ![c] = NewFd]
     /\ client' = client_add(client, NewFd, c)[1]
     /\ pollfd' = Append(pollfd, [fd |-> NewFd, revents |-> {}])
     /\ maxfd' = IF Len(pollfd) + 1 > maxfd THEN maxfd + NALLOC ELSE maxfd
  /\ backlog' = Tail(backlog)
  /\ spc' = "scan"
  /\ UNCHANGED <<build, i, allset, rset, maxi, handled, in, out, callers>>

PollAccept ==
  /\ build = "poll" /\ spc = "accept"
  /\ LET c == Head(backlog) IN
     /\ fdOf' = [fdOf EXCEPT ![c] = NewFd]
     /\ client' = client_add(client, NewFd, c)[1]
     /\ pollfd' = Append(pollfd, [fd |-> NewFd, revents |-> {}])
     /\ maxfd' = IF Len(pollfd) + 1 = maxfd THEN maxfd + NALLOC ELSE maxfd
  /\ backlog' = Tail(backlog)
  /\ spc' = "scan"
  /\ UNCHANGED <<build, i, allset, rset, maxi, handled, in, out, callers>>

(* hungup: client_del, close, and the last entry takes the place           *)
PollClose(fd) ==
  /\ client' = client_del(client, fd)
  /\ spc' = IF client' = <<>> THEN "dead" ELSE "scan"
  /\ fdOf' = [fdOf EXCEPT ![ClientAt(fd)] = 0]
  /\ in' = [in EXCEPT ![ClientAt(fd)] = <<>>]
  /\ LET last == Len(pollfd)
     IN pollfd' = SubSeq([pollfd EXCEPT ![i] = pollfd[last]], 1, last - 1)
  /\ UNCHANGED <<i, handled, out>>

(* One entry.  client[i] is what stands at the same index of the table.    *)
PollScan ==
  /\ build = "poll" /\ spc = "scan" /\ i \in DOMAIN pollfd
  /\ LET fd == pollfd[i].fd  c == ClientAt(fd) IN
     IF "POLLHUP" \in pollfd[i].revents
     THEN PollClose(fd)
     ELSE IF "POLLIN" \in pollfd[i].revents
     THEN IF in[c] # <<>> THEN /\ handle_request(c, client[i + 1].uid)
                               /\ UNCHANGED <<client, fdOf, pollfd>>
          ELSE IF Reset(c) THEN Die /\ UNCHANGED <<i, client, pollfd, handled, fdOf, in, out>>
          ELSE PollClose(fd)
     ELSE i' = i + 1 /\ UNCHANGED <<spc, client, pollfd, handled, fdOf, in, out>>
  /\ UNCHANGED <<build, allset, rset, maxi, maxfd, backlog, callers>>

(* The next poll writes all of revents anew, the next select all of rset.  *)
PollAgain ==
  /\ build = "poll" /\ spc = "scan" /\ i \notin DOMAIN pollfd
  /\ spc' = "wait" /\ i' = 1
  /\ pollfd' = [n \in DOMAIN pollfd |-> [pollfd[n] EXCEPT !.revents = {}]]
  /\ UNCHANGED <<build, client, allset, rset, maxi, maxfd, handled, wires, callers>>

-----------------------------------------------------------------------------
(* loop.select.c                                                           *)

\* Mutant: the highest descriptor itself is not asked for.
SelectBelow ==
  /\ build = "select" /\ spc = "wait"
  /\ rset' = {fd \in allset : fd < maxfd /\ fd # ListenFd /\ Readable(ClientAt(fd))}
               \cup {fd \in {ListenFd} : backlog # <<>>}
  /\ rset' # {}
  /\ spc' = IF ListenFd \in rset' THEN "accept" ELSE "scan"
  /\ i' = 1
  /\ UNCHANGED <<build, client, pollfd, allset, maxi, maxfd, handled, wires, callers>>

Select ==
  /\ build = "select" /\ spc = "wait"
  /\ rset' = {fd \in allset : fd <= maxfd /\ fd # ListenFd /\ Readable(ClientAt(fd))}
               \cup {fd \in {ListenFd} : backlog # <<>>}
  /\ rset' # {}
  /\ spc' = IF ListenFd \in rset' THEN "accept" ELSE "scan"
  /\ i' = 1
  /\ UNCHANGED <<build, client, pollfd, allset, maxi, maxfd, handled, wires, callers>>

(* A new client, and back to select                                        *)
SelectAccept ==
  /\ build = "select" /\ spc = "accept"
  /\ LET c == Head(backlog)  added == client_add(client, NewFd, c) IN
     /\ fdOf' = [fdOf EXCEPT ![c] = NewFd]
     /\ client' = added[1]
     /\ allset' = allset \cup {NewFd}
     /\ maxfd' = IF NewFd > maxfd THEN NewFd ELSE maxfd
     /\ maxi' = IF added[2] > maxi THEN added[2] ELSE maxi
  /\ backlog' = Tail(backlog)
  /\ spc' = "wait" /\ rset' = {}
  /\ UNCHANGED <<build, i, pollfd, handled, in, out, callers>>

SelectClose(fd) ==
  /\ client' = client_del(client, fd)
  /\ spc' = IF client' = <<>> THEN "dead" ELSE "scan"
  /\ allset' = allset \ {fd}
  /\ fdOf' = [fdOf EXCEPT ![ClientAt(fd)] = 0]
  /\ i' = i + 1
  /\ UNCHANGED <<handled, in, out>>

SelectScan ==
  /\ build = "select" /\ spc = "scan" /\ i <= maxi
  /\ LET fd == client[i].fd  c == ClientAt(fd) IN
     IF fd = 0 \/ fd \notin rset
     THEN i' = i + 1 /\ UNCHANGED <<spc, client, allset, handled, fdOf, in, out>>
     ELSE IF in[c] # <<>>
     THEN handle_request(c, client[i].uid) /\ UNCHANGED <<client, allset, fdOf>>
     ELSE IF Reset(c) THEN Die /\ UNCHANGED <<i, client, allset, handled, fdOf, in, out>>
     ELSE SelectClose(fd)
  /\ UNCHANGED <<build, pollfd, rset, maxi, maxfd, backlog, callers>>

SelectAgain ==
  /\ build = "select" /\ spc = "scan" /\ i > maxi
  /\ spc' = "wait" /\ i' = 1 /\ rset' = {}
  /\ UNCHANGED <<build, client, pollfd, allset, maxi, maxfd, handled, wires, callers>>

-----------------------------------------------------------------------------
(* main and the first lines of loop: the poll loop puts the descriptor it  *)
(* listens on into the table too.                                          *)
Init ==
  /\ build \in Builds
  /\ spc = "wait" /\ i = 1
  /\ client = IF build = "poll" THEN client_add(<<>>, ListenFd, ListenFd)[1] ELSE <<>>
  /\ pollfd = <<>>
  /\ allset = IF build = "select" THEN {ListenFd} ELSE {}
  /\ rset = {} /\ maxi = 0
  /\ maxfd = IF build = "poll" THEN NALLOC ELSE ListenFd
  /\ handled = CHOOSE h \in {<<c, c>> : c \in Clients} : TRUE
  /\ fdOf = [c \in Clients |-> 0]
  /\ backlog = <<>>
  /\ in = [c \in Clients |-> <<>>] /\ out = [c \in Clients |-> <<>>]
  /\ cpc = [c \in Clients |-> "new"]
  /\ asked = [c \in Clients |-> "none"]
  /\ got = [c \in Clients |-> NoAnswer]
  /\ calls = 0
  /\ broke = {}

ServerStep ==
  \/ Poll \/ PollAccept \/ PollScan \/ PollAgain
  \/ Select \/ SelectAccept \/ SelectScan \/ SelectAgain
  \/ SendStatus

Next ==
  \/ ServerStep
  \/ \E c \in Clients : recv_fd(c) \/ Leave(c) \/ Killed(c) \/ \E name \in Names : csopen(c, name)

Spec == Init /\ [][Next]_vars

(* The server runs while it has something to do, and a client goes on with *)
(* its call; that it makes one, or exits, is up to its input.              *)
Fairness == WF_vars(ServerStep) /\ \A c \in Clients : WF_vars(recv_fd(c))
FairSpec == Spec /\ Fairness

-----------------------------------------------------------------------------
(* csopen returns the answer to its own request: the descriptor of the     *)
(* file it named, or the status of an error when that cannot be opened, or *)
(* an error because the server is gone.                                    *)
Answers(name) ==
  {IF name \in Files THEN [is |-> "fd", name |-> name] ELSE [is |-> "status"]}
    \cup {a \in {[is |-> "closed"]} : ~Up}
AnswersMatch ==
  \A c \in Clients : cpc[c] = "ready" => got[c] \in Answers(asked[c])

(* The server ends only after a client was killed in the middle of a call. *)
ServerStays == Up \/ broke # {}

(* Between two passes the server watches every connection it has accepted, *)
(* and has one entry in its table for each, with room left to say so.      *)
Accepted == {fdOf[c] : c \in Clients} \ {0}
Watched == IF build = "poll" THEN {pollfd[n].fd : n \in DOMAIN pollfd} ELSE allset \ {ListenFd}
TableMatches ==
  spc = "wait" =>
    /\ Watched = Accepted
    /\ \A fd \in Accepted : Cardinality({n \in DOMAIN client : client[n].fd = fd}) = 1
    /\ \A n \in DOMAIN client : client[n].fd \in Accepted \cup {0, ListenFd}
    /\ build = "poll" => Len(pollfd) = Cardinality(Accepted) /\ Len(pollfd) < maxfd
    /\ build = "select" => \A n \in DOMAIN client : client[n].fd # 0 => n <= maxi

(* A call of csopen returns, whatever the other clients do, and also when  *)
(* the server dies.                                                        *)
Busy(c) == cpc[c] = "waiting"
EveryOpenReturns == \A c \in Clients : Busy(c) ~> ~Busy(c)

=============================================================================
