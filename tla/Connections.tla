---------------------------- MODULE Connections ----------------------------
(***************************************************************************)
(* The connections of the contest server (server_framework.c) and an       *)
(* import of runs that waits for the runs under way (new-server.c,         *)
(* new_server_html.c, new_server_html_4.c).                                *)
(*                                                                         *)
(* A CGI program connects, passes two descriptors, its output and the end  *)
(* of a pipe, and sends its request.  The server answers on the connection *)
(* and writes the page into the output as another client of its own, which *)
(* closes both descriptors: the end of the pipe tells the CGI program that *)
(* its page is complete.                                                   *)
(*                                                                         *)
(* An import may have no answer for a while: testing is suspended until    *)
(* all runs under way are judged, and restored when the file is imported,  *)
(* or its client is gone, or the server stops.                             *)
(***************************************************************************)
EXTENDS Naturals, Sequences, FiniteSets, SequencesExt

CONSTANTS
    Cgis,       \* CGI programs: each makes one request
    None,
    MaxRuns,    \* bound: runs
    MaxFaults   \* bound: kills, restarts, lost connections to userlist-server

ASSUME ConnectionsAssumption ==
    /\ None \notin Cgis /\ IsFiniteSet(Cgis)
    /\ MaxRuns \in Nat /\ MaxFaults \in Nat

VARIABLES
    phase,      \* where nsf_main_loop is
    clients,    \* the list of clients, the newest first
    table,      \* what the descriptors of the server are open for
    ul,         \* descriptor of the connection to userlist-server, or 0
    rset, wset, \* what select has found and nothing has used yet
    backlog,    \* connections to accept
    ulDown,     \* userlist-server has closed its connection
    cgi,        \* state of each CGI program
    request,    \* what it asks for
    sent, got,  \* parts of Script that it has sent, that the server has read
    answer,     \* the reply that it has not read
    output,     \* whose page was written to its output
    suspended,  \* testing_suspended
    saved,      \* saved_testing_suspended
    pending,    \* whose file pending_xml_import is; its client is client_id
    transient,  \* runs under way
    held,       \* pending runs: submitted while testing was suspended
    imported,   \* whose files were imported
    wish,       \* what the judges want testing_suspended to be
    ordered,    \* judges gave orders about testing
    cut,        \* whose page was not written when the server stopped
    faults

program == <<cgi, request, sent, backlog>>
contest == <<suspended, saved, pending, transient, held, imported,
             wish, ordered>>
vars == <<phase, clients, table, ul, rset, wset, ulDown, program,
          got, answer, output, contest, cut, faults>>

\* Numbers of descriptors: three for each CGI program, and one of ul.
Fds == 1 .. 3 * Cardinality(Cgis) + 1

Conn(i) == <<"conn", i>>
Out(i)  == <<"out", i>>
Wait(i) == <<"wait", i>>
UserList == <<"userlist">>

Objects == {Conn(i) : i \in Cgis} \cup {Out(i) : i \in Cgis}
           \cup {Wait(i) : i \in Cgis} \cup {UserList}

ASSUME NoneAssumption == None \notin Objects /\ None \notin {"ok", "error"}

\* What a CGI program sends: new_server_clnt_pass_fd, then its request.  (The
\* length of a packet and its data are read in two passes, here in one.)
Script == <<"creds", "pass", "fds", "request">>

\* How much of it was sent after each call
Calls == {0, 3, 4}

Requests == {"submit", "order", "import"}

Reading == {"creds", "fds", "packet"}
Writing == {"write", "writeclose"}
ClientStates == Reading \cup Writing \cup {"ready", "disconnect"}

Client ==
    [id : Cgis \cup {None}, fd : Fds, out : Fds \cup {0}, wait : Fds \cup {0},
     st : ClientStates, marked : BOOLEAN, text : Cgis \cup {None, "ok", "error"}]

Over == {"ok", "failed", "killed"}

Phases == {"select", "pass"}

TypeOK ==
    /\ phase \in Phases
    /\ clients \in Seq(Client)
    /\ table \in [Fds -> Objects \cup {None}]
    /\ ul \in Fds \cup {0}
    /\ rset \subseteq Fds /\ wset \subseteq Fds
    /\ backlog \subseteq Cgis /\ ulDown \in BOOLEAN
    /\ cgi \in [Cgis -> {"idle", "asks"} \cup Over]
    /\ request \in [Cgis -> Requests \cup {None}]
    /\ sent \in [Cgis -> Calls] /\ got \in [Cgis -> 0 .. Len(Script)]
    /\ \A i \in Cgis : got[i] <= sent[i]
    /\ answer \in [Cgis -> {None, "ok", "error"}]
    /\ output \in [Cgis -> Cgis \cup {None}]
    /\ suspended \in BOOLEAN /\ saved \in BOOLEAN
    /\ pending \in Cgis \cup {None}
    /\ transient \in 0 .. MaxRuns /\ held \in 0 .. MaxRuns
    /\ imported \subseteq Cgis
    /\ wish \in BOOLEAN /\ ordered \in BOOLEAN
    /\ cut \subseteq Cgis
    /\ faults \in 0 .. MaxFaults

Init ==
    /\ phase = "pass" /\ clients = <<>>
    /\ table = [f \in Fds |-> None] /\ ul = 0
    /\ rset = {} /\ wset = {} /\ backlog = {}
    /\ ulDown = FALSE
    /\ cgi = [i \in Cgis |-> "idle"]
    /\ request = [i \in Cgis |-> None]
    /\ sent = [i \in Cgis |-> 0] /\ got = [i \in Cgis |-> 0]
    /\ answer = [i \in Cgis |-> None] /\ output = [i \in Cgis |-> None]
    /\ suspended \in BOOLEAN /\ wish = suspended
    /\ saved = FALSE /\ pending = None
    /\ transient \in 0 .. MaxRuns - 1 /\ held = 0
    /\ imported = {} /\ ordered = FALSE /\ cut = {} /\ faults = 0

-----------------------------------------------------------------------------
(* Descriptors and clients                                                 *)

Lowest(t) ==
    CHOOSE f \in Fds : t[f] = None /\ \A g \in Fds : t[g] = None => f <= g

Opened(t, o) == [t EXCEPT ![Lowest(t)] = o]

Closed(t, fs) == [f \in Fds |-> IF f \in fs THEN None ELSE t[f]]

NewClient(i, f) ==
    [id |-> i, fd |-> f, out |-> 0, wait |-> 0, st |-> "creds",
     marked |-> FALSE, text |-> None]

\* nsf_send_reply
Replied(p, r) == [p EXCEPT !.st = "write", !.text = r]

WithoutFds(p) == [p EXCEPT !.out = 0, !.wait = 0]

\* Mutant: the descriptors stay with the client, too.
Mut_PageOf(k) ==
    LET p == clients[k]
    IN  <<[NewClient(None, p.out) EXCEPT !.wait = p.wait, !.st = "writeclose",
                                         !.text = p.id]>>
        \o [clients EXCEPT ![k] = Replied(p, "ok")]

\* Mutant: the end of the pipe stays with the client.
Mut_PageAlone(k) ==
    LET p == clients[k]
    IN  <<[NewClient(None, p.out) EXCEPT !.st = "writeclose", !.text = p.id]>>
        \o [clients EXCEPT ![k] = [Replied(p, "ok") EXCEPT !.out = 0]]

\* nsf_new_autoclose for the page of client k, then the reply to it
PageOf(k) ==
    LET p == clients[k]
    IN  <<[NewClient(None, p.out) EXCEPT !.wait = p.wait, !.st = "writeclose",
                                         !.text = p.id]>>
        \o [clients EXCEPT ![k] = Replied(WithoutFds(p), "ok")]

\* nsf_close_client_fds, then the reply.
Bare(k, r) == [clients EXCEPT ![k] = Replied(WithoutFds(@), r)]

First(Test(_)) == SelectInSeq(clients, Test)

ById(i) == First(LAMBDA p : p.id = i)

-----------------------------------------------------------------------------
(* The end of an import                                                    *)

\* Mutant: without serve_judge_suspended.
Mut_Restored == suspended' = saved /\ UNCHANGED <<transient, held>>

\* testing_suspended is restored, and runs that were held are judged.
Restored ==
    /\ suspended' = saved
    /\ IF suspended /\ ~saved
       THEN transient' = transient + held /\ held' = 0
       ELSE UNCHANGED <<transient, held>>

-----------------------------------------------------------------------------
(* A pass of nsf_main_loop                                                 *)

HasInput(i) == got[i] < sent[i] \/ cgi[i] \in Over

Readers ==
    {f \in Fds : \E k \in DOMAIN clients :
        /\ clients[k].fd = f /\ clients[k].st \in Reading
        /\ \E i \in Cgis : table[f] = Conn(i) /\ HasInput(i)}

Writers == {f \in Fds : \E k \in DOMAIN clients :
                            clients[k].fd = f /\ clients[k].st \in Writing}

Pages == {f \in Fds : \E k \in DOMAIN clients :
                          clients[k].fd = f /\ clients[k].st = "writeclose"}

\* Mutant: a watch without a descriptor is not left out.
Mut_Closing == {ul}

\* The connection to userlist-server is closed in its watch.
Closing == IF ulDown THEN {ul} ELSE {}

\* select, the watches, and accept, which takes the lowest free number.  The
\* sets keep the numbers that were ready before.  Outputs may be full.
Select ==
    /\ phase = "select" /\ phase' = "pass"
    /\ rset' = Readers \cup Closing
    /\ \E full \in SUBSET Pages : wset' = Writers \ full
    /\ ul' = IF ulDown THEN 0 ELSE ul
    /\ ulDown' = FALSE
    /\ LET t == Closed(table, Closing)
       IN  \/ \E i \in backlog :
                 /\ backlog' = backlog \ {i}
                 /\ clients' = <<NewClient(i, Lowest(t))>> \o clients
                 /\ table' = Opened(t, Conn(i))
           \/ backlog = {} /\ table' = t /\ UNCHANGED <<backlog, clients>>
    /\ UNCHANGED <<cgi, request, sent, got, answer, output, contest, cut, faults>>

Ready == First(LAMBDA p : \/ p.st \in Reading /\ p.fd \in rset
                          \/ p.st \in Writing /\ p.fd \in wset)

Io(p) ==
    /\ phase = "pass" /\ Ready # 0 /\ p = clients[Ready]
    /\ rset' = rset \ {p.fd} /\ wset' = wset \ {p.fd}

Moves(st) == clients' = [clients EXCEPT ![Ready].st = st]

\* read_from_control_connection, with something to read
Read(p, i) ==
    /\ Io(p) /\ p.st \in Reading /\ table[p.fd] = Conn(i)
    /\ got[i] < sent[i]
    /\ got' = [got EXCEPT ![i] = @ + 1]
    /\ \/ p.st = "creds" /\ Moves("packet") /\ table' = table
       \/ p.st = "packet" /\ Moves("ready") /\ table' = table
       \/ /\ p.st = "fds"
          /\ LET t1 == Opened(table, Out(i))
             IN  /\ table' = Opened(t1, Wait(i))
                 /\ clients' = [clients EXCEPT ![Ready] =
                        [p EXCEPT !.st = "packet", !.out = Lowest(table),
                                  !.wait = Lowest(t1)]]
    /\ UNCHANGED <<phase, ul, ulDown, program, answer, output, contest,
                   cut, faults>>

\* ... with nothing to read: the other side is gone, or the bit in rset was
\* of a descriptor that had the same number.
ReadNothing(p, i) ==
    /\ Io(p) /\ p.st \in Reading /\ table[p.fd] = Conn(i)
    /\ got[i] = sent[i]
    /\ IF cgi[i] \in Over \/ p.st \in {"creds", "fds"}
       THEN Moves("disconnect") ELSE UNCHANGED clients
    /\ UNCHANGED <<phase, table, ul, ulDown, program, got, answer, output,
                   contest, cut, faults>>

\* write_to_control_connection
WriteReply(p, i) ==
    /\ Io(p) /\ p.st = "write" /\ table[p.fd] = Conn(i)
    /\ IF cgi[i] \in Over
       THEN Moves("disconnect") /\ answer' = answer
       ELSE Moves("packet") /\ answer' = [answer EXCEPT ![i] = p.text]
    /\ UNCHANGED <<phase, table, ul, ulDown, program, got, output, contest,
                   cut, faults>>

WritePage(p, i) ==
    /\ Io(p) /\ p.st = "writeclose" /\ table[p.fd] = Out(i)
    /\ Moves("disconnect")
    /\ output' = [output EXCEPT ![i] = p.text]
    /\ UNCHANGED <<phase, table, ul, ulDown, program, got, answer, contest,
                   cut, faults>>

-----------------------------------------------------------------------------
(* Commands: handle_control_command                                        *)

Asking == First(LAMBDA p : p.st = "ready")

Handle(p, part) ==
    /\ phase = "pass" /\ Ready = 0 /\ Asking # 0 /\ p = clients[Asking]
    /\ Script[got[p.id]] = part
    /\ UNCHANGED <<phase, rset, wset, program, got, answer, output, cut,
                   faults>>

PassFd(p) ==
    /\ Handle(p, "pass")
    /\ clients' = [clients EXCEPT ![Asking].st = "fds"]
    /\ UNCHANGED <<table, ul, ulDown, contest>>

\* ns_open_ul_connection, when a request has come
UlNow == IF ul = 0 THEN Lowest(table) ELSE ul
TableNow == IF ul = 0 THEN Opened(table, UserList) ELSE table

Request(p, r) ==
    /\ Handle(p, "request") /\ request[p.id] = r
    /\ ul' = UlNow /\ ulDown' = ulDown

ReplyPage == clients' = PageOf(Asking) /\ table' = TableNow

ReplyBare(r) ==
    /\ clients' = Bare(Asking, r)
    /\ table' = Closed(TableNow, {clients[Asking].out, clients[Asking].wait})

\* He may not do it, or userlist-server does not answer.
Refuse(p, r) ==
    /\ Request(p, r)
    /\ ReplyBare("error")
    /\ UNCHANGED contest

\* Without a new run when MaxRuns is reached, for any other page.
Submit(p) ==
    /\ Request(p, "submit")
    /\ ReplyPage
    /\ IF transient + held < MaxRuns
       THEN IF suspended THEN held' = held + 1 /\ transient' = transient
            ELSE transient' = transient + 1 /\ held' = held
       ELSE UNCHANGED <<held, transient>>
    /\ UNCHANGED <<suspended, saved, pending, imported, wish, ordered>>

\* An order that is given while an import waits is forgotten when it ends.
Suspension(p, b) ==
    /\ Request(p, "order")
    /\ ReplyBare("ok")
    /\ suspended' = b
    /\ wish' = IF pending = None THEN b ELSE wish
    /\ ordered' = TRUE
    /\ UNCHANGED <<saved, pending, transient, held, imported>>

TestSuspend(p) == Suspension(p, TRUE)
TestResume(p) == Suspension(p, FALSE)

\* cmd_import_xml_runs
ImportNow(p) ==
    /\ Request(p, "import") /\ transient = 0
    /\ ReplyPage \/ ReplyBare("ok")
    /\ imported' = imported \cup {p.id}
    /\ UNCHANGED <<suspended, saved, pending, transient, held, wish, ordered>>

\* Mutant: an import that waits already is replaced.
Mut_MayWait == TRUE

MayWait == pending = None

ImportRefused(p) ==
    /\ Request(p, "import") /\ transient > 0 /\ ~MayWait
    /\ ReplyBare("error")
    /\ UNCHANGED contest

ImportWaits(p) ==
    /\ Request(p, "import") /\ transient > 0 /\ MayWait
    /\ clients' = [clients EXCEPT ![Asking].st = "packet", ![Asking].marked = TRUE]
    /\ table' = TableNow
    /\ saved' = suspended /\ suspended' = TRUE
    /\ pending' = p.id
    /\ UNCHANGED <<transient, held, imported, wish, ordered>>

-----------------------------------------------------------------------------
(* client_state_delete                                                     *)

Leaving == First(LAMBDA p : p.st = "disconnect")

\* All is read, written and executed.
Ended == phase = "pass" /\ Ready = 0 /\ Asking = 0

Disconnect(k) ==
    LET p == clients[k]
    IN  /\ clients' = RemoveAt(clients, k)
        /\ table' = Closed(table, {p.fd, p.out, p.wait})
        /\ UNCHANGED <<phase, ul, rset, wset, ulDown, program, got, answer,
                       output, cut>>

Delete ==
    /\ Ended /\ Leaving # 0
    /\ Disconnect(Leaving)
    /\ ~clients[Leaving].marked
    /\ UNCHANGED <<contest, faults>>

\* ns_client_destroy_callback
DeleteMarked ==
    /\ Ended /\ Leaving # 0
    /\ Disconnect(Leaving)
    /\ clients[Leaving].marked
    /\ pending' = None /\ Restored
    /\ UNCHANGED <<saved, imported, wish, ordered, faults>>

\* ... when the description of the contest cannot be read.
DeleteForgotten ==
    /\ Ended /\ Leaving # 0
    /\ Disconnect(Leaving)
    /\ clients[Leaving].marked
    /\ UNCHANGED <<contest, faults>>

-----------------------------------------------------------------------------
(* The next pass begins: ns_loop_callback                                  *)

PassEnds ==
    /\ Ended /\ Leaving = 0
    /\ phase' = "select" /\ rset' = {} /\ wset' = {}

\* ns_loop_callback reads the reply packets that have come.
LoopRead ==
    /\ PassEnds
    /\ transient' \in 0 .. transient
    /\ pending # None => transient' > 0
    /\ UNCHANGED <<clients, table, ul, ulDown, program, got, answer,
                   output, suspended, saved, pending, held, imported, wish, ordered,
                   cut, faults>>

\* handle_pending_xml_import, after the last of them
LoopEnd ==
    /\ PassEnds /\ pending # None
    /\ suspended' = saved
    /\ IF suspended /\ ~saved
       THEN transient' = held /\ held' = 0
       ELSE transient' = 0 /\ held' = held
    /\ pending' = None
    /\ UNCHANGED <<ul, ulDown, program, got, answer, output, saved, wish,
                   ordered, cut, faults>>

Unmarked(cs) == [k \in DOMAIN cs |->
                    IF cs[k].id = pending THEN [cs[k] EXCEPT !.marked = FALSE]
                    ELSE cs[k]]

\* runlog_import_xml may print something or not.
LoopImport ==
    LET k == ById(pending)
    IN  /\ LoopEnd
        /\ k # 0
        /\ imported' = imported \cup {pending}
        /\ \/ clients' = Unmarked(PageOf(k)) /\ table' = table
           \/ /\ clients' = Unmarked(Bare(k, "ok"))
              /\ table' = Closed(table, {clients[k].out, clients[k].wait})

LoopAbandon ==
    /\ LoopEnd
    /\ ById(pending) = 0
    /\ UNCHANGED <<clients, table, imported>>

-----------------------------------------------------------------------------
(* A signal: ns_unload_contests, nsf_cleanup, and the program starts anew. *)

\* Mutant: serve_state_destroy leaves testing as it is.
Mut_Unloaded == UNCHANGED <<suspended, transient, held>>

Unloaded == IF pending = None THEN UNCHANGED <<suspended, transient, held>>
            ELSE Restored

Stop ==
    /\ phase = "select"
    /\ faults < MaxFaults /\ faults' = faults + 1
    /\ phase' = "pass"
    /\ Unloaded /\ pending' = None
    /\ cut' = cut \cup {clients[k].text : k \in
                  {l \in DOMAIN clients : clients[l].st = "writeclose"}}
    /\ clients' = <<>> /\ table' = [f \in Fds |-> None]
    /\ ul' = 0 /\ ulDown' = FALSE /\ backlog' = {}
    /\ UNCHANGED <<rset, wset, cgi, request, sent, got, answer, output,
                   saved, imported, wish, ordered>>

-----------------------------------------------------------------------------
(* CGI programs (new_server_clnt), and userlist-server.  They are shown    *)
(* while the server sleeps: a pass uses what select has found then.        *)

Sleeps == phase = "select"

Connect(i, r) ==
    /\ Sleeps /\ cgi[i] = "idle"
    /\ cgi' = [cgi EXCEPT ![i] = "asks"]
    /\ request' = [request EXCEPT ![i] = r]
    /\ backlog' = backlog \cup {i}
    /\ UNCHANGED <<phase, clients, table, ul, rset, wset, ulDown, sent, got,
                   answer, output, contest, cut, faults>>

Send(i) ==
    /\ Sleeps /\ cgi[i] = "asks" /\ sent[i] < Len(Script)
    /\ sent' = [sent EXCEPT ![i] = CHOOSE n \in Calls :
                   n > @ /\ \A m \in Calls : m > @ => n <= m]
    /\ UNCHANGED <<phase, clients, table, ul, rset, wset, ulDown, cgi,
                   request, backlog, got, answer, output, contest, cut, faults>>

Open(o) == \E f \in Fds : table[f] = o

\* An error, or the end of the connection
Fail(i) ==
    /\ Sleeps /\ cgi[i] = "asks"
    /\ answer[i] = "error" \/ (answer[i] = None /\ i \notin backlog /\ ~Open(Conn(i)))
    /\ cgi' = [cgi EXCEPT ![i] = "failed"]
    /\ UNCHANGED <<phase, clients, table, ul, rset, wset, ulDown, request,
                   sent, backlog, got, answer, output, contest, cut, faults>>

\* Mutant: it does not wait for the page.
Mut_Succeed(i) ==
    /\ Sleeps /\ cgi[i] = "asks" /\ answer[i] = "ok"
    /\ cgi' = [cgi EXCEPT ![i] = "ok"]
    /\ UNCHANGED <<phase, clients, table, ul, rset, wset, ulDown, request, sent,
                   backlog, got, answer, output, contest, cut, faults>>

\* The reply came, and the page ends: "wait for the server to complete page
\* generation".
Succeed(i) ==
    /\ Sleeps /\ cgi[i] = "asks" /\ answer[i] = "ok" /\ ~Open(Wait(i))
    /\ cgi' = [cgi EXCEPT ![i] = "ok"]
    /\ UNCHANGED <<phase, clients, table, ul, rset, wset, ulDown, request, sent,
                   backlog, got, answer, output, contest, cut, faults>>

Kill(i) ==
    /\ Sleeps /\ cgi[i] = "asks"
    /\ faults < MaxFaults /\ faults' = faults + 1
    /\ cgi' = [cgi EXCEPT ![i] = "killed"]
    /\ UNCHANGED <<phase, clients, table, ul, rset, wset, ulDown, request,
                   sent, backlog, got, answer, output, contest, cut>>

UlDown ==
    /\ Sleeps /\ ul # 0 /\ ~ulDown /\ ulDown' = TRUE
    /\ faults < MaxFaults /\ faults' = faults + 1
    /\ UNCHANGED <<phase, clients, table, ul, rset, wset, program, got,
                   answer, output, contest, cut>>

Command(p) ==
    \/ PassFd(p) \/ Submit(p) \/ TestSuspend(p) \/ TestResume(p)
    \/ \E r \in Requests : Refuse(p, r)
    \/ ImportNow(p) \/ ImportRefused(p) \/ ImportWaits(p)

InOut(p, i) ==
    Read(p, i) \/ ReadNothing(p, i) \/ WriteReply(p, i) \/ WritePage(p, i)

Server ==
    \/ LoopRead \/ LoopImport \/ LoopAbandon \/ Select
    \/ \E k \in DOMAIN clients :
          Command(clients[k]) \/ \E i \in Cgis : InOut(clients[k], i)
    \/ Delete \/ DeleteMarked \/ DeleteForgotten

Program(i) == Send(i) \/ Fail(i) \/ Succeed(i)

Next ==
    \/ Server
    \/ Stop
    \/ \E i \in Cgis : Program(i) \/ Kill(i) \/ \E r \in Requests : Connect(i, r)
    \/ UlDown

Spec == Init /\ [][Next]_vars

-----------------------------------------------------------------------------
(* Properties                                                              *)

Slots(f) ==
    {s \in (DOMAIN clients) \X {"fd", "out", "wait"} : clients[s[1]][s[2]] = f}
    \cup (IF ul = f THEN {UserList} ELSE {})

(***************************************************************************)
(* Every open descriptor of the server has one place where it is kept, and *)
(* no place keeps a closed one: nothing is leaked, closed twice, or closed *)
(* under its number by the owner of another (nsf_new_autoclose,            *)
(* nsf_close_client_fds, client_state_delete).                             *)
(***************************************************************************)
DescriptorsOwned ==
    \A f \in Fds : Cardinality(Slots(f)) = (IF table[f] = None THEN 0 ELSE 1)

(***************************************************************************)
(* A CGI program that ends well has the page of its own request, complete, *)
(* and its file is imported if it asked for that, unless the server was    *)
(* stopped in between.  Its output has no page of another request.         *)
(***************************************************************************)
PageOfRequest ==
    \A i \in Cgis :
        /\ output[i] \in {i, None}
        /\ cgi[i] = "ok" =>
              /\ request[i] = "submit" => output[i] = i \/ i \in cut
              /\ request[i] = "import" => i \in imported

(***************************************************************************)
(* An import that waits and the client that waits for it know each other;  *)
(* the client holds the descriptors for the report and has no other        *)
(* business (client_id, contest_id and destroy_callback).                  *)
(***************************************************************************)
ImportOfClient ==
    \A k \in DOMAIN clients :
        clients[k].marked <=> clients[k].id # None /\ clients[k].id = pending

(***************************************************************************)
(* When no import waits, testing is suspended if and only if the judges    *)
(* want it, however the last import ended: done, its client gone, or the   *)
(* server restarted.                                                       *)
(***************************************************************************)
SuspensionRestored ==
    IF pending = None THEN suspended = wish ELSE saved = wish

(***************************************************************************)
(* Runs that were submitted while an import waited are not forgotten: if   *)
(* no judge has given orders, none is held without an import that waits    *)
(* or testing suspended from before.                                       *)
(***************************************************************************)
HeldRunsJudged ==
    pending = None /\ ~ordered /\ ~wish => held = 0

(***************************************************************************)
(* Nobody is forgotten: when the server has nothing to do, a CGI program   *)
(* that has sent its request either waits for its import, or has a reply   *)
(* and the end of its page, or has lost its connection.                    *)
(***************************************************************************)
NobodyForgotten ==
    Sleeps /\ backlog = {} /\ Readers = {} /\ Writers = {} =>
        \A i \in Cgis :
            cgi[i] = "asks" /\ sent[i] = Len(Script) =>
                \/ pending = i
                \/ answer[i] = "error"
                \/ answer[i] = "ok" /\ ~Open(Wait(i))
                \/ ~Open(Conn(i))
=============================================================================
