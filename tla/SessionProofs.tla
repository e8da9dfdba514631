--------------------------- MODULE SessionProofs ---------------------------
(***************************************************************************)
(* Proofs about Session, for any names, lists of names and bounds and any  *)
(* server that answers in any order, late, or not at all: AnswersMatched   *)
(* and BulkReport.                                                         *)
(*                                                                         *)
(* Every id is drawn once, for one name.  The invariant says that there is *)
(* an assignment of names to the ids drawn so far that all the tables,     *)
(* requests, frames and locals agree with: what an answer says is right    *)
(* for the id it carries, whatever was asked or answered since.            *)
(***************************************************************************)
EXTENDS Session, Framing, BitSet, TLAPS, FiniteSetTheorems

----------------------------------------------------------------------------
(* What agrees with an assignment of names to ids.                         *)

States == { Creating, Active, Closed }
Greetings == { "SET_BYTE_ORDER", "CONNECTION_VALIDATION", "OTHER" }
Statuses == { "ok", "no type", "rejected" }
Asked == { "CREATE_CHANNEL", "INIT", "SEARCH", "ECHO", "VALIDATION" }

\* The server id of the channel of an id that has the name.
SidOf(name, pv) == { ServerId(c) : c \in { d \in DOMAIN name : name[d] = pv } }

\* A table of ids gives them their names.
Agrees(name, f) == \A id \in DOMAIN f : id \in DOMAIN name /\ f[id] = name[id]

ChannelsFit(name, chans) ==
  \A c \in DOMAIN chans :
    /\ c \in DOMAIN name
    /\ chans[c] \in [pv : {name[c]}, state : States, sid : {0, ServerId(c)}]
    /\ chans[c].state = Active => chans[c].sid = ServerId(c)

MonitorsFit(name, mons) ==
  \A r \in DOMAIN mons :
    /\ r \in DOMAIN name
    /\ mons[r] \in [pv : {name[r]}, sid : SidOf(name, name[r]), typed : BOOLEAN]

FitsMessage(name, m) ==
  \/ m.cmd \in {"ECHO", "VALIDATION"}
  \/ \E c \in DOMAIN name :
       m = [cmd |-> "CREATE_CHANNEL", cid |-> c, pv |-> name[c]]
  \/ \E r \in DOMAIN name : \E s \in SidOf(name, name[r]) : m = InitMessage(r, s)
  \/ m.cmd = "SEARCH" /\ Agrees(name, m.names)

ServerFits(name, srv) ==
  /\ srv = [held |-> srv.held, channels |-> srv.channels, monitors |-> srv.monitors]
  /\ \A m \in srv.held : FitsMessage(name, m)
  /\ \A s \in DOMAIN srv.channels : s \in SidOf(name, srv.channels[s])
  /\ \A r \in DOMAIN srv.monitors :
       /\ r \in DOMAIN name
       /\ srv.monitors[r] \in [pv : {name[r]}, sid : Int, started : BOOLEAN]

\* The frames a server may send that has made sense of every request.
Frames(name) ==
  [cmd : Greetings \cup {"VALIDATED", "ECHO"}]
    \cup { [cmd |-> "CREATE_CHANNEL", cid |-> c, sid |-> ServerId(c), ok |-> TRUE] :
             c \in DOMAIN name }
    \cup { [cmd |-> "CREATE_CHANNEL", cid |-> c, sid |-> 0, ok |-> FALSE] :
             c \in DOMAIN name }
    \cup [cmd : {"INIT"}, rid : DOMAIN name, status : Statuses]
    \cup [cmd : {"SEARCH_RESPONSE"},
          ids : SUBSET { id \in DOMAIN name : name[id] \in Hosted }]
    \cup { [cmd |-> "UPDATE", rid |-> r, of |-> name[r]] : r \in DOMAIN name }

\* The locals of search_pvs and of add_monitors_bulk: which they are, and what
\* agrees.
IsSearch(w) ==
  w \in [kind : {"search"}, ids : {w.ids}, got : Nat, expected : {w.expected},
         found : {w.found}]

IsBulk(w) ==
  w \in [kind : {"bulk"}, ids : {w.ids}, got : Nat, expected : {w.expected},
         created : {w.created}, failed : {w.failed}, pending : {w.pending},
         done : {w.done}]

SearchFits(name, w) ==
  /\ IsSearch(w)
  /\ Agrees(name, w.ids) /\ w.found \subseteq Hosted

BulkFits(name, w) ==
  /\ IsBulk(w)
  /\ Agrees(name, w.ids)
  /\ DOMAIN w.created \subseteq DOMAIN w.ids
  /\ \A c \in DOMAIN w.created : w.created[c] = ServerId(c)
  /\ MonitorsFit(name, w.pending)

WorkFits(name, where, w) ==
  /\ where \in {"byte order", "validation", "validated"} => w = NoWork
  /\ where = "connected" =>
       w = NoWork \/ (w.kind = "searched" /\ w.found \subseteq Hosted)
  /\ where = "search" => SearchFits(name, w)
  /\ where \in BulkPhases => BulkFits(name, w)
  /\ where = "create" =>
       /\ w = [kind |-> "create", cid |-> w.cid, pv |-> w.pv]
       /\ w.cid \in DOMAIN name /\ w.pv = name[w.cid]
  /\ where = "init" => w.rid \in DOMAIN name

\* All that the session and the server hold agrees with the assignment.
Fits(name) ==
  /\ next_id \in Nat /\ DOMAIN name = 1..(next_id - 1)
  /\ phase # "ended" => next_id > 0
  /\ ChannelsFit(name, channels) /\ MonitorsFit(name, monitors)
  /\ ServerFits(name, server)
  /\ toClient \in Seq(Frames(name))
  /\ WorkFits(name, phase, work)
  /\ \A e \in published : e[1] = e[2]

NamesInv == \E name : Fits(name)

----------------------------------------------------------------------------
(* The bookkeeping of a bulk subscription.                                 *)

Answered(frame) == frame.cmd = "CREATE_CHANNEL"

\* The channels whose CREATE_CHANNEL the server has not answered.
Waiting(srv) == { m.cid : m \in { x \in srv.held : x.cmd = "CREATE_CHANNEL" } }

\* The channels add_monitors_bulk has heard of.
Noted(where, w) == IF where = "creating" THEN w.failed \cup DOMAIN w.created ELSE {}

\* A channel is answered once: no two answers on their way are for one channel,
\* and a channel that is answered, or was, does not wait.
OneAnswer(q, srv, noted) ==
  /\ \A i, j \in 1..Len(q) :
       Answered(q[i]) /\ Answered(q[j]) /\ q[i].cid = q[j].cid => i = j
  /\ \A i \in 1..Len(q) : Answered(q[i]) => q[i].cid \notin Waiting(srv) \cup noted
  /\ Waiting(srv) \cap noted = {}

\* The monitors of the call are those of distinct channels of the call, and the
\* table has them as the call has.
PendingKnown ==
  /\ \A r \in DOMAIN work.pending : \E c \in DOMAIN work.created :
       /\ work.pending[r].pv = work.ids[c] /\ work.pending[r].sid = work.created[c]
  /\ \A r, q \in DOMAIN work.pending : work.pending[r].pv = work.pending[q].pv => r = q
  /\ \A r \in DOMAIN work.pending :
       /\ r \in DOMAIN monitors
       /\ monitors[r].pv = work.pending[r].pv /\ monitors[r].sid = work.pending[r].sid

BulkKnown ==
  /\ DOMAIN work.ids \subseteq DOMAIN channels
  /\ \A c, d \in DOMAIN work.ids : work.ids[c] = work.ids[d] => c = d
  /\ work.failed \cap DOMAIN work.created = {}
  /\ \A c \in DOMAIN work.created : channels[c].state = Active
  /\ phase # "creating" => PendingKnown

BulkInv ==
  /\ OneAnswer(toClient, server, Noted(phase, work))
  /\ phase \in BulkPhases => BulkKnown

----------------------------------------------------------------------------
(* More ids are drawn: what agreed still agrees.                           *)

Extends(name, wider) ==
  /\ DOMAIN name \subseteq DOMAIN wider
  /\ \A id \in DOMAIN name : wider[id] = name[id]

LEMMA SidGrows ==
  ASSUME NEW name, NEW wider, Extends(name, wider), NEW pv
  PROVE  SidOf(name, pv) \subseteq SidOf(wider, pv)
BY DEF Extends, SidOf

LEMMA SeqGrows ==
  ASSUME NEW S, NEW T, S \subseteq T
  PROVE  Seq(S) \subseteq Seq(T)
OBVIOUS

LEMMA FramesGrow ==
  ASSUME NEW name, NEW wider, Extends(name, wider)
  PROVE  Frames(name) \subseteq Frames(wider)
<1> DEFINE created(n) == { [cmd |-> "CREATE_CHANNEL", cid |-> c, sid |-> ServerId(c),
                            ok |-> TRUE] : c \in DOMAIN n }
           refused(n) == { [cmd |-> "CREATE_CHANNEL", cid |-> c, sid |-> 0,
                            ok |-> FALSE] : c \in DOMAIN n }
           inits(n) == [cmd : {"INIT"}, rid : DOMAIN n, status : Statuses]
           hosted(n) == { id \in DOMAIN n : n[id] \in Hosted }
           hits(n) == [cmd : {"SEARCH_RESPONSE"}, ids : SUBSET hosted(n)]
           updates(n) == { [cmd |-> "UPDATE", rid |-> r, of |-> n[r]] : r \in DOMAIN n }
<1>1. created(name) \subseteq created(wider) /\ refused(name) \subseteq refused(wider)
  BY DEF Extends
<1>2. inits(name) \subseteq inits(wider)
  BY DEF Extends
<1>3. hosted(name) \subseteq hosted(wider)
  BY DEF Extends
<1>4. hits(name) \subseteq hits(wider)
  <2> HIDE DEF hosted
  <2> QED BY <1>3
<1>5. updates(name) \subseteq updates(wider)
  BY DEF Extends
<1> QED BY <1>1, <1>2, <1>4, <1>5, Zenon DEF Frames

LEMMA TablesGrow ==
  ASSUME NEW name, NEW wider, Extends(name, wider)
  PROVE  /\ \A f : Agrees(name, f) => Agrees(wider, f)
         /\ \A t : ChannelsFit(name, t) => ChannelsFit(wider, t)
         /\ \A t : MonitorsFit(name, t) => MonitorsFit(wider, t)
<1>1. \A f : Agrees(name, f) => Agrees(wider, f)
  BY DEF Extends, Agrees
<1>2. \A t : ChannelsFit(name, t) => ChannelsFit(wider, t)
  BY DEF Extends, ChannelsFit
<1>3. \A t : MonitorsFit(name, t) => MonitorsFit(wider, t)
  BY SidGrows DEF Extends, MonitorsFit
<1> QED BY <1>1, <1>2, <1>3

LEMMA MessageGrows ==
  ASSUME NEW name, NEW wider, Extends(name, wider), NEW m, FitsMessage(name, m)
  PROVE  FitsMessage(wider, m)
<1>1. CASE m.cmd \in {"ECHO", "VALIDATION"}
  BY <1>1 DEF FitsMessage
<1>2. ASSUME NEW c \in DOMAIN name,
             m = [cmd |-> "CREATE_CHANNEL", cid |-> c, pv |-> name[c]]
      PROVE  FitsMessage(wider, m)
  BY <1>2 DEF FitsMessage, Extends
<1>3. ASSUME NEW r \in DOMAIN name, NEW s \in SidOf(name, name[r]), m = InitMessage(r, s)
      PROVE  FitsMessage(wider, m)
  <2>1. r \in DOMAIN wider /\ s \in SidOf(wider, wider[r])
    BY SidGrows DEF Extends
  <2> QED BY <2>1, <1>3 DEF FitsMessage
<1>4. CASE m.cmd = "SEARCH" /\ Agrees(name, m.names)
  BY <1>4, TablesGrow DEF FitsMessage
<1> QED BY <1>1, <1>2, <1>3, <1>4 DEF FitsMessage

LEMMA ServerGrows ==
  ASSUME NEW name, NEW wider, Extends(name, wider), NEW srv, ServerFits(name, srv)
  PROVE  ServerFits(wider, srv)
<1>1. \A m \in srv.held : FitsMessage(wider, m)
  BY MessageGrows DEF ServerFits
<1>2. \A s \in DOMAIN srv.channels : s \in SidOf(wider, srv.channels[s])
  BY SidGrows DEF ServerFits
<1>3. \A r \in DOMAIN srv.monitors :
        /\ r \in DOMAIN wider
        /\ srv.monitors[r] \in [pv : {wider[r]}, sid : Int, started : BOOLEAN]
  BY DEF ServerFits, Extends
<1>4. srv = [held |-> srv.held, channels |-> srv.channels, monitors |-> srv.monitors]
  BY DEF ServerFits
<1> QED BY <1>1, <1>2, <1>3, <1>4 DEF ServerFits

LEMMA WorkGrows ==
  ASSUME NEW name, NEW wider, Extends(name, wider), NEW where, NEW w,
         WorkFits(name, where, w)
  PROVE  WorkFits(wider, where, w)
<1>1. SearchFits(name, w) => SearchFits(wider, w)
  BY TablesGrow DEF SearchFits
<1>2. BulkFits(name, w) => BulkFits(wider, w)
  BY TablesGrow DEF BulkFits
<1> QED BY <1>1, <1>2 DEF WorkFits, Extends

----------------------------------------------------------------------------
(* What is written and what is read.                                       *)

LEMMA WrittenFits ==
  ASSUME NEW name, NEW srv, NEW messages, ServerFits(name, srv),
         \A m \in messages : m.cmd \in Asked => FitsMessage(name, m)
  PROVE  ServerFits(name, Written(srv, messages))
<1> DEFINE asked == { m \in messages :
                      \/ m.cmd \in {"CREATE_CHANNEL", "SEARCH", "ECHO", "VALIDATION"}
                      \/ m.cmd = "INIT" /\ m.rid \notin DOMAIN srv.monitors }
           got == Receives(srv, messages)
<1>1. /\ got = [held |-> got.held, channels |-> got.channels, monitors |-> got.monitors]
      /\ got.held = srv.held \cup asked
      /\ DOMAIN got.channels \subseteq DOMAIN srv.channels
      /\ \A s \in DOMAIN got.channels : got.channels[s] = srv.channels[s]
      /\ DOMAIN got.monitors \subseteq DOMAIN srv.monitors
  BY DEF Receives, Restrict
<1>2. \A m \in got.held : FitsMessage(name, m)
  BY <1>1 DEF ServerFits, Asked
<1>3. \A r \in DOMAIN got.monitors :
        got.monitors[r] \in [pv : {name[r]}, sid : Int, started : BOOLEAN]
  <2> SUFFICES ASSUME NEW r \in DOMAIN got.monitors
               PROVE  got.monitors[r] \in [pv : {name[r]}, sid : Int, started : BOOLEAN]
    OBVIOUS
  <2>1. srv.monitors[r] \in [pv : {name[r]}, sid : Int, started : BOOLEAN]
    BY <1>1 DEF ServerFits
  <2>2. \E b \in BOOLEAN : got.monitors[r] = [srv.monitors[r] EXCEPT !.started = b]
    <3>1. got.monitors[r] = [srv.monitors[r] EXCEPT !.started =
            @ \/ \E m \in messages : m.cmd = "START" /\ m.rid = r]
      BY DEF Receives
    <3> QED BY <3>1
  <2> HIDE DEF got
  <2> QED BY <2>1, <2>2
<1>4. ServerFits(name, got)
  <2> HIDE DEF got
  <2> QED BY <1>1, <1>2, <1>3 DEF ServerFits
<1> QED BY <1>4 DEF Written

LEMMA FrameSays ==
  ASSUME NEW name, NEW f \in Frames(name)
  PROVE  /\ f.cmd = "CREATE_CHANNEL" =>
              /\ f.cid \in DOMAIN name /\ f.ok \in BOOLEAN
              /\ f.ok => f.sid = ServerId(f.cid)
         /\ f.cmd = "INIT" => f.rid \in DOMAIN name /\ f.status \in Statuses
         /\ f.cmd = "SEARCH_RESPONSE" =>
              \A id \in f.ids : id \in DOMAIN name /\ name[id] \in Hosted
         /\ f.cmd = "UPDATE" => f.rid \in DOMAIN name /\ f.of = name[f.rid]
<1>1. CASE f \in [cmd : Greetings \cup {"VALIDATED", "ECHO"}]
  BY <1>1 DEF Greetings
<1>2. CASE \E c \in DOMAIN name :
             f = [cmd |-> "CREATE_CHANNEL", cid |-> c, sid |-> ServerId(c), ok |-> TRUE]
  BY <1>2
<1>3. CASE \E c \in DOMAIN name :
             f = [cmd |-> "CREATE_CHANNEL", cid |-> c, sid |-> 0, ok |-> FALSE]
  BY <1>3
<1>4. CASE f \in [cmd : {"INIT"}, rid : DOMAIN name, status : Statuses]
  BY <1>4
<1>5. CASE f \in [cmd : {"SEARCH_RESPONSE"},
                  ids : SUBSET { id \in DOMAIN name : name[id] \in Hosted }]
  BY <1>5
<1>6. CASE \E r \in DOMAIN name : f = [cmd |-> "UPDATE", rid |-> r, of |-> name[r]]
  BY <1>6
<1> QED BY <1>1, <1>2, <1>3, <1>4, <1>5, <1>6, Zenon DEF Frames

\* A frame that is read was the first of the queue.
LEMMA FirstFrame ==
  ASSUME NEW name, toClient \in Seq(Frames(name)),
         NEW frame \in { toClient[i] : i \in {1} \cap DOMAIN toClient }
  PROVE  /\ frame \in Frames(name) /\ frame = toClient[1] /\ Len(toClient) > 0
         /\ Tail(toClient) \in Seq(Frames(name))
         /\ Len(Tail(toClient)) = Len(toClient) - 1
         /\ \A i \in 1..Len(Tail(toClient)) : Tail(toClient)[i] = toClient[i + 1]
OBVIOUS

LEMMA DispatchFits ==
  ASSUME NEW name, Fits(name), NEW frame \in Frames(name), Dispatch(frame)
  PROVE  ServerFits(name, server') /\ \A e \in published' : e[1] = e[2]
<1>1. CASE frame.cmd = "UPDATE" /\ HandleUpdate(frame.rid, frame.of) /\ UNCHANGED server
  <2>1. frame.of = name[frame.rid]
    BY <1>1, FrameSays
  <2>2. frame.rid \in DOMAIN monitors => monitors[frame.rid].pv = name[frame.rid]
    BY DEF Fits, MonitorsFit
  <2>3. \A e \in published' : e[1] = e[2]
    BY <1>1, <2>1, <2>2 DEF HandleUpdate, Fits
  <2> QED BY <1>1, <2>3 DEF Fits
<1>2. CASE frame.cmd = "ECHO" /\ Send({[cmd |-> "ECHO"]}) /\ UNCHANGED published
  <2>1. FitsMessage(name, [cmd |-> "ECHO"])
    BY DEF FitsMessage
  <2>2. ServerFits(name, Written(server, {[cmd |-> "ECHO"]}))
    BY <2>1, WrittenFits DEF Fits
  <2> QED BY <1>2, <2>2 DEF Send, Fits
<1>3. CASE UNCHANGED << published, server >>
  BY <1>3 DEF Fits
<1> QED BY <1>1, <1>2, <1>3 DEF Dispatch

----------------------------------------------------------------------------
(* The server keeps to the assignment.                                     *)

LEMMA ServerForgets ==
  ASSUME NEW name, ServerFits(name, server), NEW m
  PROVE  ServerFits(name, [server EXCEPT !.held = @ \ {m}])
<1> DEFINE srv == [server EXCEPT !.held = @ \ {m}]
<1>1. /\ srv = [held |-> srv.held, channels |-> srv.channels, monitors |-> srv.monitors]
      /\ srv.held = server.held \ {m} /\ srv.channels = server.channels
      /\ srv.monitors = server.monitors
  BY DEF ServerFits
<1> HIDE DEF srv
<1>2. ServerFits(name, srv)
  BY <1>1 DEF ServerFits
<1> QED BY <1>2 DEF srv

\* The disjuncts of Answers that only answer.
LEMMA AnswerFits ==
  ASSUME NEW name, Fits(name), NEW m, NEW frame \in Frames(name), Answer(m, frame)
  PROVE  ServerFits(name, server') /\ toClient' \in Seq(Frames(name))
<1>1. ServerFits(name, server')
  BY ServerForgets DEF Fits, Answer
<1>2. toClient' \in Seq(Frames(name))
  BY DEF Fits, Answer
<1> QED BY <1>1, <1>2

LEMMA CreateAnswered ==
  ASSUME NEW name, Fits(name), NEW m \in server.held, m.cmd = "CREATE_CHANNEL",
         toClient' = Append(toClient, [cmd |-> "CREATE_CHANNEL", cid |-> m.cid,
                                       sid |-> ServerId(m.cid), ok |-> TRUE]),
         server' = [server EXCEPT !.held = @ \ {m},
                      !.channels = Insert(@, ServerId(m.cid), m.pv)]
  PROVE  ServerFits(name, server') /\ toClient' \in Seq(Frames(name))
<1>1. m.cid \in DOMAIN name /\ m.pv = name[m.cid]
  BY DEF Fits, ServerFits, FitsMessage, InitMessage
<1>2. [cmd |-> "CREATE_CHANNEL", cid |-> m.cid, sid |-> ServerId(m.cid), ok |-> TRUE]
        \in Frames(name)
  BY <1>1 DEF Frames
<1>3. toClient' \in Seq(Frames(name))
  BY <1>2 DEF Fits
<1>4. /\ server' = [held |-> server'.held, channels |-> server'.channels,
                    monitors |-> server'.monitors]
      /\ server'.held \subseteq server.held /\ server'.monitors = server.monitors
      /\ server'.channels = Insert(server.channels, ServerId(m.cid), m.pv)
  BY DEF Fits, ServerFits
<1>5. ServerId(m.cid) \in SidOf(name, m.pv)
  BY <1>1 DEF SidOf
<1>6. \A s \in DOMAIN server'.channels : s \in SidOf(name, server'.channels[s])
  BY <1>4, <1>5 DEF Fits, ServerFits, Insert, InsertAll
<1>7. ServerFits(name, server')
  BY <1>4, <1>6 DEF Fits, ServerFits
<1> QED BY <1>3, <1>7

LEMMA InitAnswered ==
  ASSUME NEW name, Fits(name), NEW m \in server.held, m.cmd = "INIT",
         m.sid \in DOMAIN server.channels,
         NEW status \in Statuses,
         toClient' = Append(toClient, [cmd |-> "INIT", rid |-> m.rid, status |-> status]),
         server' = [server EXCEPT !.held = @ \ {m},
                      !.monitors = Insert(@, m.rid, [pv |-> NameOf(m.sid), sid |-> m.sid,
                                                     started |-> FALSE])]
  PROVE  ServerFits(name, server') /\ toClient' \in Seq(Frames(name))
<1>1. m.rid \in DOMAIN name /\ m.sid \in SidOf(name, name[m.rid])
  BY DEF Fits, ServerFits, FitsMessage, InitMessage
<1>2. m.sid \in SidOf(name, NameOf(m.sid))
  BY DEF Fits, ServerFits, NameOf
<1>3. NameOf(m.sid) = name[m.rid] /\ m.sid \in Int
  <2>1. \A c \in DOMAIN name : c \in Int
    BY DEF Fits
  <2> QED BY <1>1, <1>2, <2>1 DEF SidOf, ServerId
<1>4. [cmd |-> "INIT", rid |-> m.rid, status |-> status] \in Frames(name)
  BY <1>1 DEF Frames
<1>5. toClient' \in Seq(Frames(name))
  BY <1>4 DEF Fits
<1> DEFINE row == [pv |-> NameOf(m.sid), sid |-> m.sid, started |-> FALSE]
<1>6. row \in [pv : {name[m.rid]}, sid : Int, started : BOOLEAN]
  BY <1>3
<1>7. /\ server' = [held |-> server'.held, channels |-> server'.channels,
                    monitors |-> server'.monitors]
      /\ server'.held \subseteq server.held /\ server'.channels = server.channels
      /\ server'.monitors = Insert(server.monitors, m.rid, row)
  BY DEF Fits, ServerFits
<1> HIDE DEF row
<1>8. \A r \in DOMAIN server'.monitors :
        /\ r \in DOMAIN name
        /\ server'.monitors[r] \in [pv : {name[r]}, sid : Int, started : BOOLEAN]
  BY <1>1, <1>6, <1>7 DEF Fits, ServerFits, Insert, InsertAll
<1>9. ServerFits(name, server')
  BY <1>7, <1>8 DEF Fits, ServerFits
<1> QED BY <1>5, <1>9

LEMMA ServerAnswersFits ==
  ASSUME NEW name, Fits(name), ServerAnswers
  PROVE  Fits(name)'
<1>1. PICK m \in server.held : Answers(m)
  BY DEF ServerAnswers
<1> SUFFICES ServerFits(name, server') /\ toClient' \in Seq(Frames(name))
  BY DEF ServerAnswers, Fits, clientVars
<1>2. FitsMessage(name, m)
  BY DEF Fits, ServerFits
<1>3. CASE m.cmd = "CREATE_CHANNEL"
           /\ Answer(m, [cmd |-> "CREATE_CHANNEL", cid |-> m.cid, sid |-> 0, ok |-> FALSE])
  <2>1. m.cid \in DOMAIN name
    BY <1>2, <1>3 DEF FitsMessage, InitMessage
  <2>2. [cmd |-> "CREATE_CHANNEL", cid |-> m.cid, sid |-> 0, ok |-> FALSE] \in Frames(name)
    BY <2>1 DEF Frames
  <2> QED BY <1>3, <2>2, AnswerFits
<1>4. CASE m.cmd = "INIT"
           /\ Answer(m, [cmd |-> "INIT", rid |-> m.rid, status |-> "rejected"])
  <2>1. m.rid \in DOMAIN name
    BY <1>2, <1>4 DEF FitsMessage, InitMessage
  <2>2. [cmd |-> "INIT", rid |-> m.rid, status |-> "rejected"] \in Frames(name)
    BY <2>1 DEF Frames, Statuses
  <2> QED BY <1>4, <2>2, AnswerFits
<1>5. CASE m.cmd = "SEARCH"
           /\ Answer(m, [cmd |-> "SEARCH_RESPONSE",
                         ids |-> { id \in DOMAIN m.names : m.names[id] \in Hosted }])
  <2>1. Agrees(name, m.names)
    BY <1>2, <1>5 DEF FitsMessage, InitMessage
  <2>2. { id \in DOMAIN m.names : m.names[id] \in Hosted }
          \in SUBSET { id \in DOMAIN name : name[id] \in Hosted }
    BY <2>1 DEF Agrees
  <2>3. [cmd |-> "SEARCH_RESPONSE",
         ids |-> { id \in DOMAIN m.names : m.names[id] \in Hosted }] \in Frames(name)
    BY <2>2 DEF Frames
  <2> QED BY <1>5, <2>3, AnswerFits
<1>6. CASE m.cmd = "ECHO" /\ Answer(m, [cmd |-> "ECHO"])
  <2>1. [cmd |-> "ECHO"] \in Frames(name)
    BY DEF Frames
  <2> QED BY <1>6, <2>1, AnswerFits
<1>7. CASE m.cmd = "VALIDATION" /\ Answer(m, [cmd |-> "VALIDATED"])
  <2>1. [cmd |-> "VALIDATED"] \in Frames(name)
    BY DEF Frames
  <2> QED BY <1>7, <2>1, AnswerFits
<1>8. CASE /\ m.cmd = "CREATE_CHANNEL"
           /\ toClient' = Append(toClient, [cmd |-> "CREATE_CHANNEL", cid |-> m.cid,
                                            sid |-> ServerId(m.cid), ok |-> TRUE])
           /\ server' = [server EXCEPT !.held = @ \ {m},
                           !.channels = Insert(@, ServerId(m.cid), m.pv)]
  BY <1>8, CreateAnswered
<1>9. CASE /\ m.cmd = "INIT" /\ m.sid \in DOMAIN server.channels
           /\ \E status \in {"ok", "no type"} :
                toClient' = Append(toClient,
                                   [cmd |-> "INIT", rid |-> m.rid, status |-> status])
           /\ server' = [server EXCEPT !.held = @ \ {m},
                           !.monitors = Insert(@, m.rid,
                             [pv |-> NameOf(m.sid), sid |-> m.sid, started |-> FALSE])]
  <2>1. {"ok", "no type"} \subseteq Statuses
    BY DEF Statuses
  <2> QED BY <1>9, <2>1, InitAnswered
<1> QED BY <1>1, <1>3, <1>4, <1>5, <1>6, <1>7, <1>8, <1>9, Zenon DEF Answers

LEMMA ServerUpdatesFits ==
  ASSUME NEW name, Fits(name), NEW rid \in DOMAIN server.monitors, ServerUpdates(rid)
  PROVE  Fits(name)'
<1>1. rid \in DOMAIN name /\ server.monitors[rid].pv = name[rid]
  BY DEF Fits, ServerFits
<1>2. [cmd |-> "UPDATE", rid |-> rid, of |-> server.monitors[rid].pv] \in Frames(name)
  BY <1>1 DEF Frames
<1>3. toClient' \in Seq(Frames(name))
  BY <1>2 DEF Fits, ServerUpdates
<1> QED BY <1>3 DEF ServerUpdates, Fits, clientVars

LEMMA NothingFits ==
  ASSUME NEW name
  PROVE  /\ ServerFits(name, NewServer) /\ ChannelsFit(name, << >>)
         /\ MonitorsFit(name, << >>) /\ << >> \in Seq(Frames(name))
BY DEF ServerFits, NewServer, ChannelsFit, MonitorsFit

LEMMA CutFits ==
  ASSUME NEW name, Fits(name), Cut
  PROVE  Fits(name)'
BY NothingFits DEF Cut, Fits, clientVars

LEMMA GreetFits ==
  ASSUME NEW name, Fits(name), NEW c \in Greetings, Greet(c)
  PROVE  Fits(name)'
<1>1. [cmd |-> c] \in Frames(name)
  BY DEF Frames
<1>2. toClient' = Append(toClient, [cmd |-> c])
  BY DEF Greet
<1>3. toClient \in Seq(Frames(name))
  BY DEF Fits
<1>4. toClient' \in Seq(Frames(name))
  BY <1>1, <1>2, <1>3
<1> QED BY <1>4 DEF Greet, Fits, clientVars

\* A session that is over has drawn no ids.
LEMMA DroppedFits ==
  ASSUME Dropped
  PROVE  NamesInv'
<1> DEFINE name == [id \in {} |-> 0]
<1>1. DOMAIN name = 1..(next_id' - 1) /\ next_id' \in Nat
  BY DEF Dropped
<1> HIDE DEF name
<1>2. WorkFits(name, phase', work')
  BY DEF Dropped, WorkFits, BulkPhases
<1>3. Fits(name)'
  BY <1>1, <1>2, NothingFits DEF Dropped, Fits
<1> QED BY <1>3 DEF NamesInv

----------------------------------------------------------------------------
(* The steps of the session that draw no id.                               *)

ReadHandshake(frame) == ReadByteOrder(frame) \/ ReadValidation(frame) \/ ReadValidated(frame)

\* Nothing is searched or subscribed before the handshake is over.
LEMMA HandshakeFits ==
  ASSUME NEW name, Fits(name),
         NEW frame \in { toClient[i] : i \in {1} \cap DOMAIN toClient },
         ReadHandshake(frame)
  PROVE  Fits(name)'
<1>1. toClient' \in Seq(Frames(name))
  BY FirstFrame DEF ReadHandshake, ReadByteOrder, ReadValidation, ReadValidated, Receive,
     Fits
<1>2. FitsMessage(name, Authentication)
  BY DEF FitsMessage, Authentication
<1>3. ServerFits(name, server')
  <2>1. CASE Send({Authentication})
    BY <2>1, <1>2, WrittenFits DEF Send, Fits
  <2>2. CASE UNCHANGED server
    BY <2>2 DEF Fits
  <2> QED BY <2>1, <2>2 DEF ReadHandshake, ReadByteOrder, ReadValidation, ReadValidated
<1>4. WorkFits(name, phase', work')
  <2>1. /\ work' = work /\ phase \in {"byte order", "validation", "validated"}
        /\ phase' \in {"validation", "validated", "connected"}
    BY DEF ReadHandshake, ReadByteOrder, ReadValidation, ReadValidated, clientVars
  <2>2. work' = NoWork
    BY <2>1 DEF Fits, WorkFits
  <2> QED BY <2>1, <2>2 DEF WorkFits, BulkPhases
<1>5. phase # "ended" /\ UNCHANGED << channels, monitors, next_id, published >>
  BY DEF ReadHandshake, ReadByteOrder, ReadValidation, ReadValidated, clientVars
<1> QED BY <1>1, <1>3, <1>4, <1>5 DEF Fits

LEMMA ReadSearchFits ==
  ASSUME NEW name, Fits(name),
         NEW frame \in { toClient[i] : i \in {1} \cap DOMAIN toClient }, ReadSearch(frame)
  PROVE  Fits(name)'
<1> DEFINE hits == frame.ids \cap DOMAIN work.ids
           rest == [work EXCEPT !.ids = Restrict(@, DOMAIN @ \ hits), !.got = @ + 1,
                                !.found = @ \cup { work.ids[id] : id \in hits }]
<1>1. frame \in Frames(name) /\ Tail(toClient) \in Seq(Frames(name))
  BY FirstFrame DEF Fits
<1>2. toClient' \in Seq(Frames(name))
  BY <1>1 DEF ReadSearch, Receive
<1>3. phase = "search" /\ SearchFits(name, work)
  BY DEF ReadSearch, Fits, WorkFits
<1>4. ASSUME frame.cmd = "SEARCH_RESPONSE" PROVE SearchFits(name, rest)
  <2>1. \A id \in hits : work.ids[id] \in Hosted
    BY <1>1, <1>3, <1>4, FrameSays DEF SearchFits, Agrees
  <2>2. /\ rest = [kind |-> "search", ids |-> Restrict(work.ids, DOMAIN work.ids \ hits),
                   got |-> work.got + 1, expected |-> work.expected,
                   found |-> work.found \cup { work.ids[id] : id \in hits }]
        /\ work.got \in Nat
    <3> DEFINE left == Restrict(work.ids, DOMAIN work.ids \ hits)
               found == work.found \cup { work.ids[id] : id \in hits }
    <3>1. rest = [work EXCEPT !.ids = left, !.got = @ + 1, !.found = found]
      OBVIOUS
    <3> HIDE DEF rest, left, found
    <3>2. /\ rest = [kind |-> "search", ids |-> left, got |-> work.got + 1,
                     expected |-> work.expected, found |-> found]
          /\ work.got \in Nat
      BY <1>3, <3>1 DEF SearchFits, IsSearch
    <3> QED BY <3>2 DEF left, found
  <2> HIDE DEF rest, hits
  <2>3. rest.found \subseteq Hosted
    BY <1>3, <2>1, <2>2 DEF SearchFits
  <2>4. Agrees(name, rest.ids)
    BY <1>3, <2>2 DEF SearchFits, Agrees, Restrict
  <2> QED BY <2>2, <2>3, <2>4 DEF SearchFits, IsSearch
<1>5. WorkFits(name, phase', work')
  <2>1. CASE /\ frame.cmd = "SEARCH_RESPONSE"
             /\ SearchEnds(rest.found)
    BY <2>1, <1>4 DEF SearchEnds, WorkFits, SearchFits, BulkPhases
  <2>2. CASE /\ frame.cmd = "SEARCH_RESPONSE"
             /\ work' = rest /\ UNCHANGED phase
    BY <2>2, <1>3, <1>4 DEF WorkFits, BulkPhases
  <2>3. CASE UNCHANGED << phase, work >>
    BY <2>3 DEF Fits
  <2> QED BY <2>1, <2>2, <2>3 DEF ReadSearch
<1> QED BY <1>2, <1>5 DEF ReadSearch, Fits

\* Only the work and the place change.
LEMMA LocalFits ==
  ASSUME NEW name, Fits(name), WorkFits(name, phase', work'), phase # "ended",
         UNCHANGED << channels, monitors, next_id, published, toClient, server >>
  PROVE  Fits(name)'
BY DEF Fits

LEMMA EndSearchFits ==
  ASSUME NEW name, Fits(name), EndSearch
  PROVE  Fits(name)'
<1>1. WorkFits(name, phase', work')
  BY DEF EndSearch, SearchEnds, Fits, WorkFits, SearchFits, BulkPhases
<1> QED BY <1>1, LocalFits DEF EndSearch

LEMMA CommandFailsFits ==
  ASSUME NEW name, Fits(name), CommandFails
  PROVE  Fits(name)'
<1>1. WorkFits(name, phase', work')
  BY DEF CommandFails, WorkFits, BulkPhases
<1> QED BY <1>1, LocalFits DEF CommandFails

LEMMA ActivateFits ==
  ASSUME NEW name, ChannelsFit(name, channels), NEW cid
  PROVE  /\ ChannelsFit(name, activate_channel(channels, cid, ServerId(cid)))
         /\ ChannelsFit(name, close_channel(channels, cid))
<1>1. ChannelsFit(name, activate_channel(channels, cid, ServerId(cid)))
  BY DEF ChannelsFit, activate_channel, States, Active
<1>2. ChannelsFit(name, close_channel(channels, cid))
  BY DEF ChannelsFit, close_channel, States, Active, Closed
<1> QED BY <1>1, <1>2

LEMMA ReadCreatedFits ==
  ASSUME NEW name, Fits(name),
         NEW frame \in { toClient[i] : i \in {1} \cap DOMAIN toClient }, ReadCreated(frame)
  PROVE  Fits(name)'
<1>1. frame \in Frames(name) /\ Tail(toClient) \in Seq(Frames(name))
  BY FirstFrame DEF Fits
<1>2. toClient' \in Seq(Frames(name))
  BY <1>1 DEF ReadCreated, Receive
<1>3. phase = "creating" /\ phase' = phase /\ BulkFits(name, work)
  BY DEF ReadCreated, Fits, WorkFits, BulkPhases
<1>4. CASE frame.cmd = "CREATE_CHANNEL" /\ frame.ok
           /\ channels' = activate_channel(channels, frame.cid, frame.sid)
           /\ work' = [work EXCEPT !.got = @ + 1,
                                   !.created = Created(work, frame.cid, frame.sid)]
           /\ UNCHANGED << published, server >>
  <2>1. frame.sid = ServerId(frame.cid)
    BY <1>1, <1>4, FrameSays
  <2>2. ChannelsFit(name, channels')
    BY <1>4, <2>1, ActivateFits DEF Fits
  <2>3. /\ work' = [kind |-> "bulk", ids |-> work.ids, got |-> work.got + 1,
                    expected |-> work.expected,
                    created |-> Created(work, frame.cid, frame.sid),
                    failed |-> work.failed, pending |-> work.pending, done |-> work.done]
        /\ work.got \in Nat
    BY <1>3, <1>4 DEF BulkFits, IsBulk
  <2>4. BulkFits(name, work')
    BY <1>3, <2>1, <2>3 DEF BulkFits, IsBulk, Created, Insert, InsertAll
  <2>5. WorkFits(name, phase', work')
    BY <1>3, <2>4 DEF WorkFits, BulkPhases
  <2> QED BY <1>2, <1>4, <2>2, <2>5 DEF ReadCreated, Fits
<1>5. CASE frame.cmd = "CREATE_CHANNEL" /\ ~frame.ok
           /\ channels' = close_channel(channels, frame.cid)
           /\ work' = [work EXCEPT !.got = @ + 1, !.failed = @ \cup {frame.cid}]
           /\ UNCHANGED << published, server >>
  <2>1. ChannelsFit(name, channels')
    BY <1>5, ActivateFits DEF Fits
  <2>2. /\ work' = [kind |-> "bulk", ids |-> work.ids, got |-> work.got + 1,
                    expected |-> work.expected, created |-> work.created,
                    failed |-> work.failed \cup {frame.cid}, pending |-> work.pending,
                    done |-> work.done]
        /\ work.got \in Nat
    BY <1>3, <1>5 DEF BulkFits, IsBulk
  <2>3. BulkFits(name, work')
    BY <1>3, <2>2 DEF BulkFits, IsBulk
  <2>4. WorkFits(name, phase', work')
    BY <1>3, <2>3 DEF WorkFits, BulkPhases
  <2> QED BY <1>2, <1>5, <2>1, <2>4 DEF ReadCreated, Fits
<1>6. CASE Dispatch(frame) /\ UNCHANGED << channels, work >>
  BY <1>1, <1>2, <1>6, DispatchFits DEF ReadCreated, Fits
<1> QED BY <1>4, <1>5, <1>6 DEF ReadCreated

\* A type that has come changes nothing else of a monitor.
LEMMA TypedFits ==
  ASSUME NEW name, MonitorsFit(name, monitors), NEW r
  PROVE  MonitorsFit(name, [monitors EXCEPT ![r].typed = TRUE])
BY DEF MonitorsFit

LEMMA ReadInitFits ==
  ASSUME NEW name, Fits(name),
         NEW frame \in { toClient[i] : i \in {1} \cap DOMAIN toClient }, ReadInit(frame)
  PROVE  Fits(name)'
<1>1. frame \in Frames(name) /\ Tail(toClient) \in Seq(Frames(name))
  BY FirstFrame DEF Fits
<1>2. toClient' \in Seq(Frames(name))
  BY <1>1 DEF ReadInit, Receive
<1>3. phase \in {"initialising", "retrying"} /\ phase' = phase /\ BulkFits(name, work)
  BY DEF ReadInit, Fits, WorkFits, BulkPhases
<1>4. CASE frame.cmd = "INIT"
           /\ monitors' = (IF frame.status = "ok" /\ frame.rid \in DOMAIN monitors
                             THEN [monitors EXCEPT ![frame.rid].typed = TRUE] ELSE monitors)
           /\ work' = [work EXCEPT !.got = @ + 1, !.done = @ \cup {frame.rid}]
           /\ UNCHANGED << published, server >>
  <2>1. MonitorsFit(name, monitors')
    BY <1>4, TypedFits DEF Fits
  <2>2. /\ work' = [kind |-> "bulk", ids |-> work.ids, got |-> work.got + 1,
                    expected |-> work.expected, created |-> work.created,
                    failed |-> work.failed, pending |-> work.pending,
                    done |-> work.done \cup {frame.rid}]
        /\ work.got \in Nat
    BY <1>3, <1>4 DEF BulkFits, IsBulk
  <2>3. BulkFits(name, work')
    BY <1>3, <2>2 DEF BulkFits, IsBulk
  <2>4. WorkFits(name, phase', work')
    BY <1>3, <2>3 DEF WorkFits, BulkPhases
  <2> QED BY <1>2, <1>4, <2>1, <2>4 DEF ReadInit, Fits
<1>5. CASE Dispatch(frame) /\ UNCHANGED << monitors, work >>
  BY <1>1, <1>2, <1>5, DispatchFits DEF ReadInit, Fits
<1> QED BY <1>4, <1>5 DEF ReadInit

LEMMA LoopFrameFits ==
  ASSUME NEW name, Fits(name),
         NEW frame \in { toClient[i] : i \in {1} \cap DOMAIN toClient }, LoopFrame(frame)
  PROVE  Fits(name)'
<1>1. frame \in Frames(name) /\ toClient' \in Seq(Frames(name))
  BY FirstFrame DEF Fits, LoopFrame, Receive
<1> QED BY <1>1, DispatchFits DEF LoopFrame, Fits

LEMMA EchoTickFits ==
  ASSUME NEW name, Fits(name), EchoTick
  PROVE  Fits(name)'
<1>1. FitsMessage(name, [cmd |-> "ECHO"])
  BY DEF FitsMessage
<1>2. ServerFits(name, Written(server, {[cmd |-> "ECHO"]}))
  BY <1>1, WrittenFits DEF Fits
<1>3. ServerFits(name, server')
  BY <1>2 DEF EchoTick, Send
<1> QED BY <1>3 DEF EchoTick, Fits

LEMMA RestrictFits ==
  ASSUME NEW name, NEW t, NEW S, S \subseteq DOMAIN t
  PROVE  /\ MonitorsFit(name, t) => MonitorsFit(name, Restrict(t, S))
         /\ ChannelsFit(name, t) => ChannelsFit(name, Restrict(t, S))
BY DEF MonitorsFit, ChannelsFit, Restrict

LEMMA ReadStartFits ==
  ASSUME NEW name, Fits(name),
         NEW frame \in { toClient[i] : i \in {1} \cap DOMAIN toClient }, ReadStart(frame)
  PROVE  Fits(name)'
<1>1. frame \in Frames(name) /\ Tail(toClient) \in Seq(Frames(name))
  BY FirstFrame DEF Fits
<1>2. toClient' \in Seq(Frames(name))
  BY <1>1 DEF ReadStart, Receive
<1>3. ASSUME work' = NoWork, phase' = "loop" PROVE WorkFits(name, phase', work')
  BY <1>3 DEF WorkFits, BulkPhases
<1>4. CASE /\ work' = NoWork /\ phase' = "loop"
           /\ monitors' = Restrict(monitors, DOMAIN monitors \ {work.rid})
           /\ UNCHANGED << server, published >>
  <2>1. MonitorsFit(name, monitors')
    BY <1>4, RestrictFits DEF Fits
  <2> QED BY <1>2, <1>3, <1>4, <2>1 DEF ReadStart, Fits
<1>5. CASE work' = NoWork /\ phase' = "loop" /\ UNCHANGED << monitors, server, published >>
  BY <1>2, <1>3, <1>5 DEF ReadStart, Fits
<1>6. CASE /\ work' = NoWork /\ phase' = "loop"
           /\ monitors' = [monitors EXCEPT ![work.rid].typed = TRUE]
           /\ Send({[cmd |-> "START", rid |-> work.rid]})
           /\ UNCHANGED published
  <2>1. MonitorsFit(name, monitors')
    BY <1>6, TypedFits DEF Fits
  <2>2. ServerFits(name, Written(server, {[cmd |-> "START", rid |-> work.rid]}))
    BY WrittenFits DEF Fits, Asked
  <2> QED BY <1>2, <1>3, <1>6, <2>1, <2>2 DEF ReadStart, Send, Fits
<1>7. CASE Dispatch(frame) /\ UNCHANGED << monitors, work, phase >>
  BY <1>1, <1>2, <1>7, DispatchFits DEF ReadStart, Fits
<1> QED BY <1>4, <1>5, <1>6, <1>7 DEF ReadStart

LEMMA RemoveMonitorFits ==
  ASSUME NEW name, Fits(name), NEW pv, RemoveMonitor(pv)
  PROVE  Fits(name)'
<1>1. CASE UNCHANGED << channels, monitors, server >>
  BY <1>1 DEF RemoveMonitor, Fits
<1>2. ASSUME NEW cid \in Named(channels, pv),
             channels' = Restrict(channels, DOMAIN channels \ Named(channels, pv))
      PROVE  ChannelsFit(name, channels')
  BY <1>2, RestrictFits DEF Fits
<1>3. ASSUME NEW cid, NEW sid
      PROVE  LET destroy == [cmd |-> "DESTROY_CHANNEL", cid |-> cid, sid |-> sid]
             IN  /\ ServerFits(name, Written(server, {destroy}))
                 /\ \A rid : ServerFits(name, Written(server,
                                  {[cmd |-> "STOP", rid |-> rid], destroy}))
  <2> DEFINE destroy == [cmd |-> "DESTROY_CHANNEL", cid |-> cid, sid |-> sid]
  <2>1. ServerFits(name, Written(server, {destroy}))
    BY WrittenFits DEF Fits, Asked
  <2>2. ASSUME NEW rid
        PROVE  ServerFits(name, Written(server, {[cmd |-> "STOP", rid |-> rid], destroy}))
    <3>1. \A m \in {[cmd |-> "STOP", rid |-> rid], destroy} : m.cmd \notin Asked
      BY DEF Asked
    <3> QED BY <3>1, WrittenFits DEF Fits
  <2> QED BY <2>1, <2>2
<1>4. ASSUME NEW cid \in Named(channels, pv),
             channels' = Restrict(channels, DOMAIN channels \ Named(channels, pv)),
             LET destroy == [cmd |-> "DESTROY_CHANNEL", cid |-> cid,
                             sid |-> channels[cid].sid] IN
             \/ Send({destroy}) /\ UNCHANGED monitors
             \/ \E rid \in Named(monitors, pv) :
                  /\ Send({[cmd |-> "STOP", rid |-> rid], destroy})
                  /\ monitors' = Restrict(monitors, DOMAIN monitors \ {rid})
      PROVE  Fits(name)'
  <2>1. ServerFits(name, server')
    BY <1>3, <1>4 DEF Send
  <2>2. MonitorsFit(name, monitors')
    <3>1. \/ monitors' = monitors
          \/ \E rid : monitors' = Restrict(monitors, DOMAIN monitors \ {rid})
      BY <1>4
    <3>2. \A rid : MonitorsFit(name, Restrict(monitors, DOMAIN monitors \ {rid}))
      BY RestrictFits DEF Fits
    <3> QED BY <3>1, <3>2 DEF Fits
  <2>3. ChannelsFit(name, channels')
    BY <1>2, <1>4
  <2> QED BY <2>1, <2>2, <2>3 DEF RemoveMonitor, Fits
<1> QED BY <1>1, <1>4 DEF RemoveMonitor

LEMMA RetryFits ==
  ASSUME NEW name, Fits(name), phase \in BulkPhases, Retry
  PROVE  Fits(name)'
<1> DEFINE messages == { InitMessage(r, work.pending[r].sid) : r \in Missing }
<1>1. BulkFits(name, work)
  BY DEF Fits, WorkFits
<1>2. \A m \in messages : FitsMessage(name, m)
  BY <1>1 DEF BulkFits, MonitorsFit, Missing, FitsMessage
<1>3. ServerFits(name, server')
  <2>1. ServerFits(name, Written(server, messages))
    <3> HIDE DEF messages
    <3> QED BY <1>2, WrittenFits DEF Fits
  <2> QED BY <2>1 DEF Retry, Send
<1>4. work' = [kind |-> "bulk", ids |-> work.ids, got |-> 0,
               expected |-> Cardinality(Missing), created |-> work.created,
               failed |-> work.failed, pending |-> work.pending, done |-> work.done]
  BY <1>1 DEF BulkFits, IsBulk, Retry
<1>5. BulkFits(name, work')
  BY <1>1, <1>4 DEF BulkFits, IsBulk
<1>6. WorkFits(name, phase', work')
  BY <1>5 DEF WorkFits, Retry, BulkPhases
<1> QED BY <1>3, <1>6 DEF Retry, Fits, BulkPhases

LEMMA FinishBulkFits ==
  ASSUME NEW name, Fits(name), phase \in BulkPhases, FinishBulk
  PROVE  Fits(name)'
<1> DEFINE messages == { [cmd |-> "START", rid |-> r] : r \in DOMAIN work.pending \cap work.done }
<1>1. \A m \in messages : m.cmd \notin Asked
  BY DEF Asked
<1>2. ServerFits(name, server')
  <2>1. ServerFits(name, Written(server, messages))
    <3> HIDE DEF messages
    <3> QED BY <1>1, WrittenFits DEF Fits
  <2> QED BY <2>1 DEF FinishBulk, Send
<1>3. MonitorsFit(name, monitors')
  BY RestrictFits DEF FinishBulk, Fits, Kept
<1>4. WorkFits(name, phase', work')
  BY DEF FinishBulk, WorkFits, BulkPhases
<1> QED BY <1>2, <1>3, <1>4 DEF FinishBulk, Fits, BulkPhases

----------------------------------------------------------------------------
(* The steps that draw ids: the assignment is continued.                   *)

LEMMA WiderFits ==
  ASSUME NEW name, Fits(name), NEW wider, Extends(name, wider)
  PROVE  /\ ChannelsFit(wider, channels) /\ MonitorsFit(wider, monitors)
         /\ ServerFits(wider, server)
         /\ toClient \in Seq(Frames(wider))
         /\ \A q \in Seq(Frames(name)) : q \in Seq(Frames(wider))
         /\ WorkFits(wider, phase, work)
<1>1. ChannelsFit(wider, channels) /\ MonitorsFit(wider, monitors)
  BY TablesGrow DEF Fits
<1>2. ServerFits(wider, server)
  BY ServerGrows DEF Fits
<1>3. \A q \in Seq(Frames(name)) : q \in Seq(Frames(wider))
  BY FramesGrow, SeqGrows
<1>4. WorkFits(wider, phase, work)
  BY WorkGrows DEF Fits
<1> QED BY <1>1, <1>2, <1>3, <1>4 DEF Fits

\* The ids of a list of names that get one each.
Listed(name, names) ==
  [id \in 1..(next_id + Len(names) - 1) |->
     IF id < next_id THEN name[id] ELSE names[id - next_id + 1]]

LEMMA ListedFits ==
  ASSUME NEW name, Fits(name), phase # "ended", NEW names, Len(names) \in Nat
  PROVE  /\ Extends(name, Listed(name, names))
         /\ DOMAIN Listed(name, names) = 1..(next_id + Len(names) - 1)
         /\ next_id + Len(names) \in Nat /\ next_id + Len(names) > 0
         /\ \A i \in 1..Len(names) :
              /\ next_id + i - 1 \in DOMAIN Listed(name, names)
              /\ Listed(name, names)[next_id + i - 1] = names[i]
         /\ ChannelsFit(Listed(name, names), AddChannels(names))
<1> DEFINE wider == Listed(name, names)
<1>1. next_id \in Nat /\ next_id > 0 /\ Len(names) \in Nat /\ DOMAIN name = 1..(next_id - 1)
  BY DEF Fits
<1>2. DOMAIN wider = 1..(next_id + Len(names) - 1) /\ Extends(name, wider)
  BY <1>1 DEF Listed, Extends
<1>3. \A i \in 1..Len(names) :
        /\ next_id + i - 1 \in DOMAIN wider /\ wider[next_id + i - 1] = names[i]
  BY <1>1 DEF Listed
<1>4. ChannelsFit(wider, channels)
  BY <1>2, WiderFits
<1>5. \A id \in next_id..(next_id + Len(names) - 1) :
        id \in DOMAIN wider /\ wider[id] = names[id - next_id + 1]
  BY <1>1 DEF Listed
<1>6. \A id \in DOMAIN channels : id < next_id
  BY <1>1 DEF Fits, ChannelsFit
<1> HIDE DEF wider
<1>7. ASSUME NEW id \in DOMAIN AddChannels(names)
      PROVE  /\ id \in DOMAIN wider
             /\ AddChannels(names)[id] \in [pv : {wider[id]}, state : States,
                                            sid : {0, ServerId(id)}]
             /\ AddChannels(names)[id].state = Active
                  => AddChannels(names)[id].sid = ServerId(id)
  <2>1. CASE id \in DOMAIN channels
    <3>1. AddChannels(names)[id] = channels[id]
      BY <1>1, <1>6, <2>1 DEF AddChannels
    <3> QED BY <1>4, <2>1, <3>1 DEF ChannelsFit
  <2>2. CASE id \notin DOMAIN channels
    <3>1. id \in next_id..(next_id + Len(names) - 1)
      BY <2>2 DEF AddChannels
    <3>2. AddChannels(names)[id] = [pv |-> names[id - next_id + 1], state |-> Creating,
                                    sid |-> 0]
      BY <1>1, <3>1 DEF AddChannels
    <3> QED BY <1>5, <3>1, <3>2 DEF States, Creating, Active
  <2> QED BY <2>1, <2>2
<1>8. ChannelsFit(wider, AddChannels(names))
  BY <1>7 DEF ChannelsFit
<1> QED BY <1>1, <1>2, <1>3, <1>8 DEF wider

LEMMA StartBulkFits ==
  ASSUME NEW name, Fits(name), phase \in {"connected", "loop"}, NEW names \in Seq(PVs),
         StartBulk(names)
  PROVE  NamesInv'
<1>1. PICK wider : wider = Listed(name, names)
  OBVIOUS
<1> DEFINE Cid(i) == next_id + i - 1
           messages == { [cmd |-> "CREATE_CHANNEL", cid |-> Cid(i), pv |-> names[i]] :
                           i \in DOMAIN names }
           ids == [c \in { Cid(i) : i \in DOMAIN names } |-> names[c - next_id + 1]]
           bulk == [kind |-> "bulk", ids |-> ids, got |-> 0, expected |-> Len(names),
                    created |-> << >>, failed |-> {}, pending |-> << >>, done |-> {}]
<1>2. /\ Extends(name, wider) /\ DOMAIN wider = 1..(next_id + Len(names) - 1)
      /\ next_id + Len(names) \in Nat /\ next_id + Len(names) > 0
      /\ \A i \in 1..Len(names) : Cid(i) \in DOMAIN wider /\ wider[Cid(i)] = names[i]
      /\ ChannelsFit(wider, AddChannels(names))
  BY <1>1, ListedFits
<1>3. next_id \in Nat /\ DOMAIN names = 1..Len(names) /\ Len(names) \in Nat
  BY DEF Fits
<1>4. \A m \in messages : FitsMessage(wider, m)
  BY <1>2, <1>3 DEF FitsMessage
<1>5. Agrees(wider, ids)
  BY <1>2, <1>3 DEF Agrees
<1> HIDE DEF messages, ids
<1>6. BulkFits(wider, bulk)
  BY <1>5 DEF BulkFits, IsBulk, MonitorsFit
<1> HIDE DEF bulk
<1>7. /\ MonitorsFit(wider, monitors) /\ toClient \in Seq(Frames(wider))
      /\ ServerFits(wider, server)
  BY <1>2, WiderFits
<1>8. ServerFits(wider, Written(server, messages))
  BY <1>4, <1>7, WrittenFits
<1>9. \/ server' = Written(server, messages) /\ work' = bulk /\ phase' = "creating"
      \/ server' = server /\ work' = NoWork /\ phase' = "loop"
  BY DEF StartBulk, Send, messages, bulk, ids
<1>10. WorkFits(wider, phase', work') /\ ServerFits(wider, server') /\ phase' # "ended"
  BY <1>6, <1>7, <1>8, <1>9 DEF WorkFits, BulkPhases
<1>11. Fits(wider)'
  BY <1>2, <1>7, <1>10 DEF StartBulk, Fits
<1> QED BY <1>11 DEF NamesInv

LEMMA AddMonitorFits ==
  ASSUME NEW name, Fits(name), NEW pv \in PVs, AddMonitor(pv)
  PROVE  NamesInv'
<1>1. PICK wider, one : one = << pv >> /\ wider = Listed(name, one)
  OBVIOUS
<1> DEFINE message == [cmd |-> "CREATE_CHANNEL", cid |-> next_id, pv |-> pv]
           create == [kind |-> "create", cid |-> next_id, pv |-> pv]
<1>2. one \in Seq(PVs) /\ Len(one) = 1 /\ one[1] = pv /\ phase = "loop"
  BY <1>1 DEF AddMonitor, Command
<1>3. /\ Extends(name, wider) /\ DOMAIN wider = 1..(next_id + Len(one) - 1)
      /\ next_id + Len(one) \in Nat /\ next_id + Len(one) > 0
      /\ \A i \in 1..Len(one) :
           next_id + i - 1 \in DOMAIN wider /\ wider[next_id + i - 1] = one[i]
      /\ ChannelsFit(wider, AddChannels(one))
  <2>1. Len(one) \in Nat /\ phase # "ended"
    BY <1>2
  <2> QED BY <1>1, <2>1, ListedFits
<1>4. next_id \in DOMAIN wider /\ wider[next_id] = pv
  BY <1>2, <1>3 DEF Fits
<1>5. FitsMessage(wider, message)
  BY <1>4 DEF FitsMessage
<1>6. /\ MonitorsFit(wider, monitors) /\ toClient \in Seq(Frames(wider))
      /\ ServerFits(wider, server) /\ WorkFits(wider, phase, work)
  BY <1>3, WiderFits
<1>7. ServerFits(wider, Written(server, {message}))
  <2> HIDE DEF message
  <2> QED BY <1>5, <1>6, WrittenFits
<1>8. WorkFits(wider, "create", create)
  BY <1>4 DEF WorkFits, BulkPhases
<1> HIDE DEF message, create
<1>9. \/ server' = Written(server, {message}) /\ work' = create /\ phase' = "create"
      \/ server' = server /\ work' = work /\ phase' = phase
  BY DEF AddMonitor, Send, message, create
<1>10. WorkFits(wider, phase', work') /\ ServerFits(wider, server') /\ phase' # "ended"
  BY <1>2, <1>6, <1>7, <1>8, <1>9
<1>11. Fits(wider)'
  BY <1>1, <1>2, <1>3, <1>6, <1>10 DEF AddMonitor, Fits
<1> QED BY <1>11 DEF NamesInv

LEMMA ReadCreateFits ==
  ASSUME NEW name, Fits(name),
         NEW frame \in { toClient[i] : i \in {1} \cap DOMAIN toClient }, ReadCreate(frame)
  PROVE  NamesInv'
<1>1. frame \in Frames(name) /\ Tail(toClient) \in Seq(Frames(name))
  BY FirstFrame DEF Fits
<1>2. toClient' = Tail(toClient) /\ phase = "create"
  BY DEF ReadCreate, Receive
<1>3. work.cid \in DOMAIN name /\ work.pv = name[work.cid]
  BY <1>2 DEF Fits, WorkFits
<1>4. CASE /\ channels' = close_channel(channels, work.cid)
           /\ work' = NoWork /\ phase' = "loop"
           /\ UNCHANGED << monitors, next_id, published, server >>
  <2>1. ChannelsFit(name, channels')
    BY <1>4, ActivateFits DEF Fits
  <2>2. WorkFits(name, phase', work')
    BY <1>4 DEF WorkFits, BulkPhases
  <2>3. Fits(name)'
    BY <1>1, <1>2, <1>4, <2>1, <2>2 DEF Fits
  <2> QED BY <2>3 DEF NamesInv
<1>5. CASE /\ frame.cmd = "CREATE_CHANNEL" /\ frame.cid = work.cid /\ frame.ok
           /\ channels' = activate_channel(channels, work.cid, frame.sid)
           /\ next_id' = next_id + 1
           /\ Send({InitMessage(next_id, frame.sid)})
           /\ monitors' = Insert(monitors, next_id, NewMonitor(work.pv, frame.sid))
           /\ work' = [kind |-> "init", rid |-> next_id] /\ phase' = "init"
           /\ UNCHANGED published
  <2>1. PICK one, wider : one = << work.pv >> /\ wider = Listed(name, one)
    OBVIOUS
  <2>2. one \in Seq({work.pv}) /\ Len(one) = 1 /\ one[1] = work.pv
    BY <2>1
  <2>3. /\ Extends(name, wider) /\ DOMAIN wider = 1..(next_id + Len(one) - 1)
        /\ next_id + Len(one) \in Nat /\ next_id + Len(one) > 0
        /\ \A i \in 1..Len(one) :
             next_id + i - 1 \in DOMAIN wider /\ wider[next_id + i - 1] = one[i]
    <3>1. Len(one) \in Nat /\ phase # "ended" /\ wider = Listed(name, one)
      BY <1>2, <2>1, <2>2
    <3> QED BY <3>1, ListedFits
  <2>4. next_id \in DOMAIN wider /\ wider[next_id] = work.pv
    BY <2>2, <2>3 DEF Fits
  <2>5. frame.sid = ServerId(work.cid)
    BY <1>1, <1>5, FrameSays
  <2>6. frame.sid \in SidOf(wider, wider[next_id])
    BY <1>3, <2>3, <2>4, <2>5 DEF SidOf, Extends
  <2>7. /\ ChannelsFit(wider, channels) /\ MonitorsFit(wider, monitors)
        /\ ServerFits(wider, server) /\ Tail(toClient) \in Seq(Frames(wider))
    BY <1>1, <2>3, WiderFits
  <2>8. ChannelsFit(wider, channels')
    BY <1>5, <2>5, <2>7, ActivateFits
  <2>9. NewMonitor(work.pv, frame.sid)
          \in [pv : {wider[next_id]}, sid : SidOf(wider, wider[next_id]), typed : BOOLEAN]
    BY <2>4, <2>6 DEF NewMonitor
  <2>10. MonitorsFit(wider, monitors')
    BY <1>5, <2>4, <2>7, <2>9 DEF MonitorsFit, Insert, InsertAll
  <2>11. FitsMessage(wider, InitMessage(next_id, frame.sid))
    BY <2>4, <2>6 DEF FitsMessage
  <2>12. ServerFits(wider, server')
    BY <1>5, <2>7, <2>11, WrittenFits DEF Send
  <2>13. WorkFits(wider, phase', work')
    BY <1>5, <2>4 DEF WorkFits, BulkPhases
  <2>14. Fits(wider)'
    BY <1>2, <1>5, <2>2, <2>3, <2>7, <2>8, <2>10, <2>12, <2>13 DEF Fits
  <2> QED BY <2>14 DEF NamesInv
<1>6. CASE Dispatch(frame) /\ UNCHANGED << channels, monitors, next_id, work, phase >>
  <2>1. Fits(name)'
    BY <1>1, <1>2, <1>6, DispatchFits DEF Fits
  <2> QED BY <2>1 DEF NamesInv
<1> QED BY <1>4, <1>5, <1>6 DEF ReadCreate

\* The channels that were created are finitely many.
LEMMA CreatedFinite ==
  ASSUME NEW name, Fits(name), phase \in BulkPhases
  PROVE  IsFiniteSet(DOMAIN work.created) /\ Cardinality(DOMAIN work.created) \in Nat
<1>1. DOMAIN work.created \subseteq 1..(next_id - 1) /\ next_id \in Nat
  BY DEF Fits, WorkFits, BulkFits, Agrees
<1>2. IsFiniteSet(1..(next_id - 1))
  BY <1>1, FS_Interval
<1>3. IsFiniteSet(DOMAIN work.created)
  BY <1>1, <1>2, FS_Subset
<1> QED BY <1>3, FS_CardinalityType

LEMMA StartInitsFits ==
  ASSUME NEW name, Fits(name), phase \in BulkPhases, StartInits
  PROVE  NamesInv'
<1>1. PICK n, rids : /\ n = Cardinality(DOMAIN work.created)
                     /\ rids = next_id..(next_id + n - 1)
  OBVIOUS
<1>2. PICK cid \in Bijection(rids, DOMAIN work.created) :
        \E pending :
          /\ pending = [r \in rids |-> NewMonitor(work.ids[cid[r]], work.created[cid[r]])]
          /\ monitors' = InsertAll(monitors, pending)
          /\ Send({ InitMessage(r, pending[r].sid) : r \in rids })
          /\ work' = [work EXCEPT !.got = 0, !.expected = n, !.pending = pending]
  BY <1>1 DEF StartInits
<1>3. PICK pending :
        /\ pending = [r \in rids |-> NewMonitor(work.ids[cid[r]], work.created[cid[r]])]
        /\ monitors' = InsertAll(monitors, pending)
        /\ Send({ InitMessage(r, pending[r].sid) : r \in rids })
        /\ work' = [work EXCEPT !.got = 0, !.expected = n, !.pending = pending]
  BY <1>2
<1>4. \A r \in rids : cid[r] \in DOMAIN work.created
  BY DEF Bijection, Injection
<1>5. BulkFits(name, work) /\ n \in Nat /\ next_id \in Nat /\ next_id > 0
  BY <1>1, CreatedFinite DEF Fits, WorkFits, BulkPhases
<1>6. \A r \in rids : /\ cid[r] \in DOMAIN name /\ work.ids[cid[r]] = name[cid[r]]
                      /\ work.created[cid[r]] = ServerId(cid[r])
  BY <1>4, <1>5 DEF BulkFits, Agrees
<1>7. PICK wider : wider = [id \in 1..(next_id + n - 1) |->
                              IF id < next_id THEN name[id] ELSE name[cid[id]]]
  OBVIOUS
<1>8. /\ Extends(name, wider) /\ DOMAIN wider = 1..(next_id + n - 1)
      /\ \A r \in rids : r \in DOMAIN wider /\ wider[r] = name[cid[r]]
  BY <1>1, <1>5, <1>7 DEF Extends, Fits
<1>9. /\ ChannelsFit(wider, channels) /\ MonitorsFit(wider, monitors)
      /\ ServerFits(wider, server) /\ toClient \in Seq(Frames(wider))
      /\ WorkFits(wider, phase, work)
  BY <1>8, WiderFits
<1>10. MonitorsFit(wider, pending)
  <2> SUFFICES ASSUME NEW r \in rids
               PROVE  /\ r \in DOMAIN wider
                      /\ pending[r] \in [pv : {wider[r]}, sid : SidOf(wider, wider[r]),
                                         typed : BOOLEAN]
    BY <1>3 DEF MonitorsFit
  <2>1. pending[r] = [pv |-> name[cid[r]], sid |-> ServerId(cid[r]), typed |-> FALSE]
    BY <1>3, <1>6 DEF NewMonitor
  <2>2. ServerId(cid[r]) \in SidOf(wider, wider[r])
    BY <1>6, <1>8 DEF SidOf, Extends
  <2> QED BY <1>8, <2>1, <2>2
<1>11. MonitorsFit(wider, monitors')
  BY <1>3, <1>9, <1>10 DEF MonitorsFit, InsertAll
<1>12. DOMAIN pending = rids
  BY <1>3
<1>13. \A m \in { InitMessage(r, pending[r].sid) : r \in rids } : FitsMessage(wider, m)
  BY <1>10, <1>12 DEF MonitorsFit, FitsMessage
<1>14. ServerFits(wider, server')
  BY <1>3, <1>9, <1>13, WrittenFits DEF Send
<1>15. work' = [kind |-> "bulk", ids |-> work.ids, got |-> 0, expected |-> n,
                created |-> work.created, failed |-> work.failed, pending |-> pending,
                done |-> work.done]
  BY <1>3, <1>5 DEF BulkFits, IsBulk
<1>16. BulkFits(wider, work')
  <2>1. BulkFits(wider, work)
    BY <1>9 DEF WorkFits
  <2> QED BY <1>10, <1>15, <2>1 DEF BulkFits, IsBulk
<1>17. WorkFits(wider, phase', work')
  BY <1>16 DEF WorkFits, StartInits, BulkPhases
<1>18. /\ next_id' = next_id + n /\ phase' = "initialising"
       /\ UNCHANGED << channels, published, toClient >>
  BY <1>1 DEF StartInits
<1>19. Fits(wider)'
  BY <1>5, <1>8, <1>9, <1>11, <1>14, <1>17, <1>18 DEF Fits
<1> QED BY <1>19 DEF NamesInv

LEMMA DivMonotone ==
  ASSUME NEW a \in Nat, NEW b \in Nat, a <= b, NEW d \in Nat \ {0}
  PROVE  a \div d \in Nat /\ b \div d \in Nat /\ a \div d <= b \div d
OBVIOUS

\* Every name gets an id below those of the calls to come.
LEMMA SearchIds ==
  ASSUME NEW n \in Nat, NEW i \in 1..n, NEW first \in Nat
  PROVE  /\ Chunks(n) \in Nat
         /\ first + i - 1 + (i - 1) \div BatchSize \in first..(first + n + Chunks(n) - 1)
<1>1. BatchSize \in Nat \ {0}
  BY SessionAssumption
<1>2. i - 1 \in Nat /\ n + BatchSize - 1 \in Nat /\ i - 1 <= n + BatchSize - 1
  BY <1>1
<1>3. (i - 1) \div BatchSize \in Nat /\ Chunks(n) \in Nat
      /\ (i - 1) \div BatchSize <= Chunks(n)
  BY <1>1, <1>2, DivMonotone DEF Chunks
<1> DEFINE part == (i - 1) \div BatchSize
<1> HIDE DEF part
<1>4. part \in Nat /\ part <= Chunks(n) /\ Chunks(n) \in Nat
  BY <1>3 DEF part
<1>5. first + i - 1 + part \in first..(first + n + Chunks(n) - 1)
  BY <1>4
<1> QED BY <1>4, <1>5 DEF part

LEMMA StartSearchFits ==
  ASSUME NEW name, Fits(name), NEW names \in Seq(PVs), StartSearch(names)
  PROVE  NamesInv'
<1> DEFINE Id(i) == next_id + i - 1 + (i - 1) \div BatchSize
<1>1. PICK n, ids :
        /\ n = Len(names)
        /\ ids = [id \in { Id(i) : i \in 1..n } |-> CHOOSE i \in 1..n : Id(i) = id]
        /\ phase = "connected" /\ n > 0
        /\ Send({Authentication} \cup { SearchMessage(names, ids, k) : k \in 1..Chunks(n) })
        /\ next_id' = next_id + n + Chunks(n)
        /\ work' = [kind |-> "search", ids |-> [id \in DOMAIN ids |-> names[ids[id]]],
                    got |-> 0, expected |-> Chunks(n), found |-> {}]
        /\ phase' = "search"
        /\ UNCHANGED << channels, monitors, published, toClient, open, events >>
  BY DEF StartSearch
<1>2. n \in Nat /\ next_id \in Nat /\ next_id > 0 /\ DOMAIN name = 1..(next_id - 1)
  BY <1>1 DEF Fits
<1>3. Chunks(n) \in Nat /\ \A i \in 1..n : Id(i) \in next_id..(next_id + n + Chunks(n) - 1)
  <2>1. 1 \in 1..n
    BY <1>1, <1>2
  <2>2. Chunks(n) \in Nat
    BY <1>2, <2>1, SearchIds
  <2>3. ASSUME NEW i \in 1..n
        PROVE  Id(i) \in next_id..(next_id + n + Chunks(n) - 1)
    BY <1>2, SearchIds
  <2> QED BY <2>2, <2>3
<1>4. DOMAIN ids \subseteq next_id..(next_id + n + Chunks(n) - 1)
  <2> HIDE DEF Id
  <2> QED BY <1>1, <1>3
<1>5. PICK wider : wider = [id \in 1..(next_id + n + Chunks(n) - 1) |->
                              IF id < next_id THEN name[id] ELSE names[ids[id]]]
  OBVIOUS
<1>6. /\ Extends(name, wider) /\ DOMAIN wider = 1..(next_id + n + Chunks(n) - 1)
      /\ \A id \in DOMAIN ids : id \in DOMAIN wider /\ wider[id] = names[ids[id]]
  BY <1>2, <1>3, <1>4, <1>5 DEF Extends
<1>7. /\ ChannelsFit(wider, channels) /\ MonitorsFit(wider, monitors)
      /\ ServerFits(wider, server) /\ toClient \in Seq(Frames(wider))
  BY <1>6, WiderFits
<1>8. \A k : FitsMessage(wider, SearchMessage(names, ids, k))
  BY <1>6 DEF FitsMessage, SearchMessage, Agrees
<1>9. FitsMessage(wider, Authentication)
  BY DEF FitsMessage, Authentication
<1>10. PICK messages :
         messages = {Authentication} \cup { SearchMessage(names, ids, k) : k \in 1..Chunks(n) }
  OBVIOUS
<1>11. \A m \in messages : FitsMessage(wider, m)
  BY <1>8, <1>9, <1>10
<1>12. ServerFits(wider, server')
  BY <1>1, <1>7, <1>10, <1>11, WrittenFits DEF Send
<1>13. SearchFits(wider, work')
  BY <1>1, <1>6 DEF SearchFits, IsSearch, Agrees
<1>14. WorkFits(wider, phase', work')
  BY <1>1, <1>13 DEF WorkFits, BulkPhases
<1>15. /\ next_id' = next_id + n + Chunks(n) /\ next_id' \in Nat /\ next_id' > 0
       /\ UNCHANGED << channels, monitors, published, toClient >>
  BY <1>1, <1>2, <1>3
<1>16. DOMAIN wider = 1..(next_id' - 1)
  BY <1>2, <1>3, <1>6, <1>15
<1>17. \A e \in published' : e[1] = e[2]
  BY <1>15 DEF Fits
<1>18. MonitorsFit(wider, monitors') /\ ChannelsFit(wider, channels')
      /\ toClient' \in Seq(Frames(wider))
  BY <1>7, <1>15
<1>19. Fits(wider)'
  BY <1>12, <1>14, <1>15, <1>16, <1>17, <1>18 DEF Fits
<1> QED BY <1>19 DEF NamesInv

----------------------------------------------------------------------------
(* AnswersMatched.                                                         *)

LEMMA InitNames == Init => NamesInv
<1> SUFFICES ASSUME Init PROVE NamesInv
  OBVIOUS
<1>1. PICK name : name = [id \in {} |-> 0]
  OBVIOUS
<1>2. DOMAIN name = 1..(next_id - 1) /\ next_id \in Nat /\ next_id > 0
  <2>1. next_id = 1
    BY DEF Init
  <2>2. \A id : id \notin 1..(1 - 1)
    OBVIOUS
  <2> QED BY <1>1, <2>1, <2>2
<1>3. WorkFits(name, phase, work)
  BY DEF Init, WorkFits, BulkPhases
<1>4. Fits(name)
  BY <1>2, <1>3, NothingFits DEF Init, Fits
<1> QED BY <1>4 DEF NamesInv

\* A frame that is read.
ReadFrame(frame) ==
  \/ ReadHandshake(frame) \/ ReadUnexpected(frame)
  \/ ReadSearch(frame) \/ ReadCreated(frame) \/ ReadInit(frame)
  \/ LoopFrame(frame) \/ ReadCreate(frame) \/ ReadStart(frame)

LEMMA NextNames == NamesInv /\ [Next]_vars => NamesInv'
<1> SUFFICES ASSUME NamesInv, [Next]_vars PROVE NamesInv'
  OBVIOUS
<1>1. PICK name : Fits(name)
  BY DEF NamesInv
<1>2. Fits(name)' => NamesInv'
  BY DEF NamesInv
<1>3. CASE ServerAnswers
  BY <1>1, <1>2, <1>3, ServerAnswersFits
<1>4. CASE Cut
  BY <1>1, <1>2, <1>4, CutFits
<1>5. ASSUME NEW rid \in DOMAIN server.monitors, ServerUpdates(rid) PROVE NamesInv'
  BY <1>1, <1>2, <1>5, ServerUpdatesFits
<1>6. ASSUME NEW c \in Greetings, Greet(c) PROVE NamesInv'
  BY <1>1, <1>2, <1>6, GreetFits
<1>7. ASSUME NEW frame \in { toClient[i] : i \in {1} \cap DOMAIN toClient }, ReadFrame(frame)
      PROVE  NamesInv'
  <2>1. CASE ReadHandshake(frame)
    BY <1>1, <1>2, <2>1, HandshakeFits
  <2>2. CASE ReadUnexpected(frame)
    BY <2>2, DroppedFits DEF ReadUnexpected
  <2>3. CASE ReadSearch(frame)
    BY <1>1, <1>2, <2>3, ReadSearchFits
  <2>4. CASE ReadCreated(frame)
    BY <1>1, <1>2, <2>4, ReadCreatedFits
  <2>5. CASE ReadInit(frame)
    BY <1>1, <1>2, <2>5, ReadInitFits
  <2>6. CASE LoopFrame(frame)
    BY <1>1, <1>2, <2>6, LoopFrameFits
  <2>7. CASE ReadCreate(frame)
    BY <1>1, <2>7, ReadCreateFits
  <2>8. CASE ReadStart(frame)
    BY <1>1, <1>2, <2>8, ReadStartFits
  <2> QED BY <1>7, <2>1, <2>2, <2>3, <2>4, <2>5, <2>6, <2>7, <2>8 DEF ReadFrame
<1>8. SearchLists \subseteq Seq(PVs) /\ Lists \subseteq Seq(PVs) /\ AddLists \subseteq Seq(PVs)
  BY SessionAssumption
<1>9. ASSUME NEW names \in SearchLists, StartSearch(names) PROVE NamesInv'
  BY <1>1, <1>8, <1>9, StartSearchFits
<1>10. ASSUME NEW names \in Lists, Subscribe(names) PROVE NamesInv'
  BY <1>1, <1>8, <1>10, StartBulkFits DEF Subscribe
<1>11. ASSUME NEW names \in AddLists, AddBatch(names) PROVE NamesInv'
  BY <1>1, <1>8, <1>11, StartBulkFits DEF AddBatch, Command
<1>12. ASSUME NEW pv \in PVs, AddMonitor(pv) PROVE NamesInv'
  BY <1>1, <1>12, AddMonitorFits
<1>13. ASSUME NEW pv \in PVs, RemoveMonitor(pv) PROVE NamesInv'
  BY <1>1, <1>2, <1>13, RemoveMonitorFits
<1>14. CASE EndSearch
  BY <1>1, <1>2, <1>14, EndSearchFits
<1>15. CASE DropSearched \/ Shutdown \/ Disconnected
  BY <1>15, DroppedFits DEF DropSearched, Shutdown, Disconnected
<1>16. CASE BulkEnds
  <2>1. CASE EndCreating
    BY <1>1, <2>1, StartInitsFits DEF EndCreating, LoopOver
  <2>2. CASE EndInits
    BY <1>1, <1>2, <2>2, RetryFits, FinishBulkFits DEF EndInits, LoopOver
  <2>3. CASE EndRetry
    BY <1>1, <1>2, <2>3, FinishBulkFits DEF EndRetry, LoopOver
  <2> QED BY <1>16, <2>1, <2>2, <2>3 DEF BulkEnds
<1>17. CASE EchoTick
  BY <1>1, <1>2, <1>17, EchoTickFits
<1>18. CASE CommandFails
  BY <1>1, <1>2, <1>18, CommandFailsFits
<1>19. CASE UNCHANGED vars
  BY <1>1, <1>2, <1>19 DEF vars, clientVars, Fits
<1>20. CASE Ended
  BY <1>19, <1>20 DEF Ended
<1>21. CASE ServerReads
  BY <1>1, <1>2, <1>21 DEF ServerReads, clientVars, Fits
<1> QED BY <1>3, <1>4, <1>5, <1>6, <1>7, <1>9, <1>10, <1>11, <1>12, <1>13, <1>14, <1>15,
           <1>16, <1>17, <1>18, <1>19, <1>20, <1>21, Zenon
        DEF Next, Greetings, ReadFrame, ReadHandshake

LEMMA NamesMatch == NamesInv => AnswersMatched
<1> SUFFICES ASSUME NamesInv PROVE AnswersMatched
  OBVIOUS
<1>1. PICK name : Fits(name)
  BY DEF NamesInv
<1>2. phase = "connected" /\ work.kind = "searched" => work.found \subseteq Hosted
  BY <1>1 DEF Fits, WorkFits, NoWork
<1>3. ASSUME NEW c \in DOMAIN channels, channels[c].state = Active,
             channels[c].sid \in DOMAIN server.channels
      PROVE  NameOf(channels[c].sid) = channels[c].pv
  <2>1. channels[c].sid = ServerId(c) /\ channels[c].pv = name[c] /\ c \in DOMAIN name
    BY <1>1, <1>3 DEF Fits, ChannelsFit
  <2>2. ServerId(c) \in SidOf(name, NameOf(channels[c].sid))
    BY <1>1, <1>3, <2>1 DEF Fits, ServerFits, NameOf
  <2>3. \A d \in DOMAIN name : d \in Int
    BY <1>1 DEF Fits
  <2> QED BY <2>1, <2>2, <2>3 DEF SidOf, ServerId
<1>4. \A r \in DOMAIN monitors \cap DOMAIN server.monitors :
        server.monitors[r].pv = monitors[r].pv
  BY <1>1 DEF Fits, MonitorsFit, ServerFits
<1>5. \A e \in published : e[1] = e[2]
  BY <1>1 DEF Fits
<1> QED BY <1>2, <1>3, <1>4, <1>5 DEF AnswersMatched

\* However late, reordered or refused the server's answers are, and however
\* calls, commands, ticks and cuts interleave with them, what the session
\* believes of a name is what the server said of it (search_pvs,
\* create_channel, start_monitor, add_monitors_bulk, handle_monitor_update).
THEOREM SessionAnswersMatched == Spec => []AnswersMatched
<1>1. Spec => []NamesInv
  BY InitNames, NextNames, PTL DEF Spec
<1> QED BY <1>1, NamesMatch, PTL

----------------------------------------------------------------------------
(* A channel is answered once.                                             *)

\* Frames are read or lost, and no channel waits that did not.
LEMMA OneAnswerLess ==
  ASSUME NEW q, NEW S, q \in Seq(S), NEW srv, NEW noted, OneAnswer(q, srv, noted),
         NEW r, r = q \/ r = << >> \/ (r = Tail(q) /\ Len(q) > 0),
         NEW less, Waiting(less) \subseteq Waiting(srv), NEW fewer, fewer \subseteq noted
  PROVE  OneAnswer(r, less, fewer)
<1>1. CASE r = q
  BY <1>1 DEF OneAnswer
<1>2. CASE r = << >>
  BY <1>2 DEF OneAnswer
<1>3. CASE r = Tail(q) /\ Len(q) > 0
  <2>1. /\ Len(r) = Len(q) - 1 /\ Len(q) \in Nat
        /\ \A i \in 1..Len(r) : i + 1 \in 1..Len(q) /\ r[i] = q[i + 1]
    BY <1>3
  <2>2. ASSUME NEW i \in 1..Len(r), NEW j \in 1..Len(r), Answered(r[i]), Answered(r[j]),
               r[i].cid = r[j].cid
        PROVE  i = j
    <3>1. i + 1 = j + 1
      BY <2>1, <2>2 DEF OneAnswer
    <3> QED BY <2>1, <3>1
  <2>3. \A i \in 1..Len(r) : Answered(r[i]) => r[i].cid \notin Waiting(less) \cup fewer
    BY <2>1 DEF OneAnswer
  <2> QED BY <2>2, <2>3 DEF OneAnswer
<1> QED BY <1>1, <1>2, <1>3

\* A frame is sent.
LEMMA OneAnswerMore ==
  ASSUME NEW q, NEW S, q \in Seq(S), NEW srv, NEW noted, OneAnswer(q, srv, noted),
         NEW f, NEW less, Waiting(less) \subseteq Waiting(srv),
         Answered(f) => f.cid \in Waiting(srv) \ Waiting(less)
  PROVE  OneAnswer(Append(q, f), less, noted)
<1> DEFINE r == Append(q, f)
<1>1. /\ Len(r) = Len(q) + 1 /\ Len(q) \in Nat /\ r[Len(q) + 1] = f
      /\ \A i \in 1..Len(q) : r[i] = q[i]
  OBVIOUS
<1> HIDE DEF r
<1>2. \A i \in 1..Len(r) : Answered(r[i]) => r[i].cid \notin Waiting(less) \cup noted
  <2> TAKE i \in 1..Len(r)
  <2>1. CASE i \in 1..Len(q)
    BY <1>1, <2>1 DEF OneAnswer
  <2>2. CASE i = Len(q) + 1
    BY <1>1, <2>2 DEF OneAnswer
  <2> QED BY <1>1, <2>1, <2>2
<1>3. \A i \in 1..Len(q) : Answered(f) /\ Answered(q[i]) => q[i].cid # f.cid
  BY DEF OneAnswer
<1>4. ASSUME NEW i \in 1..Len(r), NEW j \in 1..Len(r), Answered(r[i]), Answered(r[j]),
             r[i].cid = r[j].cid
      PROVE  i = j
  <2>1. CASE i \in 1..Len(q) /\ j \in 1..Len(q)
    BY <1>1, <1>4, <2>1 DEF OneAnswer
  <2>2. CASE i = Len(q) + 1 \/ j = Len(q) + 1
    BY <1>1, <1>3, <1>4, <2>2
  <2> QED BY <1>1, <2>1, <2>2
<1>5. Waiting(less) \cap noted = {}
  BY DEF OneAnswer
<1> QED BY <1>2, <1>4, <1>5 DEF OneAnswer, r

\* A message that is no CREATE_CHANNEL makes no channel wait.
LEMMA QuietWritten ==
  ASSUME NEW srv, NEW messages, \A m \in messages : m.cmd # "CREATE_CHANNEL"
  PROVE  Waiting(Written(srv, messages)) \subseteq Waiting(srv)
<1>1. \A m \in Written(srv, messages).held : m.cmd = "CREATE_CHANNEL" => m \in srv.held
  BY DEF Written, Receives
<1> QED BY <1>1 DEF Waiting

LEMMA QuietDispatch ==
  ASSUME NEW frame, Dispatch(frame)
  PROVE  Waiting(server') \subseteq Waiting(server)
<1>1. Waiting(Written(server, {[cmd |-> "ECHO"]})) \subseteq Waiting(server)
  BY QuietWritten
<1> QED BY <1>1 DEF Dispatch, Send

LEMMA ServerOneAnswer ==
  ASSUME NEW name, Fits(name), BulkInv, NEW m \in server.held, Answers(m)
  PROVE  OneAnswer(toClient', server', Noted(phase, work))
<1>1. toClient \in Seq(Frames(name)) /\ OneAnswer(toClient, server, Noted(phase, work))
  BY DEF Fits, BulkInv
<1>2. PICK frame : /\ toClient' = Append(toClient, frame)
                   /\ Answered(frame) => m.cmd = "CREATE_CHANNEL" /\ frame.cid = m.cid
  <2> DEFINE created == [cmd |-> "CREATE_CHANNEL", cid |-> m.cid, sid |-> ServerId(m.cid),
                         ok |-> TRUE]
             refused == [cmd |-> "CREATE_CHANNEL", cid |-> m.cid, sid |-> 0, ok |-> FALSE]
             init(s) == [cmd |-> "INIT", rid |-> m.rid, status |-> s]
             hits == { id \in DOMAIN m.names : m.names[id] \in Hosted }
             found == [cmd |-> "SEARCH_RESPONSE", ids |-> hits]
  <2>1. /\ created.cid = m.cid /\ refused.cid = m.cid
        /\ \A s : ~Answered(init(s))
        /\ ~Answered(found) /\ ~Answered([cmd |-> "ECHO"])
        /\ ~Answered([cmd |-> "VALIDATED"])
    <3> HIDE DEF hits
    <3> QED BY DEF Answered
  <2>2. \/ m.cmd = "CREATE_CHANNEL" /\ toClient' = Append(toClient, created)
        \/ m.cmd = "CREATE_CHANNEL" /\ toClient' = Append(toClient, refused)
        \/ \E s : toClient' = Append(toClient, init(s))
        \/ toClient' = Append(toClient, found)
        \/ toClient' = Append(toClient, [cmd |-> "ECHO"])
        \/ toClient' = Append(toClient, [cmd |-> "VALIDATED"])
    BY Zenon DEF Answers, Answer
  <2> HIDE DEF created, refused, init, found
  <2> QED BY <2>1, <2>2
<1>3. server'.held = server.held \ {m}
  BY DEF Answers, Answer, Fits, ServerFits
<1>4. Waiting(server') \subseteq Waiting(server)
  BY <1>3 DEF Waiting
<1>5. ASSUME m.cmd = "CREATE_CHANNEL" PROVE m.cid \in Waiting(server) \ Waiting(server')
  <2>1. \A x \in server.held : x.cmd = "CREATE_CHANNEL" =>
          x = [cmd |-> "CREATE_CHANNEL", cid |-> x.cid, pv |-> name[x.cid]]
    BY DEF Fits, ServerFits, FitsMessage, InitMessage
  <2>2. \A x \in server.held : x.cmd = "CREATE_CHANNEL" /\ x.cid = m.cid => x = m
    BY <1>5, <2>1
  <2> QED BY <1>3, <1>5, <2>2 DEF Waiting
<1> QED BY <1>1, <1>2, <1>4, <1>5, OneAnswerMore

----------------------------------------------------------------------------
(* The bookkeeping is kept.                                                *)

\* No channel waits that did not, and no frame is sent.
Quiet ==
  /\ Waiting(server') \subseteq Waiting(server)
  /\ \/ toClient' = toClient \/ toClient' = << >>
     \/ toClient' = Tail(toClient) /\ Len(toClient) > 0

\* A step of another call.
LEMMA BulkOutside ==
  ASSUME NEW name, Fits(name), BulkInv, Quiet, phase' \notin BulkPhases
  PROVE  BulkInv'
<1>1. Noted(phase', work') = {}
  BY DEF Noted, BulkPhases
<1>2. toClient \in Seq(Frames(name)) /\ OneAnswer(toClient, server, Noted(phase, work))
  BY DEF Fits, BulkInv
<1>3. OneAnswer(toClient', server', {})
  BY <1>2, OneAnswerLess DEF Quiet
<1> QED BY <1>1, <1>3 DEF BulkInv

\* The client is not concerned.
LEMMA BulkElsewhere ==
  ASSUME BulkInv, UNCHANGED << phase, clientVars >>,
         OneAnswer(toClient', server', Noted(phase, work))
  PROVE  BulkInv'
BY DEF BulkInv, BulkKnown, PendingKnown, clientVars

LEMMA BulkServer ==
  ASSUME NEW name, Fits(name), BulkInv,
         \/ ServerAnswers \/ Cut
         \/ \E rid \in DOMAIN server.monitors : ServerUpdates(rid)
         \/ \E c \in Greetings : Greet(c)
  PROVE  BulkInv'
<1>1. toClient \in Seq(Frames(name)) /\ OneAnswer(toClient, server, Noted(phase, work))
  BY DEF Fits, BulkInv
<1>2. CASE ServerAnswers
  BY <1>2, ServerOneAnswer, BulkElsewhere DEF ServerAnswers
<1>3. CASE Cut
  <2>1. Waiting(NewServer) = {}
    BY DEF Waiting, NewServer
  <2>2. OneAnswer(<< >>, NewServer, Noted(phase, work))
    BY <1>1, <2>1, OneAnswerLess
  <2> QED BY <1>3, <2>2, BulkElsewhere DEF Cut
<1>4. ASSUME NEW rid \in DOMAIN server.monitors, ServerUpdates(rid) PROVE BulkInv'
  <2>1. ~Answered([cmd |-> "UPDATE", rid |-> rid, of |-> server.monitors[rid].pv])
    BY DEF Answered
  <2>2. OneAnswer(Append(toClient, [cmd |-> "UPDATE", rid |-> rid,
                                    of |-> server.monitors[rid].pv]),
                  server, Noted(phase, work))
    BY <1>1, <2>1, OneAnswerMore
  <2> QED BY <1>4, <2>2, BulkElsewhere DEF ServerUpdates
<1>5. ASSUME NEW c \in Greetings, Greet(c) PROVE BulkInv'
  <2>1. ~Answered([cmd |-> c])
    BY DEF Answered, Greetings
  <2>2. OneAnswer(Append(toClient, [cmd |-> c]), server, Noted(phase, work))
    BY <1>1, <2>1, OneAnswerMore
  <2> QED BY <1>5, <2>2, BulkElsewhere DEF Greet
<1> QED BY <1>2, <1>3, <1>4, <1>5

LEMMA QuietDropped ==
  ASSUME Dropped
  PROVE  Quiet /\ phase' \notin BulkPhases
BY DEF Dropped, Quiet, Waiting, NewServer, BulkPhases

LEMMA QuietSteps ==
  ASSUME \/ EndSearch \/ EchoTick \/ CommandFails \/ FinishBulk
         \/ \E names \in SearchLists : StartSearch(names)
         \/ \E pv \in PVs : RemoveMonitor(pv)
  PROVE  Quiet /\ phase' \notin BulkPhases
<1>1. CASE EndSearch \/ CommandFails
  BY <1>1 DEF EndSearch, SearchEnds, CommandFails, Quiet, BulkPhases
<1>2. CASE EchoTick
  <2>1. Waiting(Written(server, {[cmd |-> "ECHO"]})) \subseteq Waiting(server)
    BY QuietWritten
  <2> QED BY <1>2, <2>1 DEF EchoTick, Send, Quiet, BulkPhases
<1>3. CASE FinishBulk
  <2>1. Waiting(Written(server, { [cmd |-> "START", rid |-> r] :
                                    r \in DOMAIN work.pending \cap work.done }))
          \subseteq Waiting(server)
    BY QuietWritten
  <2> QED BY <1>3, <2>1 DEF FinishBulk, Send, Quiet, BulkPhases
<1>4. ASSUME NEW names \in SearchLists, StartSearch(names)
      PROVE  Quiet /\ phase' \notin BulkPhases
  <2> DEFINE n == Len(names)
             Id(i) == next_id + i - 1 + (i - 1) \div BatchSize
             ids == [id \in { Id(i) : i \in 1..n } |-> CHOOSE i \in 1..n : Id(i) = id]
             messages == {Authentication} \cup { SearchMessage(names, ids, k) : k \in 1..Chunks(n) }
  <2>1. server' = Written(server, messages)
    BY <1>4 DEF StartSearch, Send
  <2>2. \A m \in messages : m.cmd # "CREATE_CHANNEL"
    <3> HIDE DEF ids
    <3>1. Authentication.cmd = "VALIDATION"
      BY DEF Authentication
    <3>2. \A k : SearchMessage(names, ids, k).cmd = "SEARCH"
      BY DEF SearchMessage
    <3> QED BY <3>1, <3>2
  <2>3. Waiting(server') \subseteq Waiting(server)
    <3> HIDE DEF messages
    <3> QED BY <2>1, <2>2, QuietWritten
  <2> QED BY <1>4, <2>3 DEF StartSearch, Quiet, BulkPhases
<1>5. ASSUME NEW pv \in PVs, RemoveMonitor(pv)
      PROVE  Quiet /\ phase' \notin BulkPhases
  <2> DEFINE destroy(cid) == [cmd |-> "DESTROY_CHANNEL", cid |-> cid, sid |-> channels[cid].sid]
             stop(rid) == [cmd |-> "STOP", rid |-> rid]
  <2>1. \/ server' = server
        \/ \E cid : server' = Written(server, {destroy(cid)})
        \/ \E cid, rid : server' = Written(server, {stop(rid), destroy(cid)})
    BY <1>5 DEF RemoveMonitor, Send
  <2>2. Waiting(server') \subseteq Waiting(server)
    <3>1. \A cid, rid : destroy(cid).cmd # "CREATE_CHANNEL" /\ stop(rid).cmd # "CREATE_CHANNEL"
      OBVIOUS
    <3> HIDE DEF destroy, stop
    <3>2. ASSUME NEW cid
          PROVE  Waiting(Written(server, {destroy(cid)})) \subseteq Waiting(server)
      BY <3>1, QuietWritten
    <3>3. ASSUME NEW cid, NEW rid
          PROVE  Waiting(Written(server, {stop(rid), destroy(cid)})) \subseteq Waiting(server)
      BY <3>1, QuietWritten
    <3> QED BY <2>1, <3>2, <3>3
  <2> QED BY <1>5, <2>2 DEF RemoveMonitor, Command, Quiet, BulkPhases
<1> QED BY <1>1, <1>2, <1>3, <1>4, <1>5

\* The frames of the other calls.
LEMMA QuietReads ==
  ASSUME NEW name, Fits(name),
         NEW frame \in { toClient[i] : i \in {1} \cap DOMAIN toClient },
         \/ ReadHandshake(frame) \/ ReadSearch(frame) \/ LoopFrame(frame)
         \/ ReadCreate(frame) \/ ReadStart(frame)
  PROVE  Quiet /\ phase' \notin BulkPhases
<1>1. toClient' = Tail(toClient) /\ Len(toClient) > 0
  BY FirstFrame DEF Fits, ReadHandshake, ReadByteOrder, ReadValidation, ReadValidated,
     ReadSearch, LoopFrame, ReadCreate, ReadStart, Receive
<1>2. phase' \notin BulkPhases
  BY DEF ReadHandshake, ReadByteOrder, ReadValidation, ReadValidated, ReadSearch, SearchEnds,
     LoopFrame, ReadCreate, ReadStart, BulkPhases
<1>3. \/ server' = server \/ Dispatch(frame)
      \/ \E m : server' = Written(server, {m}) /\ m.cmd # "CREATE_CHANNEL"
  <2>1. /\ Authentication.cmd # "CREATE_CHANNEL"
        /\ \A r, s : InitMessage(r, s).cmd # "CREATE_CHANNEL"
        /\ \A r : [cmd |-> "START", rid |-> r].cmd # "CREATE_CHANNEL"
    BY DEF Authentication, InitMessage
  <2>2. \/ server' = server \/ Dispatch(frame) \/ server' = Written(server, {Authentication})
        \/ \E r, s : server' = Written(server, {InitMessage(r, s)})
        \/ \E r : server' = Written(server, {[cmd |-> "START", rid |-> r]})
    BY DEF ReadHandshake, ReadByteOrder, ReadValidation, ReadValidated, ReadSearch, LoopFrame,
       ReadCreate, ReadStart, Send
  <2> QED BY <2>1, <2>2
<1>4. Waiting(server') \subseteq Waiting(server)
  BY <1>3, QuietDispatch, QuietWritten
<1> QED BY <1>1, <1>2, <1>4 DEF Quiet

\* A CREATE_CHANNEL has an id that no frame speaks of yet.
LEMMA OneAnswerAsks ==
  ASSUME NEW name, Fits(name), BulkInv, NEW messages,
         \A m \in messages : m.cmd = "CREATE_CHANNEL" => m.cid \notin DOMAIN name
  PROVE  OneAnswer(toClient, Written(server, messages), {})
<1>1. \A m \in Written(server, messages).held :
        m.cmd = "CREATE_CHANNEL" => m \in server.held \/ m.cid \notin DOMAIN name
  BY DEF Written, Receives
<1>2. \A c \in Waiting(Written(server, messages)) : c \in Waiting(server) \/ c \notin DOMAIN name
  BY <1>1 DEF Waiting
<1>3. \A i \in 1..Len(toClient) : Answered(toClient[i]) => toClient[i].cid \in DOMAIN name
  <2> TAKE i \in 1..Len(toClient)
  <2>1. toClient[i] \in Frames(name)
    BY DEF Fits
  <2> QED BY <2>1, FrameSays DEF Answered
<1> QED BY <1>2, <1>3 DEF BulkInv, OneAnswer

LEMMA BulkStart ==
  ASSUME NEW name, Fits(name), BulkInv, phase \in {"connected", "loop"},
         NEW names \in Seq(PVs), IsInjective(names), StartBulk(names)
  PROVE  BulkInv'
<1> DEFINE Cid(i) == next_id + i - 1
           messages == { [cmd |-> "CREATE_CHANNEL", cid |-> Cid(i), pv |-> names[i]] :
                           i \in DOMAIN names }
           ids == [c \in { Cid(i) : i \in DOMAIN names } |-> names[c - next_id + 1]]
           bulk == [kind |-> "bulk", ids |-> ids, got |-> 0, expected |-> Len(names),
                    created |-> << >>, failed |-> {}, pending |-> << >>, done |-> {}]
<1>1. /\ next_id \in Nat /\ DOMAIN name = 1..(next_id - 1)
      /\ DOMAIN names = 1..Len(names) /\ Len(names) \in Nat
  BY DEF Fits
<1>2. CASE UNCHANGED << server, toClient >> /\ phase' = "loop"
  <2>1. Quiet /\ phase' \notin BulkPhases
    BY <1>2 DEF Quiet, BulkPhases
  <2> QED BY <2>1, BulkOutside
<1>3. CASE /\ server' = Written(server, messages) /\ work' = bulk
           /\ phase' = "creating" /\ toClient' = toClient
  <2>1. \A m \in messages : m.cid \notin DOMAIN name
    BY <1>1
  <2>2. OneAnswer(toClient, Written(server, messages), {})
    <3> HIDE DEF messages
    <3> QED BY <2>1, OneAnswerAsks
  <2>3. /\ work'.ids = ids /\ work'.created = << >> /\ work'.failed = {}
    <3> HIDE DEF ids
    <3> QED BY <1>3
  <2>4. Noted(phase', work') = {}
    <3> HIDE DEF bulk
    <3> QED BY <1>3, <2>3 DEF Noted
  <2>5. DOMAIN ids \subseteq DOMAIN channels'
    BY <1>1 DEF StartBulk, AddChannels
  <2>6. \A c, d \in DOMAIN ids : ids[c] = ids[d] => c = d
    BY <1>1 DEF IsInjective
  <2>7. BulkKnown'
    <3> HIDE DEF ids, bulk
    <3> QED BY <1>3, <2>3, <2>5, <2>6 DEF BulkKnown
  <2> HIDE DEF messages, bulk
  <2> QED BY <1>3, <2>2, <2>4, <2>7 DEF BulkInv
<1> QED BY <1>2, <1>3 DEF StartBulk, Send

LEMMA BulkAddMonitor ==
  ASSUME NEW name, Fits(name), BulkInv, NEW pv \in PVs, AddMonitor(pv)
  PROVE  BulkInv'
<1> DEFINE message == [cmd |-> "CREATE_CHANNEL", cid |-> next_id, pv |-> pv]
<1>1. CASE UNCHANGED << server, phase >>
  <2>1. Quiet /\ phase' \notin BulkPhases
    BY <1>1 DEF Quiet, BulkPhases, AddMonitor, Command
  <2> QED BY <2>1, BulkOutside
<1>2. CASE server' = Written(server, {message}) /\ phase' = "create" /\ toClient' = toClient
  <2>1. message.cid \notin DOMAIN name
    BY DEF Fits
  <2>2. OneAnswer(toClient, Written(server, {message}), {})
    <3> HIDE DEF message
    <3> QED BY <2>1, OneAnswerAsks
  <2>3. Noted(phase', work') = {} /\ phase' \notin BulkPhases
    BY <1>2 DEF Noted, BulkPhases
  <2> HIDE DEF message
  <2> QED BY <1>2, <2>2, <2>3 DEF BulkInv
<1> QED BY <1>1, <1>2 DEF AddMonitor, Send

\* Frames that are dispatched while a bulk subscription waits.
LEMMA BulkDispatch ==
  ASSUME NEW name, Fits(name), BulkInv,
         NEW frame \in { toClient[i] : i \in {1} \cap DOMAIN toClient },
         Receive(frame), Dispatch(frame), UNCHANGED << phase, channels, monitors, work >>
  PROVE  BulkInv'
<1>1. toClient \in Seq(Frames(name)) /\ OneAnswer(toClient, server, Noted(phase, work))
  BY DEF Fits, BulkInv
<1>2. toClient' = Tail(toClient) /\ Len(toClient) > 0
  BY <1>1, FirstFrame DEF Receive
<1>3. OneAnswer(toClient', server', Noted(phase, work))
  BY <1>1, <1>2, QuietDispatch, OneAnswerLess
<1> QED BY <1>3 DEF BulkInv, BulkKnown, PendingKnown

\* What is read of a channel will not be heard of again.
LEMMA HeardOnce ==
  ASSUME NEW name, Fits(name), BulkInv, phase = "creating",
         NEW frame \in { toClient[i] : i \in {1} \cap DOMAIN toClient },
         Receive(frame), frame.cmd = "CREATE_CHANNEL", server' = server, phase' = phase,
         Noted(phase', work') \subseteq Noted(phase, work) \cup {frame.cid}
  PROVE  /\ OneAnswer(toClient', server', Noted(phase', work'))
         /\ frame.cid \notin work.failed \cup DOMAIN work.created
<1>1. toClient \in Seq(Frames(name)) /\ OneAnswer(toClient, server, Noted(phase, work))
  BY DEF Fits, BulkInv
<1>2. /\ toClient' = Tail(toClient) /\ Len(toClient) > 0 /\ frame = toClient[1]
      /\ Len(toClient') = Len(toClient) - 1 /\ Len(toClient) \in Nat
      /\ \A i \in 1..Len(toClient') : toClient'[i] = toClient[i + 1]
  BY <1>1, FirstFrame DEF Receive
<1>3. frame.cid \notin Waiting(server) \cup Noted(phase, work)
  BY <1>1, <1>2 DEF OneAnswer, Answered
<1>4. \A i \in 1..Len(toClient') : Answered(toClient'[i]) => toClient'[i].cid # frame.cid
  <2> SUFFICES ASSUME NEW i \in 1..Len(toClient'), Answered(toClient'[i]),
                      toClient'[i].cid = frame.cid
               PROVE  FALSE
    OBVIOUS
  <2>1. i + 1 \in 1..Len(toClient) /\ 1 \in 1..Len(toClient) /\ i + 1 # 1
    BY <1>2
  <2> QED BY <1>1, <1>2, <2>1 DEF OneAnswer, Answered
<1>5. OneAnswer(toClient', server, Noted(phase, work))
  BY <1>1, <1>2, OneAnswerLess
<1>6. OneAnswer(toClient', server', Noted(phase', work'))
  BY <1>3, <1>4, <1>5 DEF OneAnswer
<1> QED BY <1>3, <1>6 DEF Noted

LEMMA BulkReadCreated ==
  ASSUME NEW name, Fits(name), BulkInv,
         NEW frame \in { toClient[i] : i \in {1} \cap DOMAIN toClient }, ReadCreated(frame)
  PROVE  BulkInv'
<1>1. phase = "creating" /\ phase' = phase /\ Receive(frame) /\ UNCHANGED monitors
  BY DEF ReadCreated
<1>2. BulkFits(name, work) /\ BulkKnown
  BY <1>1 DEF Fits, WorkFits, BulkPhases, BulkInv
<1>3. CASE frame.cmd = "CREATE_CHANNEL" /\ frame.ok
           /\ channels' = activate_channel(channels, frame.cid, frame.sid)
           /\ work' = [work EXCEPT !.got = @ + 1,
                                   !.created = Created(work, frame.cid, frame.sid)]
           /\ UNCHANGED server
  <2>1. work' = [kind |-> "bulk", ids |-> work.ids, got |-> work.got + 1,
                 expected |-> work.expected, created |-> Created(work, frame.cid, frame.sid),
                 failed |-> work.failed, pending |-> work.pending, done |-> work.done]
    BY <1>2, <1>3 DEF BulkFits, IsBulk
  <2>2. /\ work'.ids = work.ids /\ work'.failed = work.failed
        /\ work'.created = Created(work, frame.cid, frame.sid)
    BY <2>1
  <2>3. \A c \in DOMAIN work'.created :
          c \in DOMAIN work.created \/ (c = frame.cid /\ c \in DOMAIN work.ids)
    BY <2>2 DEF Created, Insert, InsertAll
  <2>4. Noted(phase', work') \subseteq Noted(phase, work) \cup {frame.cid}
    BY <1>1, <2>2, <2>3 DEF Noted
  <2>5. /\ OneAnswer(toClient', server', Noted(phase', work'))
        /\ frame.cid \notin work.failed \cup DOMAIN work.created
    BY <1>1, <1>3, <2>4, HeardOnce
  <2>6. /\ DOMAIN channels' = DOMAIN channels
        /\ \A c \in DOMAIN channels : channels[c].state = Active => channels'[c].state = Active
        /\ frame.cid \in DOMAIN channels => channels'[frame.cid].state = Active
    <3>1. /\ DOMAIN channels' = DOMAIN channels
          /\ \A c \in DOMAIN channels : c # frame.cid => channels'[c] = channels[c]
      BY <1>3 DEF activate_channel
    <3>2. ASSUME frame.cid \in DOMAIN channels
          PROVE  channels'[frame.cid].state = Active
      <4>1. channels[frame.cid] \in [pv : {name[frame.cid]}, state : States,
                                     sid : {0, ServerId(frame.cid)}]
        BY <3>2 DEF Fits, ChannelsFit
      <4>2. channels' = [channels EXCEPT ![frame.cid].state = Active,
                                         ![frame.cid].sid = frame.sid]
        BY <1>3, <3>2 DEF activate_channel
      <4> QED BY <3>2, <4>1, <4>2
    <3> QED BY <3>1, <3>2
  <2>7. BulkKnown'
    <3>1. DOMAIN work.created \subseteq DOMAIN channels
      BY <1>2 DEF BulkKnown, BulkFits
    <3>2. \A c \in DOMAIN work'.created : channels'[c].state = Active
      BY <1>2, <2>3, <2>6, <3>1 DEF BulkKnown
    <3> QED BY <1>1, <1>2, <2>2, <2>3, <2>5, <2>6, <3>2 DEF BulkKnown
  <2> QED BY <2>5, <2>7 DEF BulkInv
<1>4. CASE frame.cmd = "CREATE_CHANNEL" /\ ~frame.ok
           /\ channels' = close_channel(channels, frame.cid)
           /\ work' = [work EXCEPT !.got = @ + 1, !.failed = @ \cup {frame.cid}]
           /\ UNCHANGED server
  <2>1. work' = [kind |-> "bulk", ids |-> work.ids, got |-> work.got + 1,
                 expected |-> work.expected, created |-> work.created,
                 failed |-> work.failed \cup {frame.cid}, pending |-> work.pending,
                 done |-> work.done]
    BY <1>2, <1>4 DEF BulkFits, IsBulk
  <2>2. /\ work'.ids = work.ids /\ work'.failed = work.failed \cup {frame.cid}
        /\ work'.created = work.created
    BY <2>1
  <2>3. Noted(phase', work') \subseteq Noted(phase, work) \cup {frame.cid}
    BY <1>1, <2>2 DEF Noted
  <2>4. /\ OneAnswer(toClient', server', Noted(phase', work'))
        /\ frame.cid \notin work.failed \cup DOMAIN work.created
    BY <1>1, <1>4, <2>3, HeardOnce
  <2>5. /\ DOMAIN channels' = DOMAIN channels
        /\ \A c \in DOMAIN channels : c # frame.cid => channels'[c] = channels[c]
    BY <1>4 DEF close_channel
  <2>6. BulkKnown'
    BY <1>1, <1>2, <2>2, <2>4, <2>5 DEF BulkKnown, BulkFits
  <2> QED BY <2>4, <2>6 DEF BulkInv
<1>5. CASE Dispatch(frame) /\ UNCHANGED << channels, work >>
  BY <1>1, <1>5, BulkDispatch
<1> QED BY <1>3, <1>4, <1>5 DEF ReadCreated

LEMMA BulkReadInit ==
  ASSUME NEW name, Fits(name), BulkInv,
         NEW frame \in { toClient[i] : i \in {1} \cap DOMAIN toClient }, ReadInit(frame)
  PROVE  BulkInv'
<1>1. /\ phase \in {"initialising", "retrying"} /\ phase' = phase /\ Receive(frame)
      /\ UNCHANGED channels
  BY DEF ReadInit
<1>2. BulkFits(name, work) /\ BulkKnown
  BY <1>1 DEF Fits, WorkFits, BulkPhases, BulkInv
<1>3. CASE frame.cmd = "INIT"
           /\ monitors' = (IF frame.status = "ok" /\ frame.rid \in DOMAIN monitors
                             THEN [monitors EXCEPT ![frame.rid].typed = TRUE] ELSE monitors)
           /\ work' = [work EXCEPT !.got = @ + 1, !.done = @ \cup {frame.rid}]
           /\ UNCHANGED server
  <2>1. work' = [kind |-> "bulk", ids |-> work.ids, got |-> work.got + 1,
                 expected |-> work.expected, created |-> work.created,
                 failed |-> work.failed, pending |-> work.pending,
                 done |-> work.done \cup {frame.rid}]
    BY <1>2, <1>3 DEF BulkFits, IsBulk
  <2>2. /\ work'.ids = work.ids /\ work'.failed = work.failed
        /\ work'.created = work.created /\ work'.pending = work.pending
    BY <2>1
  <2>3. /\ DOMAIN monitors' = DOMAIN monitors
        /\ \A r \in DOMAIN monitors : /\ monitors'[r].pv = monitors[r].pv
                                      /\ monitors'[r].sid = monitors[r].sid
    BY <1>3 DEF Fits, MonitorsFit
  <2>4. BulkKnown'
    BY <1>1, <1>2, <2>2, <2>3 DEF BulkKnown, PendingKnown
  <2>5. toClient \in Seq(Frames(name)) /\ OneAnswer(toClient, server, Noted(phase, work))
    BY DEF Fits, BulkInv
  <2>6. toClient' = Tail(toClient) /\ Len(toClient) > 0
    BY <1>1, <2>5, FirstFrame DEF Receive
  <2>7. Noted(phase', work') = {}
    BY <1>1 DEF Noted
  <2>8. OneAnswer(toClient', server', Noted(phase', work'))
    BY <1>3, <2>5, <2>6, <2>7, OneAnswerLess
  <2> QED BY <2>4, <2>8 DEF BulkInv
<1>4. CASE Dispatch(frame) /\ UNCHANGED << monitors, work >>
  BY <1>1, <1>4, BulkDispatch
<1> QED BY <1>3, <1>4 DEF ReadInit

LEMMA BulkRetry ==
  ASSUME NEW name, Fits(name), BulkInv, phase = "initialising", Retry
  PROVE  BulkInv'
<1>1. BulkFits(name, work) /\ BulkKnown
  BY DEF Fits, WorkFits, BulkPhases, BulkInv
<1>2. work' = [kind |-> "bulk", ids |-> work.ids, got |-> 0,
               expected |-> Cardinality(Missing), created |-> work.created,
               failed |-> work.failed, pending |-> work.pending, done |-> work.done]
  BY <1>1 DEF BulkFits, IsBulk, Retry
<1>3. /\ work'.ids = work.ids /\ work'.failed = work.failed
      /\ work'.created = work.created /\ work'.pending = work.pending
  BY <1>2
<1>4. BulkKnown'
  BY <1>1, <1>3 DEF BulkKnown, PendingKnown, Retry
<1> DEFINE messages == { InitMessage(r, work.pending[r].sid) : r \in Missing }
<1>5. \A m \in messages : m.cmd # "CREATE_CHANNEL"
  BY DEF InitMessage
<1>6. Waiting(server') \subseteq Waiting(server)
  <2>1. server' = Written(server, messages)
    BY DEF Retry, Send
  <2> HIDE DEF messages
  <2> QED BY <1>5, <2>1, QuietWritten
<1>7. toClient \in Seq(Frames(name)) /\ OneAnswer(toClient, server, Noted(phase, work))
  BY DEF Fits, BulkInv
<1>8. Noted(phase', work') = {} /\ toClient' = toClient
  BY DEF Noted, Retry
<1>9. OneAnswer(toClient', server', Noted(phase', work'))
  BY <1>6, <1>7, <1>8, OneAnswerLess
<1> QED BY <1>4, <1>9 DEF BulkInv

LEMMA BulkStartInits ==
  ASSUME NEW name, Fits(name), BulkInv, phase = "creating", StartInits
  PROVE  BulkInv'
<1>1. BulkFits(name, work) /\ BulkKnown
  BY DEF Fits, WorkFits, BulkPhases, BulkInv
<1>2. PICK n, rids : /\ n = Cardinality(DOMAIN work.created)
                     /\ rids = next_id..(next_id + n - 1)
  OBVIOUS
<1>3. PICK cid \in Bijection(rids, DOMAIN work.created) :
        \E pending :
          /\ pending = [r \in rids |-> NewMonitor(work.ids[cid[r]], work.created[cid[r]])]
          /\ monitors' = InsertAll(monitors, pending)
          /\ Send({ InitMessage(r, pending[r].sid) : r \in rids })
          /\ work' = [work EXCEPT !.got = 0, !.expected = n, !.pending = pending]
  BY <1>2 DEF StartInits
<1>4. PICK pending :
        /\ pending = [r \in rids |-> NewMonitor(work.ids[cid[r]], work.created[cid[r]])]
        /\ monitors' = InsertAll(monitors, pending)
        /\ Send({ InitMessage(r, pending[r].sid) : r \in rids })
        /\ work' = [work EXCEPT !.got = 0, !.expected = n, !.pending = pending]
  BY <1>3
<1>5. work' = [kind |-> "bulk", ids |-> work.ids, got |-> 0, expected |-> n,
               created |-> work.created, failed |-> work.failed, pending |-> pending,
               done |-> work.done]
  BY <1>1, <1>4 DEF BulkFits, IsBulk
<1>6. /\ work'.ids = work.ids /\ work'.failed = work.failed
      /\ work'.created = work.created /\ work'.pending = pending
  BY <1>5
<1>7. /\ \A r \in rids : cid[r] \in DOMAIN work.created
      /\ \A r, q \in rids : cid[r] = cid[q] => r = q
  BY DEF Bijection, Injection, IsInjective
<1>8. \A r \in rids : /\ pending[r].pv = work.ids[cid[r]]
                      /\ pending[r].sid = work.created[cid[r]]
  BY <1>4 DEF NewMonitor
<1>9. DOMAIN pending = rids /\ DOMAIN work.created \subseteq DOMAIN work.ids
  BY <1>1, <1>4 DEF BulkFits
<1>10. \A r, q \in rids : pending[r].pv = pending[q].pv => r = q
  BY <1>1, <1>7, <1>8, <1>9 DEF BulkKnown
<1>11. \A r \in rids : r \in DOMAIN monitors' /\ monitors'[r] = pending[r]
  BY <1>4, <1>9 DEF InsertAll
<1>12. BulkKnown'
  <2>1. PendingKnown'
    BY <1>6, <1>7, <1>8, <1>9, <1>10, <1>11 DEF PendingKnown
  <2>2. UNCHANGED channels
    BY DEF StartInits
  <2> QED BY <1>1, <1>6, <2>1, <2>2 DEF BulkKnown
<1>13. PICK messages : messages = { InitMessage(r, pending[r].sid) : r \in rids }
  OBVIOUS
<1>14. \A m \in messages : m.cmd # "CREATE_CHANNEL"
  BY <1>13 DEF InitMessage
<1>15. Waiting(server') \subseteq Waiting(server)
  BY <1>4, <1>13, <1>14, QuietWritten DEF Send
<1>16. toClient \in Seq(Frames(name)) /\ OneAnswer(toClient, server, Noted(phase, work))
  BY DEF Fits, BulkInv
<1>17. Noted(phase', work') = {} /\ toClient' = toClient
  BY DEF Noted, StartInits
<1>18. OneAnswer(toClient', server', Noted(phase', work'))
  BY <1>15, <1>16, <1>17, OneAnswerLess
<1> QED BY <1>12, <1>18 DEF BulkInv

LEMMA InitBulk == Init => BulkInv
<1> SUFFICES ASSUME Init PROVE BulkInv
  OBVIOUS
<1>1. phase \notin BulkPhases /\ Noted(phase, work) = {} /\ Len(toClient) = 0
  BY DEF Init, BulkPhases, Noted
<1>2. \A m : m \notin server.held
  BY DEF Init, NewServer
<1>3. Waiting(server) = {}
  BY <1>2 DEF Waiting
<1> QED BY <1>1, <1>3 DEF BulkInv, OneAnswer

LEMMA NextBulk == NamesInv /\ BulkInv /\ [Next]_vars => BulkInv'
<1> SUFFICES ASSUME NamesInv, BulkInv, [Next]_vars PROVE BulkInv'
  OBVIOUS
<1>1. PICK name : Fits(name)
  BY DEF NamesInv
<1>2. CASE \/ ServerAnswers \/ Cut
           \/ \E rid \in DOMAIN server.monitors : ServerUpdates(rid)
           \/ \E c \in Greetings : Greet(c)
  BY <1>1, <1>2, BulkServer
<1>3. ASSUME NEW frame \in { toClient[i] : i \in {1} \cap DOMAIN toClient }, ReadFrame(frame)
      PROVE  BulkInv'
  <2>1. CASE \/ ReadHandshake(frame) \/ ReadSearch(frame) \/ LoopFrame(frame)
             \/ ReadCreate(frame) \/ ReadStart(frame)
    BY <1>1, <2>1, QuietReads, BulkOutside
  <2>2. CASE ReadUnexpected(frame)
    BY <1>1, <2>2, QuietDropped, BulkOutside DEF ReadUnexpected
  <2>3. CASE ReadCreated(frame)
    BY <1>1, <2>3, BulkReadCreated
  <2>4. CASE ReadInit(frame)
    BY <1>1, <2>4, BulkReadInit
  <2> QED BY <1>3, <2>1, <2>2, <2>3, <2>4 DEF ReadFrame
<1>4. /\ Lists \subseteq Seq(PVs) /\ AddLists \subseteq Seq(PVs)
      /\ \A names \in Lists \cup AddLists : IsInjective(names)
  BY SessionAssumption
<1>5. ASSUME NEW names \in Lists, Subscribe(names) PROVE BulkInv'
  BY <1>1, <1>4, <1>5, BulkStart DEF Subscribe
<1>6. ASSUME NEW names \in AddLists, AddBatch(names) PROVE BulkInv'
  BY <1>1, <1>4, <1>6, BulkStart DEF AddBatch, Command
<1>7. ASSUME NEW pv \in PVs, AddMonitor(pv) PROVE BulkInv'
  BY <1>1, <1>7, BulkAddMonitor
<1>8. CASE \/ EndSearch \/ EchoTick \/ CommandFails \/ FinishBulk
           \/ \E names \in SearchLists : StartSearch(names)
           \/ \E pv \in PVs : RemoveMonitor(pv)
  BY <1>1, <1>8, QuietSteps, BulkOutside
<1>9. CASE DropSearched \/ Shutdown \/ Disconnected
  BY <1>1, <1>9, QuietDropped, BulkOutside DEF DropSearched, Shutdown, Disconnected
<1>10. CASE BulkEnds
  <2>1. CASE EndCreating
    BY <1>1, <2>1, BulkStartInits DEF EndCreating
  <2>2. CASE EndInits
    BY <1>1, <1>8, <2>2, BulkRetry DEF EndInits
  <2>3. CASE EndRetry
    BY <1>8, <2>3 DEF EndRetry
  <2> QED BY <1>10, <2>1, <2>2, <2>3 DEF BulkEnds
<1>11. CASE UNCHANGED vars
  BY <1>11 DEF vars, clientVars, BulkInv, BulkKnown, PendingKnown
<1>12. CASE Ended
  BY <1>11, <1>12 DEF Ended
<1>13. CASE ServerReads
  BY <1>13 DEF ServerReads, clientVars, BulkInv, BulkKnown, PendingKnown
<1> QED BY <1>2, <1>3, <1>5, <1>6, <1>7, <1>8, <1>9, <1>10, <1>11, <1>12, <1>13, Zenon
        DEF Next, Greetings, ReadFrame, ReadHandshake

----------------------------------------------------------------------------
(* What a bulk subscription reports.                                       *)

\* The START of a monitor the server has.
LEMMA StartStarts ==
  ASSUME NEW name, ServerFits(name, server), open, NEW started,
         server' = Written(server, { [cmd |-> "START", rid |-> r] : r \in started }),
         NEW r \in started, r \in DOMAIN server'.monitors
  PROVE  server'.monitors[r].started
<1> DEFINE messages == { [cmd |-> "START", rid |-> q] : q \in started }
<1>1. \E m \in messages : m.cmd = "START" /\ m.rid = r
  <2>1. [cmd |-> "START", rid |-> r] \in messages
    OBVIOUS
  <2> QED BY <2>1
<1> HIDE DEF messages
<1>2. server' = Receives(server, messages)
  BY DEF Written, messages
<1>3. /\ r \in DOMAIN server.monitors
      /\ server'.monitors[r] = [server.monitors[r] EXCEPT !.started =
           @ \/ \E m \in messages : m.cmd = "START" /\ m.rid = r]
  BY <1>2 DEF Receives
<1>4. server.monitors[r] \in [pv : {name[r]}, sid : Int, started : BOOLEAN]
  BY <1>3 DEF ServerFits
<1> QED BY <1>1, <1>3, <1>4

LEMMA FinishReported ==
  ASSUME NEW name, Fits(name), BulkInv, phase \in {"initialising", "retrying"}, FinishBulk
  PROVE  Reported
<1> DEFINE Mine(pv) == Named(monitors', pv) \cap DOMAIN work.pending
           Result(pv) == { x[2] : x \in { y \in Results(work) : y[1] = pv } }
           Okay(pv) == \E r \in Mine(pv) :
                         /\ Mine(pv) = {r}
                         /\ \E c \in DOMAIN work.ids :
                              /\ channels'[c].state = Active
                              /\ channels'[c].sid = monitors'[r].sid
                         /\ open /\ r \in DOMAIN server'.monitors
                              => server'.monitors[r].started
<1> SUFFICES ASSUME NEW pv
             PROVE  \/ Result(pv) \subseteq {"error"} /\ Mine(pv) = {}
                    \/ Result(pv) = {"ok"} /\ Okay(pv)
  BY DEF Reported
<1>1. BulkFits(name, work) /\ BulkKnown /\ PendingKnown
  BY DEF Fits, WorkFits, BulkPhases, BulkInv, BulkKnown
<1>2. /\ DOMAIN monitors' = DOMAIN monitors \ (DOMAIN work.pending \ work.done)
      /\ \A r \in DOMAIN monitors' : monitors'[r] = monitors[r]
      /\ UNCHANGED << channels, open >>
  BY DEF FinishBulk, Restrict, Kept
<1>3. \A r \in Mine(pv) : r \in work.done /\ work.pending[r].pv = pv
  BY <1>1, <1>2 DEF Named, PendingKnown
<1>4. \A v \in Result(pv) :
        \/ v = "error" /\ \E c \in work.failed \cap DOMAIN work.ids : work.ids[c] = pv
        \/ \E r \in DOMAIN work.pending :
             /\ work.pending[r].pv = pv
             /\ v = IF r \in work.done THEN "ok" ELSE "error"
  BY DEF Results
<1>5. CASE \A r \in DOMAIN work.pending : work.pending[r].pv = pv => r \notin work.done
  BY <1>3, <1>4, <1>5
<1>6. ASSUME NEW r \in DOMAIN work.pending, work.pending[r].pv = pv, r \in work.done
      PROVE  Result(pv) = {"ok"} /\ Okay(pv)
  <2>1. /\ r \in DOMAIN monitors' /\ monitors'[r] = monitors[r]
        /\ monitors[r].pv = pv /\ monitors[r].sid = work.pending[r].sid
    BY <1>1, <1>2, <1>6 DEF PendingKnown
  <2>2. Mine(pv) = {r}
    BY <1>1, <1>3, <1>6, <2>1 DEF Named, PendingKnown
  <2>3. PICK c \in DOMAIN work.created : work.pending[r].pv = work.ids[c]
                                         /\ work.pending[r].sid = work.created[c]
    BY <1>1 DEF PendingKnown
  <2>4. c \in DOMAIN work.ids /\ work.created[c] = ServerId(c)
    BY <1>1 DEF BulkFits
  <2>5. channels'[c].state = Active /\ channels'[c].sid = ServerId(c)
    BY <1>1, <1>2, <2>4 DEF BulkKnown, Fits, ChannelsFit
  <2>6. open /\ r \in DOMAIN server'.monitors => server'.monitors[r].started
    <3>1. server' = Written(server,
                      { [cmd |-> "START", rid |-> q] : q \in DOMAIN work.pending \cap work.done })
      BY DEF FinishBulk, Send
    <3> QED BY <1>6, <3>1, StartStarts DEF Fits
  <2>7. Okay(pv)
    BY <2>1, <2>2, <2>3, <2>4, <2>5, <2>6
  <2>8. ~ \E d \in work.failed \cap DOMAIN work.ids : work.ids[d] = pv
    BY <1>1, <1>6, <2>3, <2>4 DEF BulkKnown
  <2>9. \A v \in Result(pv) : v = "ok"
    BY <1>1, <1>4, <1>6, <2>8 DEF PendingKnown
  <2>10. "ok" \in Result(pv)
    <3>1. << work.pending[r].pv, IF r \in work.done THEN "ok" ELSE "error" >> \in Results(work)
      BY DEF Results
    <3>2. << pv, "ok" >> \in Results(work)
      BY <1>6, <3>1
    <3> QED BY <3>2
  <2> HIDE DEF Result, Okay
  <2> QED BY <2>7, <2>9, <2>10
<1> HIDE DEF Result, Okay, Mine
<1> QED BY <1>5, <1>6

\* Only FinishBulk takes a bulk subscription to the loop.
LEMMA OnlyFinish ==
  ASSUME Next, phase \in BulkPhases, phase' = "loop"
  PROVE  phase \in {"initialising", "retrying"} /\ FinishBulk
<1> USE DEF BulkPhases
<1>1. CASE \/ ServerAnswers \/ ServerReads \/ Cut
           \/ \E rid \in DOMAIN server.monitors : ServerUpdates(rid)
           \/ \E c \in Greetings : Greet(c)
  BY <1>1 DEF ServerAnswers, ServerReads, Cut, ServerUpdates, Greet
<1>2. ASSUME NEW frame, ReadFrame(frame) PROVE FALSE
  BY <1>2 DEF ReadFrame, ReadHandshake, ReadByteOrder, ReadUnexpected, ReadValidation,
              ReadValidated, ReadSearch, ReadCreated, ReadInit, LoopFrame, ReadCreate,
              ReadStart
<1>3. CASE \/ \E names \in SearchLists : StartSearch(names)
           \/ \E names \in Lists : Subscribe(names)
           \/ \E names \in AddLists : AddBatch(names)
           \/ \E pv \in PVs : AddMonitor(pv) \/ RemoveMonitor(pv)
  BY <1>3 DEF StartSearch, Subscribe, AddBatch, AddMonitor, RemoveMonitor, Command
<1>4. CASE \/ EndSearch \/ DropSearched \/ EchoTick \/ Shutdown \/ Disconnected
           \/ CommandFails \/ Ended
  BY <1>4 DEF EndSearch, DropSearched, EchoTick, Shutdown, Disconnected, CommandFails, Ended
<1>5. CASE BulkEnds
  <2>1. ~ EndCreating /\ ~ Retry
    BY DEF EndCreating, StartInits, Retry
  <2> QED BY <1>5, <2>1 DEF BulkEnds, EndInits, EndRetry
<1> QED BY <1>1, <1>2, <1>3, <1>4, <1>5, Zenon DEF Next, Greetings, ReadFrame, ReadHandshake

LEMMA NextReported ==
  NamesInv /\ BulkInv /\ [Next]_vars => [phase' = "loop" /\ phase \in BulkPhases => Reported]_vars
<1> SUFFICES ASSUME NamesInv, BulkInv, [Next]_vars, phase' = "loop", phase \in BulkPhases
             PROVE  Reported
  OBVIOUS
<1>1. Next
  BY DEF vars, BulkPhases
<1>2. PICK name : Fits(name)
  BY DEF NamesInv
<1> QED BY <1>1, <1>2, OnlyFinish, FinishReported

\* What add_monitors_bulk reports is true when it returns, for every list of
\* distinct names, in whatever order the server answers the requests of the two
\* rounds, and when it refuses or never answers some of them: no name has two
\* results, a name reported subscribed has one monitor of this call, on an
\* active channel of this call, which the server has started if it has it, and
\* any other name has left no monitor.
THEOREM SessionBulkReport == Spec => BulkReport
BY InitNames, NextNames, InitBulk, NextBulk, NextReported, PTL DEF Spec, BulkReport

----------------------------------------------------------------------------
(* FramesAreWhole, for any messages and bounds and any cut into reads.  A   *)
(* header is read as it was written, so that between two steps of the      *)
(* client it stands at the end of some message, with the frames and the    *)
(* open segments of the messages before it.                                *)

Headers == [version : 0..255, flags : 0..255, command : 0..255, payload_size : I32]

\* Frames as they are read, and those put together from segments too.
PlainFrames == [header : { u.header : u \in Units }, payload : Seq(0..255)]

AllFrames == PlainFrames \cup { Assembled(f, p) : f \in PlainFrames, p \in Seq(0..255) }

Deliveries ==
  [frames : Seq(AllFrames), open : Seq(PlainFrames), failed : BOOLEAN, at : Nat]

Prefix(s, t) == Len(s) <= Len(t) /\ \A i \in 1..Len(s) : s[i] = t[i]

\* What was delivered stays; nothing is delivered after an error.
Before(d, e) ==
  /\ d.at <= e.at /\ Prefix(d.frames, e.frames)
  /\ d.failed => e.failed /\ e.frames = d.frames

\* Messages that decode_frame returns at once, or waits for the payload of; the
\* others are refused.
IsControl(u) == u.magic = PVA_MAGIC /\ is_control(u.header)

Taken(u) ==
  u.magic = PVA_MAGIC /\ ~is_control(u.header) /\ u.header.payload_size \in 0..MaxPayload

\* A segment after those collected.
Data(o, p) == o[1].payload \o p

FitsWith(o, p) == o # << >> /\ Len(Data(o, p)) <= SegmentFactor * MaxPayload

\* The bytes on the wire are those of the messages, each where the one before it ends.
StreamInv ==
  /\ stream \in Seq(Units) /\ wire \in Seq(Int) /\ meant \in Seq(Deliveries)
  /\ Len(meant) = Len(stream) + 1
  /\ Len(wire) = meant[Len(meant)].at
  /\ \A k \in 1..Len(stream) :
       /\ meant[k + 1] = Deliver(meant[k], stream[k])
       /\ meant[k].at + Len(Bytes(stream[k])) <= Len(wire)
       /\ \A i \in 1..Len(Bytes(stream[k])) : wire[meant[k].at + i] = Bytes(stream[k])[i]
  /\ \A k \in 1..Len(meant) : Before(meant[k], meant[Len(meant)])

\* The first k - 1 messages have been decoded, the header of the next one perhaps.
ReaderAt(k) ==
  /\ k \in 1..Len(meant)
  /\ frames = meant[k].frames /\ failed = meant[k].failed
  /\ ~failed => consumed = meant[k].at /\ codec.segment_buf = meant[k].open
  /\ ~failed /\ codec.state # << >> =>
       k <= Len(stream) /\ codec.state = << stream[k].header >> /\ Taken(stream[k])

ReaderInv ==
  /\ arrived \in Nat /\ arrived <= Len(wire)
  /\ codec = [state |-> codec.state, segment_buf |-> codec.segment_buf]
  /\ \E k : ReaderAt(k)

FramingInv == StreamInv /\ ReaderInv

\* Base 256, three digits at a time.
LEMMA Horner ==
  ASSUME NEW x \in Int, NEW y \in Int, NEW z \in Int, NEW t \in Int,
         NEW p \in Int, NEW q \in Int, NEW v \in Int,
         v = x + 256 * p, p = y + 256 * q, q = z + 256 * t
  PROVE  x + 256 * y + (256 * 256) * z + (256 * 256 * 256) * t = v
BY SMT

\* ByteOrder: four bytes hold an i32.
LEMMA NumberOfBytes ==
  ASSUME NEW v \in I32
  PROVE  Number(LittleEndian(v, 4), TRUE) = v
<1> DEFINE b == LittleEndian(v, 4)
           q1 == v \div 256
           q2 == v \div (256 * 256)
           q3 == v \div (256 * 256 * 256)
           top == IF b[4] >= 128 THEN b[4] - 256 ELSE b[4]
<1>0. v \in Int /\ -(128 * (256 * 256 * 256)) <= v /\ v < 128 * (256 * 256 * 256)
  BY SMT DEF I32, Weights
<1>1. /\ Len(b) = 4
      /\ b[1] = (v \div 1) % 256 /\ b[2] = q1 % 256 /\ b[3] = q2 % 256 /\ b[4] = q3 % 256
  BY DEF LittleEndian, Weights
<1>2. Number(b, TRUE) = b[1] + 256 * b[2] + (256 * 256) * b[3] + (256 * 256 * 256) * top
  BY <1>1 DEF Number, Weights
<1>3. v \div 1 = v /\ v = (v % 256) + 256 * q1
  BY <1>0, SMT
<1>4. q2 = q1 \div 256 /\ q3 = q2 \div 256
  BY <1>0, SMT
<1>5. q1 \in Int /\ q1 = (q1 % 256) + 256 * q2 /\ q2 \in Int /\ q2 = (q2 % 256) + 256 * q3
  BY <1>0, <1>4, SMT
<1>6. q3 \in -128..127
  BY <1>0, SMT
<1>7. q3 = IF q3 % 256 >= 128 THEN (q3 % 256) - 256 ELSE q3 % 256
  BY <1>6, SMT
<1>8. top = q3
  BY <1>1, <1>7
<1>9. /\ b[1] \in Int /\ b[2] \in Int /\ b[3] \in Int /\ top \in Int
      /\ v = b[1] + 256 * q1 /\ q1 = b[2] + 256 * q2 /\ q2 = b[3] + 256 * top
      /\ q1 \in Int /\ q2 \in Int
  <2>1. b[1] = v % 256 /\ v % 256 \in Int /\ q1 % 256 \in Int /\ q2 % 256 \in Int
    BY <1>0, <1>1, <1>3, <1>5, SMT
  <2>2. b[2] = q1 % 256 /\ b[3] = q2 % 256 /\ top = q3 /\ q3 \in Int
    BY <1>1, <1>6, <1>8
  <2> HIDE DEF b, q1, q2, q3, top
  <2> QED  BY <1>3, <1>5, <2>1, <2>2
<1> HIDE DEF b, q1, q2, q3, top
<1>10. b[1] + 256 * b[2] + (256 * 256) * b[3] + (256 * 256 * 256) * top = v
  BY <1>0, <1>9, Horner
<1>11. Number(b, TRUE) = v
  BY <1>2, <1>10
<1> QED  BY <1>11 DEF b

LEMMA SeqSame ==
  ASSUME NEW S, NEW s \in Seq(S), NEW t \in Seq(S), Len(s) = Len(t),
         \A i \in 1..Len(s) : s[i] = t[i]
  PROVE  s = t
OBVIOUS

LEMMA SeqWider ==
  ASSUME NEW S, NEW T, S \subseteq T, NEW s \in Seq(S)
  PROVE  s \in Seq(T)
OBVIOUS

\* Four bytes are put in an order and back.
LEMMA Reordered ==
  ASSUME NEW b \in Seq(Int), Len(b) = 4, NEW order
  PROVE  /\ InOrder(b, order) \in Seq(Int) /\ Len(InOrder(b, order)) = 4
         /\ InOrder(InOrder(b, order), order) = b
<1>1. CASE order = "BE"
  <2> DEFINE c == InOrder(b, order)
  <2>1. c = [i \in 1..4 |-> b[5 - i]]
    BY <1>1 DEF InOrder
  <2>2. \A i \in 1..4 : b[5 - i] \in Int
    OBVIOUS
  <2>3. c \in Seq(Int) /\ Len(c) = 4 /\ \A i \in 1..4 : c[i] = b[5 - i]
    BY <2>1, <2>2
  <2> HIDE DEF c
  <2>4. InOrder(c, order) = [i \in 1..4 |-> c[5 - i]]
    BY <1>1, <2>3 DEF InOrder
  <2>5. \A i \in 1..4 : c[5 - i] = b[i]
    BY <2>3
  <2>6. InOrder(c, order) = [i \in 1..4 |-> b[i]]
    BY <2>4, <2>5
  <2>7. b = [i \in 1..4 |-> b[i]]
    OBVIOUS
  <2> QED  BY <2>3, <2>6, <2>7 DEF c
<1>2. CASE order # "BE"
  BY <1>2 DEF InOrder
<1> QED  BY <1>1, <1>2

LEMMA UnitIs ==
  ASSUME NEW u \in Units
  PROVE  /\ u.header \in Headers /\ u.payload \in Seq(0..255) /\ u.magic \in Int
         /\ u.payload \in Seq(Int) /\ Len(u.payload) \in Nat
         /\ u.header.version \in Int /\ u.header.flags \in Int /\ u.header.command \in Int
         /\ u.header.payload_size \in I32 /\ u.header.payload_size \in Int
<1>1. u.header \in Headers /\ u.payload \in Seq(0..255) /\ u.magic \in 0..255
  BY FramingAssumption DEF Headers
<1>2. u.header.payload_size \in I32
  BY <1>1 DEF Headers
<1>3. u.header.payload_size \in Int
  BY <1>2 DEF I32
<1>4. u.payload \in Seq(Int)
  BY <1>1, SeqWider, 0..255 \subseteq Int
<1>5. Len(u.payload) \in Nat
  BY <1>1
<1>6. u.header.version \in Int /\ u.header.flags \in Int /\ u.header.command \in Int
  <2>1. /\ u.header.version \in 0..255 /\ u.header.flags \in 0..255
        /\ u.header.command \in 0..255
    BY <1>1 DEF Headers
  <2> QED  BY <2>1
<1>7. u.magic \in Int
  <2>1. u.magic \in 0..255
    BY <1>1
  <2> QED  BY <2>1
<1> QED  BY <1>1, <1>2, <1>3, <1>4, <1>5, <1>6, <1>7

\* The payload size is read as it was written, in the order the flags say.
LEMMA SizeBytes ==
  ASSUME NEW v \in I32, NEW order
  PROVE  LET b == write_int(v, 4, order) IN
         /\ b \in Seq(Int) /\ Len(b) = 4
         /\ Number(InOrder(b, order), TRUE) = v
<1> DEFINE l == LittleEndian(v, 4)
<1>1. v \in Int
  BY DEF I32
<1>2. \A i \in 1..4 : (v \div Weights[i]) % 256 \in Int
  BY <1>1, SMT DEF Weights
<1>3. l \in Seq(Int) /\ Len(l) = 4
  BY <1>2 DEF LittleEndian
<1> HIDE DEF l
<1> QED  BY <1>3, Reordered, NumberOfBytes DEF write_int, l

LEMMA Joined ==
  ASSUME NEW s \in Seq(Int), NEW t \in Seq(Int)
  PROVE  /\ s \o t \in Seq(Int) /\ Len(s \o t) = Len(s) + Len(t)
         /\ \A i \in 1..Len(s) : (s \o t)[i] = s[i]
         /\ \A i \in 1..Len(t) : (s \o t)[Len(s) + i] = t[i]
OBVIOUS

LEMMA Tailed ==
  ASSUME NEW s \in Seq(Int), Len(s) > 0
  PROVE  /\ Tail(s) \in Seq(Int) /\ Len(Tail(s)) = Len(s) - 1
         /\ \A i \in 1..(Len(s) - 1) : Tail(s)[i] = s[i + 1]
OBVIOUS

LEMMA Part ==
  ASSUME NEW s \in Seq(Int), NEW from \in Nat, NEW n \in Nat, from + n <= Len(s)
  PROVE  /\ SubSeq(s, from + 1, from + n) \in Seq(Int)
         /\ Len(SubSeq(s, from + 1, from + n)) = n
         /\ \A i \in 1..n : SubSeq(s, from + 1, from + n)[i] = s[from + i]
OBVIOUS

LEMMA FrontBytes ==
  ASSUME NEW g \in Int, NEW m \in Int, NEW v \in Int, NEW f \in Int, NEW c \in Int,
         NEW b \in Seq(Int), Len(b) = 4
  PROVE  LET front == << m >> \o Tail(<< g, v, f, c >> \o b) IN
         /\ front \in Seq(Int) /\ Len(front) = 8
         /\ front[1] = m /\ front[2] = v /\ front[3] = f /\ front[4] = c
         /\ \A i \in 1..4 : front[4 + i] = b[i]
<1> DEFINE four == << g, v, f, c >>
           head == four \o b
           rest == Tail(head)
           one == << m >>
           front == one \o rest
<1>1. four \in Seq(Int) /\ Len(four) = 4 /\ four[2] = v /\ four[3] = f /\ four[4] = c
  OBVIOUS
<1> HIDE DEF four
<1>2. /\ head \in Seq(Int) /\ Len(head) = 8
      /\ \A i \in 1..4 : head[i] = four[i]
      /\ \A i \in 1..4 : head[4 + i] = b[i]
  <2>1. /\ head \in Seq(Int) /\ Len(head) = Len(four) + Len(b)
        /\ \A i \in 1..Len(four) : head[i] = four[i]
        /\ \A i \in 1..Len(b) : head[Len(four) + i] = b[i]
    BY <1>1, Joined
  <2> HIDE DEF head
  <2> QED  BY <1>1, <2>1
<1> HIDE DEF head
<1>3. rest \in Seq(Int) /\ Len(rest) = 7 /\ \A i \in 1..7 : rest[i] = head[i + 1]
  <2>1. /\ rest \in Seq(Int) /\ Len(rest) = Len(head) - 1
        /\ \A i \in 1..(Len(head) - 1) : rest[i] = head[i + 1]
    <3>1. Len(head) > 0
      BY <1>2
    <3> QED  BY <1>2, <3>1, Tailed
  <2> HIDE DEF rest
  <2> QED  BY <1>2, <2>1
<1> HIDE DEF rest
<1>4. one \in Seq(Int) /\ Len(one) = 1 /\ one[1] = m
  OBVIOUS
<1> HIDE DEF one
<1>5. /\ front \in Seq(Int) /\ Len(front) = 8 /\ front[1] = m
      /\ \A i \in 1..7 : front[1 + i] = rest[i]
  <2>1. /\ front \in Seq(Int) /\ Len(front) = Len(one) + Len(rest)
        /\ \A i \in 1..Len(one) : front[i] = one[i]
        /\ \A i \in 1..Len(rest) : front[Len(one) + i] = rest[i]
    BY <1>3, <1>4, Joined
  <2> HIDE DEF front
  <2> QED  BY <1>3, <1>4, <2>1
<1> HIDE DEF front
<1>6. front[2] = rest[1] /\ front[3] = rest[2] /\ front[4] = rest[3]
  BY <1>5
<1>7. \A i \in 1..4 : front[4 + i] = head[4 + i]
  BY <1>3, <1>5
<1>8. rest[1] = four[2] /\ rest[2] = four[3] /\ rest[3] = four[4]
  BY <1>2, <1>3
<1> QED  BY <1>1, <1>2, <1>5, <1>6, <1>7, <1>8 DEF front, rest, head, four, one

\* Where the fields of a message are in its bytes.
LEMMA BytesAre ==
  ASSUME NEW u \in Units
  PROVE  /\ Bytes(u) \in Seq(Int) /\ Len(Bytes(u)) = 8 + Len(u.payload)
         /\ Bytes(u)[1] = u.magic
         /\ Bytes(u)[2] = u.header.version /\ Bytes(u)[3] = u.header.flags
         /\ Bytes(u)[4] = u.header.command
         /\ LET b == write_int(u.header.payload_size, 4, byte_order(u.header.flags)) IN
            \A i \in 1..4 : Bytes(u)[4 + i] = b[i]
         /\ \A i \in 1..Len(u.payload) : Bytes(u)[8 + i] = u.payload[i]
<1> DEFINE h == u.header
           b == write_int(h.payload_size, 4, byte_order(h.flags))
           front == << u.magic >> \o Tail(<< PVA_MAGIC, h.version, h.flags, h.command >> \o b)
<1>1. b \in Seq(Int) /\ Len(b) = 4
  BY UnitIs, SizeBytes
<1>2. Bytes(u) = front \o u.payload
  BY DEF Bytes, EncodeHeader
<1>3. PVA_MAGIC \in Int
  BY DEF PVA_MAGIC
<1> HIDE DEF b
<1>4. /\ front \in Seq(Int) /\ Len(front) = 8
      /\ front[1] = u.magic /\ front[2] = h.version /\ front[3] = h.flags
      /\ front[4] = h.command
      /\ \A i \in 1..4 : front[4 + i] = b[i]
  BY <1>1, <1>3, UnitIs, FrontBytes
<1> HIDE DEF front, h
<1>5. u.payload \in Seq(Int)
  BY UnitIs
<1>6. /\ Bytes(u) \in Seq(Int) /\ Len(Bytes(u)) = 8 + Len(u.payload)
      /\ \A i \in 1..8 : Bytes(u)[i] = front[i]
      /\ \A i \in 1..Len(u.payload) : Bytes(u)[8 + i] = u.payload[i]
  <2> DEFINE p == u.payload
             all == front \o p
  <2>1. front \in Seq(Int) /\ p \in Seq(Int)
    BY <1>4, <1>5
  <2> HIDE DEF p
  <2>2. /\ all \in Seq(Int) /\ Len(all) = Len(front) + Len(p)
        /\ \A i \in 1..Len(front) : all[i] = front[i]
        /\ \A i \in 1..Len(p) : all[Len(front) + i] = p[i]
    BY <2>1, Joined
  <2>3. Bytes(u) = all
    BY <1>2 DEF p
  <2> HIDE DEF all
  <2> QED  BY <1>4, <2>2, <2>3 DEF p
<1>7. Bytes(u)[1] = front[1] /\ Bytes(u)[2] = front[2] /\ Bytes(u)[3] = front[3]
      /\ Bytes(u)[4] = front[4]
  BY <1>6
<1>8. \A i \in 1..4 : Bytes(u)[4 + i] = b[i]
  <2> SUFFICES ASSUME NEW i \in 1..4  PROVE Bytes(u)[4 + i] = b[i]
    OBVIOUS
  <2>1. 4 + i \in 1..8
    OBVIOUS
  <2> QED  BY <1>4, <1>6, <2>1
<1> QED  BY <1>4, <1>6, <1>7, <1>8 DEF b, h

\* PvaHeader::decode after PvaHeader::encode.
LEMMA HeaderRead ==
  ASSUME NEW u \in Units, NEW buf \in Seq(Int), Len(buf) = 8,
         \A i \in 1..8 : buf[i] = Bytes(u)[i]
  PROVE  DecodeHeader(buf) = u.header /\ buf[1] = u.magic
<1> DEFINE h == u.header
           b == write_int(h.payload_size, 4, byte_order(h.flags))
<1>1. h \in Headers /\ h.payload_size \in I32
  BY UnitIs
<1>2. /\ buf[1] = u.magic /\ buf[2] = h.version /\ buf[3] = h.flags /\ buf[4] = h.command
      /\ \A i \in 1..4 : Bytes(u)[4 + i] = b[i]
  <2>1. /\ buf[1] = Bytes(u)[1] /\ buf[2] = Bytes(u)[2] /\ buf[3] = Bytes(u)[3]
        /\ buf[4] = Bytes(u)[4]
    OBVIOUS
  <2> QED  BY <2>1, BytesAre
<1>3. /\ b \in Seq(Int) /\ Len(b) = 4
      /\ Number(InOrder(b, byte_order(h.flags)), TRUE) = h.payload_size
  BY <1>1, SizeBytes
<1> HIDE DEF b
<1>4. SubSeq(buf, 5, 8) = b
  <2> DEFINE c == SubSeq(buf, 4 + 1, 4 + 4)
  <2>1. c \in Seq(Int) /\ Len(c) = 4 /\ \A i \in 1..4 : c[i] = buf[4 + i]
    BY 4 \in Nat, 4 + 4 <= Len(buf), Part
  <2>2. \A i \in 1..4 : c[i] = b[i]
    BY <1>2, <2>1
  <2> HIDE DEF c
  <2>3. c = b
    BY <1>3, <2>1, <2>2, SeqSame
  <2> QED  BY <2>3 DEF c
<1>5. DecodeHeader(buf) = [version |-> h.version, flags |-> h.flags, command |-> h.command,
                           payload_size |-> h.payload_size]
  BY <1>2, <1>3, <1>4 DEF DecodeHeader
<1> QED  BY <1>1, <1>2, <1>5 DEF Headers

\* What Deliver is, case by case.
LEMMA DeliverIs ==
  ASSUME NEW d \in Deliveries, NEW u \in Units
  PROVE  LET D == Deliver(d, u)
             end == d.at + Len(Bytes(u))
             seg == segmentation(u.header) IN
         /\ d.failed => D = Delivery(d.frames, d.open, TRUE, end)
         /\ ~d.failed /\ ~IsControl(u) /\ ~Taken(u) => D = Delivery(d.frames, d.open, TRUE, end)
         /\ ~d.failed /\ IsControl(u) =>
              D = Delivery(Append(d.frames, Frame(u.header, << >>)), d.open, FALSE, end)
         /\ ~d.failed /\ Taken(u) /\ seg = "None" =>
              D = Delivery(Append(d.frames, Frame(u.header, u.payload)), d.open, FALSE, end)
         /\ ~d.failed /\ Taken(u) /\ seg = "First" =>
              D = Delivery(d.frames, << Frame(u.header, u.payload) >>, FALSE, end)
         /\ ~d.failed /\ Taken(u) /\ seg = "Middle" /\ FitsWith(d.open, u.payload) =>
              D = Delivery(d.frames, << Frame(d.open[1].header, Data(d.open, u.payload)) >>,
                           FALSE, end)
         /\ ~d.failed /\ Taken(u) /\ seg = "Last" /\ FitsWith(d.open, u.payload) =>
              D = Delivery(Append(d.frames, Assembled(d.open[1], Data(d.open, u.payload))),
                           << >>, FALSE, end)
         /\ ~d.failed /\ Taken(u) /\ seg \notin {"None", "First"}
              /\ ~(seg \in {"Middle", "Last"} /\ FitsWith(d.open, u.payload)) =>
              D = Delivery(d.frames, d.open, TRUE, end)
<1> DEFINE D == Deliver(d, u)
           end == d.at + Len(Bytes(u))
           seg == segmentation(u.header)
<1>1. d.failed => D = Delivery(d.frames, d.open, TRUE, end)
  BY DEF Deliver
<1>2. ~d.failed /\ ~IsControl(u) /\ ~Taken(u) => D = Delivery(d.frames, d.open, TRUE, end)
  BY DEF Deliver, IsControl, Taken
<1>3. ~d.failed /\ IsControl(u) =>
         D = Delivery(Append(d.frames, Frame(u.header, << >>)), d.open, FALSE, end)
  BY DEF Deliver, IsControl
<1>4. ~d.failed /\ Taken(u) /\ seg = "None" =>
         D = Delivery(Append(d.frames, Frame(u.header, u.payload)), d.open, FALSE, end)
  BY DEF Deliver, Taken
<1>5. ~d.failed /\ Taken(u) /\ seg = "First" =>
         D = Delivery(d.frames, << Frame(u.header, u.payload) >>, FALSE, end)
  BY DEF Deliver, Taken
<1>6. ~d.failed /\ Taken(u) /\ seg = "Middle" /\ FitsWith(d.open, u.payload) =>
         D = Delivery(d.frames, << Frame(d.open[1].header, Data(d.open, u.payload)) >>,
                      FALSE, end)
  BY DEF Deliver, Taken, FitsWith, Data
<1>7. ~d.failed /\ Taken(u) /\ seg = "Last" /\ FitsWith(d.open, u.payload) =>
         D = Delivery(Append(d.frames, Assembled(d.open[1], Data(d.open, u.payload))),
                      << >>, FALSE, end)
  BY DEF Deliver, Taken, FitsWith, Data
<1>8. ~d.failed /\ Taken(u) /\ seg \notin {"None", "First"}
         /\ ~(seg \in {"Middle", "Last"} /\ FitsWith(d.open, u.payload)) =>
         D = Delivery(d.frames, d.open, TRUE, end)
  BY DEF Deliver, Taken, FitsWith, Data
<1> QED  BY <1>1, <1>2, <1>3, <1>4, <1>5, <1>6, <1>7, <1>8

LEMMA DeliveryIs ==
  ASSUME NEW fs \in Seq(AllFrames), NEW o \in Seq(PlainFrames), NEW f \in BOOLEAN,
         NEW a \in Nat
  PROVE  /\ Delivery(fs, o, f, a) \in Deliveries
         /\ Delivery(fs, o, f, a).frames = fs /\ Delivery(fs, o, f, a).open = o
         /\ Delivery(fs, o, f, a).failed = f /\ Delivery(fs, o, f, a).at = a
BY DEF Delivery, Deliveries

\* The frames that a message may become.
LEMMA FramesMade ==
  ASSUME NEW u \in Units, NEW o \in Seq(PlainFrames)
  PROVE  /\ Frame(u.header, u.payload) \in PlainFrames
         /\ Frame(u.header, << >>) \in PlainFrames
         /\ PlainFrames \subseteq AllFrames
         /\ o # << >> => /\ Frame(o[1].header, Data(o, u.payload)) \in PlainFrames
                         /\ Assembled(o[1], Data(o, u.payload)) \in AllFrames
<1> DEFINE headers == { v.header : v \in Units }
<1>1. u.header \in headers /\ u.payload \in Seq(0..255) /\ << >> \in Seq(0..255)
  BY UnitIs
<1>2. /\ Frame(u.header, u.payload) \in PlainFrames
      /\ Frame(u.header, << >>) \in PlainFrames
  BY <1>1 DEF Frame, PlainFrames
<1>3. PlainFrames \subseteq AllFrames
  BY DEF AllFrames
<1>4. ASSUME o # << >>
      PROVE  /\ Frame(o[1].header, Data(o, u.payload)) \in PlainFrames
             /\ Assembled(o[1], Data(o, u.payload)) \in AllFrames
  <2>1. o[1] \in PlainFrames
    BY <1>4
  <2>2. o[1].header \in headers /\ o[1].payload \in Seq(0..255)
    BY <2>1 DEF PlainFrames
  <2>3. Data(o, u.payload) \in Seq(0..255)
    BY <1>1, <2>2 DEF Data
  <2> HIDE DEF headers
  <2>4. Frame(o[1].header, Data(o, u.payload)) \in PlainFrames
    BY <2>2, <2>3 DEF Frame, PlainFrames, headers
  <2>5. Assembled(o[1], Data(o, u.payload)) \in AllFrames
    BY <2>1, <2>3 DEF AllFrames
  <2> QED  BY <2>4, <2>5
<1> QED  BY <1>2, <1>3, <1>4

LEMMA AppendIs ==
  ASSUME NEW S, NEW s \in Seq(S), NEW e \in S
  PROVE  Append(s, e) \in Seq(S) /\ Prefix(s, Append(s, e)) /\ Prefix(s, s)
BY DEF Prefix

LEMMA PrefixesChain ==
  ASSUME NEW S, NEW s \in Seq(S), NEW t \in Seq(S), NEW r \in Seq(S),
         Prefix(s, t), Prefix(t, r)
  PROVE  Prefix(s, r)
BY DEF Prefix

\* A message adds to what came before it, and nothing more once it has failed.
LEMMA Delivers ==
  ASSUME NEW d \in Deliveries, NEW u \in Units
  PROVE  LET D == Deliver(d, u) IN
         D \in Deliveries /\ Before(d, D) /\ D.at = d.at + Len(Bytes(u))
<1> DEFINE D == Deliver(d, u)
           end == d.at + Len(Bytes(u))
           seg == segmentation(u.header)
           o == d.open
<1>1. /\ d.frames \in Seq(AllFrames) /\ o \in Seq(PlainFrames)
      /\ d.failed \in BOOLEAN /\ d.at \in Nat
  BY DEF Deliveries
<1>2. Len(Bytes(u)) \in Nat /\ end \in Nat /\ d.at <= end
  BY <1>1, BytesAre, UnitIs
<1> HIDE DEF end
<1>3. \A f \in PlainFrames : << f >> \in Seq(PlainFrames)
  OBVIOUS
<1>4. << >> \in Seq(PlainFrames)
  OBVIOUS
<1> HIDE DEF o, seg
<1>5. \E fs \in Seq(AllFrames), x \in Seq(PlainFrames), f \in BOOLEAN :
        /\ D = Delivery(fs, x, f, end)
        /\ Prefix(d.frames, fs)
        /\ d.failed => f /\ fs = d.frames
  <2>1. Prefix(d.frames, d.frames)
    BY <1>1 DEF Prefix
  <2>2. \A f \in AllFrames : /\ Append(d.frames, f) \in Seq(AllFrames)
                             /\ Prefix(d.frames, Append(d.frames, f))
    BY <1>1, AppendIs
  <2>3. CASE D = Delivery(d.frames, o, TRUE, end)
    BY <1>1, <2>1, <2>3
  <2>4. CASE ~d.failed /\ IsControl(u)
    <3>1. D = Delivery(Append(d.frames, Frame(u.header, << >>)), o, FALSE, end)
      BY <2>4, DeliverIs DEF end, o
    <3>2. Frame(u.header, << >>) \in AllFrames
      BY <1>1, FramesMade
    <3> QED  BY <1>1, <2>2, <2>4, <3>1, <3>2
  <2>5. CASE ~d.failed /\ Taken(u) /\ seg = "None"
    <3>1. D = Delivery(Append(d.frames, Frame(u.header, u.payload)), o, FALSE, end)
      BY <2>5, DeliverIs DEF end, o, seg
    <3>2. Frame(u.header, u.payload) \in AllFrames
      BY <1>1, FramesMade
    <3> QED  BY <1>1, <2>2, <2>5, <3>1, <3>2
  <2>6. CASE ~d.failed /\ Taken(u) /\ seg = "First"
    <3>1. D = Delivery(d.frames, << Frame(u.header, u.payload) >>, FALSE, end)
      BY <2>6, DeliverIs DEF end, o, seg
    <3>2. Frame(u.header, u.payload) \in PlainFrames
      BY <1>1, FramesMade
    <3> QED  BY <1>1, <1>3, <2>1, <2>6, <3>1, <3>2
  <2>7. CASE ~d.failed /\ Taken(u) /\ seg = "Middle" /\ FitsWith(o, u.payload)
    <3>1. D = Delivery(d.frames, << Frame(o[1].header, Data(o, u.payload)) >>, FALSE, end)
      BY <2>7, DeliverIs DEF end, o, seg
    <3>2. Frame(o[1].header, Data(o, u.payload)) \in PlainFrames
      BY <1>1, <2>7, FramesMade DEF FitsWith
    <3> QED  BY <1>1, <1>3, <2>1, <2>7, <3>1, <3>2
  <2>8. CASE ~d.failed /\ Taken(u) /\ seg = "Last" /\ FitsWith(o, u.payload)
    <3>1. D = Delivery(Append(d.frames, Assembled(o[1], Data(o, u.payload))), << >>,
                       FALSE, end)
      BY <2>8, DeliverIs DEF end, o, seg
    <3>2. Assembled(o[1], Data(o, u.payload)) \in AllFrames
      BY <1>1, <2>8, FramesMade DEF FitsWith
    <3> QED  BY <1>1, <1>4, <2>2, <2>8, <3>1, <3>2
  <2>9. \/ D = Delivery(d.frames, o, TRUE, end)
        \/ ~d.failed /\ IsControl(u)
        \/ ~d.failed /\ Taken(u) /\ seg = "None"
        \/ ~d.failed /\ Taken(u) /\ seg = "First"
        \/ ~d.failed /\ Taken(u) /\ seg = "Middle" /\ FitsWith(o, u.payload)
        \/ ~d.failed /\ Taken(u) /\ seg = "Last" /\ FitsWith(o, u.payload)
    BY DeliverIs DEF end, o, seg
  <2> QED  BY <2>3, <2>4, <2>5, <2>6, <2>7, <2>8, <2>9
<1>6. PICK fs \in Seq(AllFrames), x \in Seq(PlainFrames), f \in BOOLEAN :
        /\ D = Delivery(fs, x, f, end)
        /\ Prefix(d.frames, fs)
        /\ d.failed => f /\ fs = d.frames
  BY <1>5
<1>7. D \in Deliveries /\ D.frames = fs /\ D.failed = f /\ D.at = end
  BY <1>2, <1>6, DeliveryIs
<1> HIDE DEF D
<1> QED  BY <1>2, <1>6, <1>7 DEF Before, D, end

LEMMA FramingStarts == FramingInit => FramingInv
<1> SUFFICES ASSUME FramingInit  PROVE FramingInv
  OBVIOUS
<1> DEFINE d == NothingYet
<1>1. /\ d \in Deliveries /\ d.frames = << >> /\ d.open = << >> /\ d.failed = FALSE /\ d.at = 0
  <2>1. /\ << >> \in Seq(AllFrames) /\ << >> \in Seq(PlainFrames)
        /\ FALSE \in BOOLEAN /\ 0 \in Nat
    OBVIOUS
  <2> QED  BY <2>1 DEF NothingYet, Delivery, Deliveries
<1> HIDE DEF d
<1>2. meant \in Seq(Deliveries) /\ Len(meant) = 1 /\ meant[1] = d
  BY <1>1 DEF FramingInit, d
<1>3. stream \in Seq(Units) /\ Len(stream) = 0 /\ wire \in Seq(Int) /\ Len(wire) = 0
  BY DEF FramingInit
<1>4. Before(d, d)
  BY <1>1 DEF Before, Prefix
<1>5. StreamInv
  BY <1>1, <1>2, <1>3, <1>4 DEF StreamInv
<1>6. codec.state = << >> /\ codec.segment_buf = << >>
  BY DEF FramingInit
<1>7. ReaderAt(1)
  <2>1. frames = << >> /\ failed = FALSE /\ consumed = 0
    BY DEF FramingInit
  <2>2. 1 \in 1..Len(meant)
    BY <1>2
  <2> QED  BY <1>1, <1>2, <1>6, <2>1, <2>2 DEF ReaderAt
<1>8. ReaderInv
  BY <1>3, <1>6, <1>7 DEF ReaderInv, FramingInit
<1> QED  BY <1>5, <1>8 DEF FramingInv

LEMMA BeforeChains ==
  ASSUME NEW d \in Deliveries, NEW e \in Deliveries, NEW f \in Deliveries,
         Before(d, e), Before(e, f)
  PROVE  Before(d, f)
<1>1. /\ d.frames \in Seq(AllFrames) /\ e.frames \in Seq(AllFrames)
      /\ f.frames \in Seq(AllFrames) /\ d.at \in Nat /\ e.at \in Nat /\ f.at \in Nat
  BY DEF Deliveries
<1>2. Prefix(d.frames, f.frames)
  BY <1>1, PrefixesChain DEF Before
<1> QED  BY <1>1, <1>2 DEF Before

\* More bytes on the wire disturb nothing that was there.
LEMMA SendsKeep ==
  ASSUME FramingInv, NEW u \in Units, ServerSends(u)
  PROVE  FramingInv'
<1> DEFINE n == Len(stream)
           last == meant[n + 1]
           D == Deliver(last, u)
           b == Bytes(u)
<1>0. StreamInv /\ ReaderInv
  BY DEF FramingInv
<1>1. /\ stream \in Seq(Units) /\ wire \in Seq(Int) /\ meant \in Seq(Deliveries)
      /\ Len(meant) = n + 1 /\ n \in Nat /\ Len(wire) = last.at
  BY <1>0 DEF StreamInv
<1>2. last \in Deliveries /\ last.at \in Nat
  <2>1. n + 1 \in 1..Len(meant)
    BY <1>1
  <2>2. last \in Deliveries
    BY <1>1, <2>1
  <2> HIDE DEF last
  <2> QED  BY <2>2 DEF Deliveries
<1>3. b \in Seq(Int) /\ Len(b) \in Nat
  BY BytesAre, UnitIs
<1>4. D \in Deliveries /\ Before(last, D) /\ D.at = last.at + Len(b)
  BY <1>2, Delivers
<1> HIDE DEF D, b
<1>5. /\ stream' \in Seq(Units) /\ Len(stream') = n + 1 /\ stream'[n + 1] = u
      /\ \A k \in 1..n : stream'[k] = stream[k]
  BY <1>1 DEF ServerSends
<1>6. /\ meant' \in Seq(Deliveries) /\ Len(meant') = n + 2 /\ meant'[n + 2] = D
      /\ \A k \in 1..(n + 1) : meant'[k] = meant[k]
  <2>1. meant' = Append(meant, D)
    BY <1>1 DEF ServerSends, D
  <2> QED  BY <1>1, <1>4, <2>1
<1>7. /\ wire' \in Seq(Int) /\ Len(wire') = Len(wire) + Len(b)
      /\ \A i \in 1..Len(wire) : wire'[i] = wire[i]
      /\ \A i \in 1..Len(b) : wire'[Len(wire) + i] = b[i]
  <2>1. wire' = wire \o b
    BY DEF ServerSends, b
  <2> QED  BY <1>1, <1>3, <2>1, Joined
<1>8. ASSUME NEW k \in 1..(n + 1)
      PROVE  /\ meant'[k + 1] = Deliver(meant'[k], stream'[k])
             /\ meant'[k].at + Len(Bytes(stream'[k])) <= Len(wire')
             /\ \A i \in 1..Len(Bytes(stream'[k])) :
                  wire'[meant'[k].at + i] = Bytes(stream'[k])[i]
  <2>1. CASE k = n + 1
    <3>1. meant'[k] = last /\ meant'[k + 1] = D /\ stream'[k] = u
      <4>1. k + 1 = n + 2
        BY <1>1, <2>1
      <4>2. meant'[k] = last
        BY <1>6, <2>1
      <4>3. meant'[k + 1] = D
        BY <1>6, <4>1
      <4>4. stream'[k] = u
        BY <1>5, <2>1
      <4> QED  BY <4>2, <4>3, <4>4
    <3>2. meant'[k + 1] = Deliver(meant'[k], stream'[k])
      BY <3>1 DEF D
    <3>3. meant'[k].at = Len(wire) /\ Bytes(stream'[k]) = b
      BY <1>1, <3>1 DEF b
    <3>4. Len(wire) \in Nat
      BY <1>1
    <3>5. meant'[k].at + Len(Bytes(stream'[k])) <= Len(wire')
      BY <1>3, <1>7, <3>3, <3>4
    <3>6. \A i \in 1..Len(Bytes(stream'[k])) :
            wire'[meant'[k].at + i] = Bytes(stream'[k])[i]
      BY <1>7, <3>3
    <3> QED  BY <3>2, <3>5, <3>6
  <2>2. CASE k \in 1..n
    <3> DEFINE v == stream[k]
               at == meant[k].at
    <3>1. v \in Units /\ at \in Nat /\ Len(Bytes(v)) \in Nat
      <4>1. v \in Units
        BY <1>1, <2>2
      <4>2. k \in 1..Len(meant)
        BY <1>1, <2>2
      <4>3. meant[k] \in Deliveries
        BY <1>1, <4>2
      <4>4. at \in Nat
        BY <4>3 DEF Deliveries
      <4> HIDE DEF v, at
      <4> QED  BY <4>1, <4>4, BytesAre, UnitIs
    <3>2. /\ meant[k + 1] = Deliver(meant[k], v) /\ at + Len(Bytes(v)) <= Len(wire)
          /\ \A i \in 1..Len(Bytes(v)) : wire[at + i] = Bytes(v)[i]
      BY <1>0, <2>2 DEF StreamInv
    <3>3. meant'[k] = meant[k] /\ meant'[k + 1] = meant[k + 1] /\ stream'[k] = v
      <4>1. k \in 1..(n + 1) /\ k + 1 \in 1..(n + 1)
        BY <1>1, <2>2
      <4> QED  BY <1>5, <1>6, <2>2, <4>1
    <3> HIDE DEF v, at
    <3>4. Len(wire) \in Nat
      BY <1>1
    <3>5. \A i \in 1..Len(Bytes(v)) : wire'[at + i] = Bytes(v)[i]
      <4> SUFFICES ASSUME NEW i \in 1..Len(Bytes(v))  PROVE wire'[at + i] = Bytes(v)[i]
        OBVIOUS
      <4>1. at + i \in 1..Len(wire)
        BY <3>1, <3>2, <3>4
      <4> QED  BY <1>7, <3>2, <4>1
    <3>6. at + Len(Bytes(v)) <= Len(wire')
      BY <1>3, <1>7, <3>1, <3>2, <3>4
    <3> QED  BY <3>2, <3>3, <3>5, <3>6 DEF at
  <2> QED  BY <1>1, <2>1, <2>2
<1>9. \A k \in 1..(n + 2) : Before(meant'[k], D)
  <2> SUFFICES ASSUME NEW k \in 1..(n + 2)  PROVE Before(meant'[k], D)
    OBVIOUS
  <2>1. CASE k = n + 2
    <3>1. D.frames \in Seq(AllFrames) /\ D.at \in Nat
      BY <1>4 DEF Deliveries
    <3> QED  BY <1>6, <2>1, <3>1 DEF Before, Prefix
  <2>2. CASE k \in 1..(n + 1)
    <3>1. meant'[k] = meant[k] /\ meant[k] \in Deliveries /\ Before(meant[k], last)
      BY <1>0, <1>1, <1>6, <2>2 DEF StreamInv
    <3> QED  BY <1>2, <1>4, <3>1, BeforeChains
  <2> QED  BY <1>1, <2>1, <2>2
<1>10. StreamInv'
  <2>1. Len(meant') = Len(stream') + 1 /\ Len(wire') = meant'[Len(meant')].at
    BY <1>1, <1>4, <1>5, <1>6, <1>7
  <2> QED  BY <1>5, <1>6, <1>7, <1>8, <1>9, <2>1 DEF StreamInv
<1>11. ReaderInv'
  <2>1. PICK k : ReaderAt(k)
    BY <1>0 DEF ReaderInv
  <2>2. k \in 1..(n + 1)
    BY <1>1, <2>1 DEF ReaderAt
  <2>3. meant'[k] = meant[k] /\ (k <= n => stream'[k] = stream[k])
    BY <1>1, <1>5, <1>6, <2>2
  <2>4. codec' = codec /\ consumed' = consumed /\ frames' = frames /\ failed' = failed
    BY DEF ServerSends
  <2>5. k \in 1..Len(meant') /\ (k <= n => k <= Len(stream'))
    BY <1>1, <1>5, <1>6, <2>2
  <2>6. ReaderAt(k)'
    BY <2>1, <2>3, <2>4, <2>5 DEF ReaderAt
  <2>7. arrived' \in Nat /\ arrived' <= Len(wire')
    BY <1>0, <1>1, <1>3, <1>7 DEF ReaderInv, ServerSends
  <2> QED  BY <1>0, <2>4, <2>6, <2>7 DEF ReaderInv
<1> QED  BY <1>10, <1>11 DEF FramingInv

\* Where the reader stands in the stream, the bytes of the next message follow.
LEMMA NextUnit ==
  ASSUME FramingInv, ~failed, NEW k, ReaderAt(k), k <= Len(stream)
  PROVE  /\ k \in Nat /\ k + 1 \in 1..Len(meant)
         /\ stream[k] \in Units /\ meant[k] \in Deliveries
         /\ consumed = meant[k].at /\ consumed \in Nat
         /\ meant[k + 1] = Deliver(meant[k], stream[k])
         /\ consumed + Len(Bytes(stream[k])) <= Len(wire)
         /\ \A i \in 1..Len(Bytes(stream[k])) : wire[consumed + i] = Bytes(stream[k])[i]
<1>1. StreamInv
  BY DEF FramingInv
<1>2. k \in 1..Len(meant) /\ consumed = meant[k].at
  BY DEF ReaderAt
<1>3. /\ stream \in Seq(Units) /\ meant \in Seq(Deliveries) /\ Len(meant) = Len(stream) + 1
  BY <1>1 DEF StreamInv
<1>4. k \in 1..Len(stream) /\ k \in Nat /\ k + 1 \in 1..Len(meant)
  BY <1>2, <1>3
<1>5. stream[k] \in Units /\ meant[k] \in Deliveries
  BY <1>2, <1>3, <1>4
<1>6. meant[k].at \in Nat
  BY <1>5 DEF Deliveries
<1> QED  BY <1>1, <1>2, <1>4, <1>5, <1>6 DEF StreamInv

\* While bytes are left there is a next message.
LEMMA MoreToRead ==
  ASSUME FramingInv, ~failed, NEW k, ReaderAt(k), consumed < arrived
  PROVE  k <= Len(stream)
<1>1. StreamInv /\ arrived \in Nat /\ arrived <= Len(wire)
  BY DEF FramingInv, ReaderInv
<1>2. k \in 1..Len(meant) /\ consumed = meant[k].at
  BY DEF ReaderAt
<1>3. /\ stream \in Seq(Units) /\ wire \in Seq(Int) /\ Len(meant) = Len(stream) + 1
      /\ Len(wire) = meant[Len(meant)].at
  BY <1>1 DEF StreamInv
<1>4. k # Len(meant)
  BY <1>1, <1>2, <1>3
<1>5. Len(stream) \in Nat
  BY <1>3
<1> QED  BY <1>2, <1>3, <1>4, <1>5

LEMMA SameStream ==
  ASSUME FramingInv, UNCHANGED << stream, wire, meant >>
  PROVE  StreamInv'
BY DEF FramingInv, StreamInv

LEMMA ReadsKeep ==
  ASSUME FramingInv, NEW n \in 1..Len(wire), ReadSocket(n)
  PROVE  FramingInv'
<1>1. StreamInv'
  BY SameStream DEF ReadSocket
<1>2. /\ UNCHANGED << stream, wire, meant, consumed, codec, frames, failed >>
      /\ arrived' = arrived + n /\ arrived + n <= Len(wire)
  BY DEF ReadSocket
<1>3. wire \in Seq(Int) /\ arrived \in Nat
  BY DEF FramingInv, StreamInv, ReaderInv
<1>4. arrived' \in Nat /\ arrived' <= Len(wire')
  BY <1>2, <1>3
<1>5. PICK k : ReaderAt(k)
  BY DEF FramingInv, ReaderInv
<1>6. ReaderAt(k)'
  BY <1>2, <1>5 DEF ReaderAt
<1> QED  BY <1>1, <1>2, <1>4, <1>6 DEF FramingInv, ReaderInv

\* At a header: a message of no payload is passed, or refused, or waited for.
LEMMA HeaderKeeps ==
  ASSUME FramingInv, DecodeAtHeader
  PROVE  FramingInv'
<1> DEFINE buf == InBuffer(1, HEADER_SIZE)
<1>1. PICK k : ReaderAt(k)
  BY DEF FramingInv, ReaderInv
<1> DEFINE u == stream[k]
           d == meant[k]
           D == meant[k + 1]
<1>2. /\ ~failed /\ codec.state = << >> /\ arrived - consumed >= 8
      /\ UNCHANGED << stream, wire, meant, arrived >>
  BY DEF DecodeAtHeader, AtHeader, Buffered, HEADER_SIZE
<1>3. arrived \in Nat /\ arrived <= Len(wire) /\ wire \in Seq(Int)
      /\ codec = [state |-> codec.state, segment_buf |-> codec.segment_buf]
  BY DEF FramingInv, StreamInv, ReaderInv
<1>4. k <= Len(stream)
  <2>1. consumed = d.at /\ d \in Deliveries
    BY <1>1, <1>2 DEF FramingInv, StreamInv, ReaderAt
  <2>2. consumed \in Nat
    BY <2>1 DEF Deliveries
  <2>3. consumed < arrived
    BY <1>2, <1>3, <2>2
  <2> QED  BY <1>1, <1>2, <2>3, MoreToRead
<1>5. /\ k \in Nat /\ k + 1 \in 1..Len(meant) /\ u \in Units /\ d \in Deliveries
      /\ consumed = d.at /\ consumed \in Nat /\ D = Deliver(d, u)
      /\ consumed + Len(Bytes(u)) <= Len(wire)
      /\ \A i \in 1..Len(Bytes(u)) : wire[consumed + i] = Bytes(u)[i]
  BY <1>1, <1>2, <1>4, NextUnit
<1>6. /\ frames = d.frames /\ d.failed = FALSE /\ failed = d.failed
      /\ codec.segment_buf = d.open
  <2>1. d.failed \in BOOLEAN
    BY <1>5 DEF Deliveries
  <2> QED  BY <1>1, <1>2, <2>1 DEF ReaderAt
<1> HIDE DEF u, d, D
<1>7. Len(u.payload) \in Nat /\ Len(Bytes(u)) = 8 + Len(u.payload)
  BY <1>5, UnitIs, BytesAre
<1>8. DecodeHeader(buf) = u.header /\ buf[1] = u.magic
  <2> DEFINE c == SubSeq(wire, consumed + 1, consumed + 8)
  <2>1. consumed + 8 <= Len(wire)
    BY <1>3, <1>5, <1>7
  <2>2. c \in Seq(Int) /\ Len(c) = 8 /\ \A i \in 1..8 : c[i] = wire[consumed + i]
    BY <1>3, <1>5, <2>1, 8 \in Nat, Part
  <2>3. buf = c
    BY DEF InBuffer, HEADER_SIZE
  <2> HIDE DEF c
  <2>4. \A i \in 1..8 : c[i] = Bytes(u)[i]
    <3> SUFFICES ASSUME NEW i \in 1..8  PROVE c[i] = Bytes(u)[i]
      OBVIOUS
    <3>1. i \in 1..Len(Bytes(u))
      BY <1>7
    <3> QED  BY <1>5, <2>2, <3>1
  <2>5. DecodeHeader(c) = u.header /\ c[1] = u.magic
    BY <1>5, <2>2, <2>4, HeaderRead
  <2> QED  BY <2>3, <2>5
<1> HIDE DEF buf
<1>9. \/ /\ IsControl(u)
         /\ consumed' = consumed + 8 /\ frames' = Append(frames, Frame(u.header, << >>))
         /\ UNCHANGED << codec, failed >>
      \/ /\ ~IsControl(u) /\ ~Taken(u) /\ failed' = TRUE /\ UNCHANGED << codec, consumed, frames >>
      \/ /\ Taken(u) /\ codec' = [codec EXCEPT !.state = << u.header >>]
         /\ UNCHANGED << consumed, frames, failed >>
  BY <1>8 DEF DecodeAtHeader, IsControl, Taken, buf, HEADER_SIZE
<1>10. StreamInv' /\ arrived' \in Nat /\ arrived' <= Len(wire')
  BY <1>2, <1>3, SameStream
<1>11. meant' = meant /\ stream' = stream /\ k \in 1..Len(meant) /\ k + 1 \in 1..Len(meant')
  BY <1>1, <1>2, <1>5 DEF ReaderAt
<1>12. CASE /\ IsControl(u)
            /\ consumed' = consumed + 8 /\ frames' = Append(frames, Frame(u.header, << >>))
            /\ UNCHANGED << codec, failed >>
  <2>1. Len(u.payload) = 0
    BY <1>5, <1>12, FramingAssumption DEF IsControl
  <2>2. D = Delivery(Append(d.frames, Frame(u.header, << >>)), d.open, FALSE,
                     d.at + Len(Bytes(u)))
    BY <1>5, <1>6, <1>12, DeliverIs
  <2>3. /\ D.frames = Append(d.frames, Frame(u.header, << >>)) /\ D.open = d.open
        /\ D.failed = FALSE /\ D.at = d.at + Len(Bytes(u))
    BY <2>2 DEF Delivery
  <2>4. /\ frames' = D.frames /\ failed' = D.failed /\ consumed' = D.at
        /\ codec.segment_buf = D.open /\ codec' = codec
    <3>1. frames' = D.frames
      BY <1>6, <1>12, <2>3
    <3>2. failed' = D.failed /\ codec.segment_buf = D.open /\ codec' = codec
      BY <1>6, <1>12, <2>3
    <3>3. Len(Bytes(u)) = 8
      BY <1>7, <2>1
    <3>4. consumed' = D.at
      BY <1>5, <1>12, <2>3, <3>3
    <3> QED  BY <3>1, <3>2, <3>4
  <2>5. ReaderAt(k + 1)'
    BY <1>2, <1>11, <2>4 DEF ReaderAt, D
  <2> QED  BY <1>3, <1>10, <2>4, <2>5 DEF FramingInv, ReaderInv
<1>13. CASE ~IsControl(u) /\ ~Taken(u) /\ failed' = TRUE /\ UNCHANGED << codec, consumed, frames >>
  <2>1. D = Delivery(d.frames, d.open, TRUE, d.at + Len(Bytes(u)))
    BY <1>5, <1>6, <1>13, DeliverIs
  <2>2. D.frames = d.frames /\ D.failed = TRUE
    BY <2>1 DEF Delivery
  <2>3. frames' = D.frames /\ failed' = D.failed /\ failed' /\ codec' = codec
    BY <1>6, <1>13, <2>2
  <2>4. ReaderAt(k + 1)'
    BY <1>11, <2>3 DEF ReaderAt, D
  <2> QED  BY <1>3, <1>10, <2>3, <2>4 DEF FramingInv, ReaderInv
<1>14. CASE /\ Taken(u) /\ codec' = [codec EXCEPT !.state = << u.header >>]
            /\ UNCHANGED << consumed, frames, failed >>
  <2>1. /\ codec' = [state |-> << u.header >>, segment_buf |-> codec.segment_buf]
    BY <1>3, <1>14
  <2>2. codec'.state = << u.header >> /\ codec'.segment_buf = codec.segment_buf
    BY <2>1
  <2>3. ReaderAt(k)'
    BY <1>1, <1>4, <1>11, <1>14, <2>2 DEF ReaderAt, u
  <2> QED  BY <1>10, <2>1, <2>2, <2>3 DEF FramingInv, ReaderInv
<1> QED  BY <1>9, <1>12, <1>13, <1>14

\* At a payload: the message is passed.
LEMMA PayloadKeeps ==
  ASSUME FramingInv, DecodeAtPayload
  PROVE  FramingInv'
<1>1. PICK k : ReaderAt(k)
  BY DEF FramingInv, ReaderInv
<1> DEFINE u == stream[k]
           d == meant[k]
           D == meant[k + 1]
           o == d.open
           end == d.at + Len(Bytes(u))
           seg == segmentation(u.header)
           size == u.header.payload_size
<1>2. ~failed /\ codec.state # << >> /\ UNCHANGED << stream, wire, meant, arrived >>
  BY DEF DecodeAtPayload, AtPayload
<1>3. arrived \in Nat /\ arrived <= Len(wire) /\ wire \in Seq(Int)
  BY DEF FramingInv, StreamInv, ReaderInv
<1>4. k <= Len(stream) /\ codec.state = << u.header >> /\ Taken(u)
  BY <1>1, <1>2 DEF ReaderAt
<1>5. /\ k \in Nat /\ k + 1 \in 1..Len(meant) /\ u \in Units /\ d \in Deliveries
      /\ consumed = d.at /\ consumed \in Nat /\ D = Deliver(d, u)
      /\ consumed + Len(Bytes(u)) <= Len(wire)
      /\ \A i \in 1..Len(Bytes(u)) : wire[consumed + i] = Bytes(u)[i]
  BY <1>1, <1>2, <1>4, NextUnit
<1>6. /\ frames = d.frames /\ d.failed = FALSE /\ failed = d.failed
      /\ codec.segment_buf = o
  <2>1. d.failed \in BOOLEAN
    BY <1>5 DEF Deliveries
  <2> QED  BY <1>1, <1>2, <2>1 DEF ReaderAt
<1>7. codec.state[1] = u.header
  BY <1>4
<1> HIDE DEF u, d, D, o, seg, end, size
<1>8. /\ u.payload \in Seq(Int) /\ Len(u.payload) = size /\ size \in Nat
      /\ Bytes(u) \in Seq(Int) /\ Len(Bytes(u)) = 8 + size
      /\ \A i \in 1..size : Bytes(u)[8 + i] = u.payload[i]
  <2>1. u.payload \in Seq(Int) /\ Len(u.payload) \in Nat
    BY <1>5, UnitIs
  <2>2. Len(u.payload) = size
    BY <1>4, <1>5, FramingAssumption DEF Taken, size
  <2> QED  BY <1>5, <2>1, <2>2, BytesAre
<1>9. InBuffer(HEADER_SIZE + 1, HEADER_SIZE + size) = u.payload
  <2> DEFINE from == consumed + 8
             c == SubSeq(wire, from + 1, from + size)
  <2>1. from \in Nat /\ from + size <= Len(wire)
    <3>1. consumed \in Nat /\ size \in Nat /\ Len(Bytes(u)) = 8 + size
      BY <1>5, <1>8
    <3>2. Len(wire) \in Nat /\ consumed + Len(Bytes(u)) <= Len(wire)
      BY <1>3, <1>5
    <3>3. consumed + (8 + size) <= Len(wire)
      BY <3>1, <3>2
    <3> QED  BY <3>1, <3>2, <3>3
  <2>2. from + 1 = consumed + (HEADER_SIZE + 1) /\ from + size = consumed + (HEADER_SIZE + size)
    BY <1>5, <1>8 DEF HEADER_SIZE
  <2>3. InBuffer(HEADER_SIZE + 1, HEADER_SIZE + size) = c
    BY <2>2 DEF InBuffer
  <2> HIDE DEF from
  <2>4. c \in Seq(Int) /\ Len(c) = size /\ \A i \in 1..size : c[i] = wire[from + i]
    BY <1>3, <1>8, <2>1, Part
  <2> HIDE DEF c
  <2>5. \A i \in 1..size : c[i] = u.payload[i]
    <3> SUFFICES ASSUME NEW i \in 1..size  PROVE c[i] = u.payload[i]
      OBVIOUS
    <3>1. 8 + i \in 1..Len(Bytes(u)) /\ from + i = consumed + (8 + i)
      <4>1. consumed \in Nat /\ size \in Nat /\ Len(Bytes(u)) = 8 + size
        BY <1>5, <1>8
      <4> QED  BY <4>1 DEF from
    <3> QED  BY <1>5, <1>8, <2>4, <3>1
  <2>6. c = u.payload
    BY <1>8, <2>4, <2>5, SeqSame
  <2> QED  BY <2>3, <2>6
<1>10. /\ consumed' = consumed + 8 + size
       /\ \/ /\ seg = "None"
             /\ frames' = Append(frames, Frame(u.header, u.payload))
             /\ codec' = [codec EXCEPT !.state = << >>] /\ UNCHANGED failed
          \/ /\ seg = "First"
             /\ codec' = [state |-> << >>, segment_buf |-> << Frame(u.header, u.payload) >>]
             /\ UNCHANGED << frames, failed >>
          \/ /\ seg = "Middle" /\ FitsWith(o, u.payload)
             /\ codec' = [state |-> << >>,
                          segment_buf |-> << Frame(o[1].header, Data(o, u.payload)) >>]
             /\ UNCHANGED << frames, failed >>
          \/ /\ seg = "Last" /\ FitsWith(o, u.payload)
             /\ codec' = [state |-> << >>, segment_buf |-> << >>]
             /\ frames' = Append(frames, Assembled(o[1], Data(o, u.payload)))
             /\ UNCHANGED failed
          \/ /\ seg \in {"Middle", "Last"} /\ ~FitsWith(o, u.payload)
             /\ codec' = [state |-> << >>, segment_buf |-> IF seg = "Last" THEN << >> ELSE o]
             /\ failed' = TRUE /\ UNCHANGED frames
  BY <1>6, <1>7, <1>9 DEF DecodeAtPayload, FitsWith, Data, HEADER_SIZE, seg, size
<1>11. StreamInv' /\ arrived' \in Nat /\ arrived' <= Len(wire')
  BY <1>2, <1>3, SameStream
<1>12. meant' = meant /\ k + 1 \in 1..Len(meant') /\ consumed' = end
  <2>1. consumed' = end
    <3>1. consumed \in Nat /\ size \in Nat /\ Len(Bytes(u)) = 8 + size /\ consumed = d.at
      BY <1>5, <1>8
    <3>2. consumed' = consumed + 8 + size
      BY <1>10
    <3> QED  BY <3>1, <3>2 DEF end
  <2> QED  BY <1>2, <1>5, <2>1
<1>13. \E fs, x, f : D = Delivery(fs, x, f, end)
  BY <1>4, <1>5, <1>6, DeliverIs DEF end, o, seg
<1>14. SUFFICES /\ frames' = D.frames /\ failed' = D.failed
                /\ codec' = [state |-> << >>, segment_buf |-> codec'.segment_buf]
                /\ ~failed' => codec'.segment_buf = D.open
  <2>1. D.at = end
    BY <1>13 DEF Delivery
  <2>2. codec'.state = << >>
    BY <1>14
  <2>3. ReaderAt(k + 1)'
    BY <1>12, <1>14, <2>1, <2>2 DEF ReaderAt, D
  <2> QED  BY <1>11, <1>14, <2>2, <2>3 DEF FramingInv, ReaderInv
<1>15. CASE /\ seg = "None" /\ frames' = Append(frames, Frame(u.header, u.payload))
            /\ codec' = [codec EXCEPT !.state = << >>] /\ UNCHANGED failed
  <2>1. D = Delivery(Append(d.frames, Frame(u.header, u.payload)), o, FALSE, end)
    BY <1>4, <1>5, <1>6, <1>15, DeliverIs DEF end, o, seg
  <2>2. /\ D.frames = Append(d.frames, Frame(u.header, u.payload)) /\ D.failed = FALSE
        /\ D.open = o
    BY <2>1 DEF Delivery
  <2>3. codec = [state |-> codec.state, segment_buf |-> codec.segment_buf]
    BY DEF FramingInv, ReaderInv
  <2>4. codec' = [state |-> << >>, segment_buf |-> codec.segment_buf]
    BY <1>15, <2>3
  <2> QED  BY <1>6, <1>15, <2>2, <2>4
<1>16. CASE /\ seg = "First"
            /\ codec' = [state |-> << >>, segment_buf |-> << Frame(u.header, u.payload) >>]
            /\ UNCHANGED << frames, failed >>
  <2>1. D = Delivery(d.frames, << Frame(u.header, u.payload) >>, FALSE, end)
    BY <1>4, <1>5, <1>6, <1>16, DeliverIs DEF end, o, seg
  <2>2. /\ D.frames = d.frames /\ D.failed = FALSE
        /\ D.open = << Frame(u.header, u.payload) >>
    BY <2>1 DEF Delivery
  <2> QED  BY <1>6, <1>16, <2>2
<1>17. CASE /\ seg = "Middle" /\ FitsWith(o, u.payload)
            /\ codec' = [state |-> << >>,
                         segment_buf |-> << Frame(o[1].header, Data(o, u.payload)) >>]
            /\ UNCHANGED << frames, failed >>
  <2>1. D = Delivery(d.frames, << Frame(o[1].header, Data(o, u.payload)) >>, FALSE, end)
    BY <1>4, <1>5, <1>6, <1>17, DeliverIs DEF end, o, seg
  <2>2. /\ D.frames = d.frames /\ D.failed = FALSE
        /\ D.open = << Frame(o[1].header, Data(o, u.payload)) >>
    BY <2>1 DEF Delivery
  <2> QED  BY <1>6, <1>17, <2>2
<1>18. CASE /\ seg = "Last" /\ FitsWith(o, u.payload)
            /\ codec' = [state |-> << >>, segment_buf |-> << >>]
            /\ frames' = Append(frames, Assembled(o[1], Data(o, u.payload)))
            /\ UNCHANGED failed
  <2>1. D = Delivery(Append(d.frames, Assembled(o[1], Data(o, u.payload))), << >>, FALSE, end)
    BY <1>4, <1>5, <1>6, <1>18, DeliverIs DEF end, o, seg
  <2>2. /\ D.frames = Append(d.frames, Assembled(o[1], Data(o, u.payload)))
        /\ D.failed = FALSE /\ D.open = << >>
    BY <2>1 DEF Delivery
  <2> QED  BY <1>6, <1>18, <2>2
<1>19. CASE /\ seg \in {"Middle", "Last"} /\ ~FitsWith(o, u.payload)
            /\ codec' = [state |-> << >>, segment_buf |-> IF seg = "Last" THEN << >> ELSE o]
            /\ failed' = TRUE /\ UNCHANGED frames
  <2>1. D = Delivery(d.frames, o, TRUE, end)
    BY <1>4, <1>5, <1>6, <1>19, DeliverIs DEF end, o, seg
  <2>2. D.frames = d.frames /\ D.failed = TRUE
    BY <2>1 DEF Delivery
  <2> QED  BY <1>6, <1>19, <2>2
<1> QED  BY <1>10, <1>15, <1>16, <1>17, <1>18, <1>19

LEMMA FramingInvHolds == FramingSpec => []FramingInv
<1>1. FramingInv /\ [FramingNext]_framingVars => FramingInv'
  <2> SUFFICES ASSUME FramingInv, [FramingNext]_framingVars  PROVE FramingInv'
    OBVIOUS
  <2>1. CASE UNCHANGED framingVars
    BY <2>1 DEF framingVars, FramingInv, StreamInv, ReaderInv, ReaderAt
  <2>2. CASE FramingNext
    BY <2>2, SendsKeep, ReadsKeep, HeaderKeeps, PayloadKeeps DEF FramingNext
  <2> QED  BY <2>1, <2>2
<1> QED  BY <1>1, FramingStarts, PTL DEF FramingSpec

\* Where nothing is left to do the reader is at the end of the stream.
LEMMA FramesWhole == FramingInv => FramesAreWhole
<1> SUFFICES ASSUME FramingInv  PROVE FramesAreWhole
  OBVIOUS
<1> DEFINE n == Len(meant)
           e == meant[n]
<1>1. PICK k : ReaderAt(k)
  BY DEF FramingInv, ReaderInv
<1> DEFINE d == meant[k]
<1>2. /\ k \in 1..n /\ frames = d.frames /\ failed = d.failed
  BY <1>1 DEF ReaderAt
<1>3. StreamInv
  BY DEF FramingInv
<1>4. meant \in Seq(Deliveries) /\ n \in Nat /\ n \in 1..n
  BY <1>2, <1>3 DEF StreamInv
<1>5. d \in Deliveries /\ e \in Deliveries /\ Before(d, e)
  BY <1>2, <1>3, <1>4 DEF StreamInv
<1> HIDE DEF d, e
<1>6. d.frames \in Seq(AllFrames) /\ e.frames \in Seq(AllFrames)
      /\ d.failed \in BOOLEAN /\ e.failed \in BOOLEAN
  BY <1>5 DEF Deliveries
<1>7. Len(frames) <= Len(e.frames) /\ frames = SubSeq(e.frames, 1, Len(frames))
  BY <1>2, <1>5, <1>6 DEF Before, Prefix
<1>8. failed => e.failed /\ frames = e.frames
  BY <1>2, <1>5 DEF Before
<1>9. ASSUME ~failed, arrived = Len(wire), ~AtHeader, ~AtPayload
      PROVE  k = n
  <2> SUFFICES ASSUME k <= Len(stream)  PROVE FALSE
    <3>1. n = Len(stream) + 1 /\ stream \in Seq(Units)
      BY <1>3 DEF StreamInv
    <3>2. Len(stream) \in Nat
      BY <3>1
    <3> QED  BY <1>2, <3>1, <3>2
  <2> DEFINE u == stream[k]
  <2>1. u \in Units /\ consumed \in Nat /\ consumed + Len(Bytes(u)) <= Len(wire)
    BY <1>1, <1>9, NextUnit
  <2>2. Len(u.payload) \in Nat /\ Len(Bytes(u)) = 8 + Len(u.payload)
    BY <2>1, UnitIs, BytesAre
  <2>3. Buffered >= 8 + Len(u.payload)
    <3>1. wire \in Seq(Int)
      BY <1>3 DEF StreamInv
    <3>2. Len(wire) \in Nat
      BY <3>1
    <3> QED  BY <1>9, <2>1, <2>2, <3>2 DEF Buffered
  <2>4. CASE codec.state = << >>
    <3>1. Buffered >= HEADER_SIZE
      BY <1>9, <2>1, <2>2, <2>3 DEF HEADER_SIZE, Buffered
    <3> QED  BY <1>9, <2>4, <3>1 DEF AtHeader
  <2>5. CASE codec.state # << >>
    <3>1. codec.state[1] = u.header /\ Taken(u)
      BY <1>1, <1>9, <2>5 DEF ReaderAt
    <3>2. Len(u.payload) = u.header.payload_size
      BY <2>1, <3>1, FramingAssumption DEF Taken
    <3>3. Buffered >= Needed(codec.state[1])
      BY <2>3, <3>1, <3>2 DEF Needed, HEADER_SIZE
    <3> QED  BY <1>9, <2>5, <3>3 DEF AtPayload
  <2> QED  BY <2>4, <2>5
<1>10. failed \/ (arrived = Len(wire) /\ ~AtHeader /\ ~AtPayload)
         => frames = e.frames /\ failed = e.failed
  BY <1>2, <1>6, <1>8, <1>9 DEF d, e
<1> QED  BY <1>7, <1>8, <1>10 DEF FramesAreWhole, e

\* However PvaTcp::recv_frame cuts the stream into reads and whatever the server
\* goes on sending meanwhile, PvaCodec::decode_frame returns the frames of the
\* messages, in order and whole, misses none, and fails exactly where the stream
\* has an error.
THEOREM FramingFramesAreWhole == FramingSpec => []FramesAreWhole
BY FramingInvHolds, FramesWhole, PTL

----------------------------------------------------------------------------
(* Proofs about BitSet, for any widths of bytes, words and inline part.    *)
(* Numbers.                                                                *)

\* A number has a quotient and a remainder.
LEMMA Divided ==
  ASSUME NEW d \in Nat \ {0}, NEW i \in Nat
  PROVE  /\ i \div d \in Nat /\ i % d \in 0..(d - 1)
         /\ i = d * (i \div d) + (i % d)
  OBVIOUS

\* What is a number of whole parts more is farther.
LEMMA Ahead ==
  ASSUME NEW d \in Nat \ {0}, NEW w \in Nat, NEW v \in Nat, w < v
  PROVE  d * w + d <= d * v
<1>1. PICK k \in Nat : v = w + 1 + k
  BY SMT
<1>2. d * v = d * w + d + d * k
  BY <1>1
<1>3. d * k \in Nat /\ d * w \in Nat
  OBVIOUS
<1> QED BY <1>2, <1>3

\* and only one of each.
LEMMA DividedOnce ==
  ASSUME NEW d \in Nat \ {0}, NEW w \in Nat, NEW v \in Nat,
         NEW b \in 0..(d - 1), NEW c \in 0..(d - 1), d * w + b = d * v + c
  PROVE  w = v /\ b = c
<1>0. d * w \in Nat /\ d * v \in Nat
  OBVIOUS
<1>1. ~(w < v)
  BY <1>0, Ahead
<1>2. ~(v < w)
  BY <1>0, Ahead
<1>3. w = v
  BY <1>1, <1>2
<1> QED BY <1>0, <1>3

\* Parts that begin before the end: DivCeil counts them.
LEMMA Covered ==
  ASSUME NEW d \in Nat \ {0}, NEW n \in Nat, NEW w \in Nat
  PROVE  /\ DivCeil(n, d) \in Nat
         /\ w < DivCeil(n, d) <=> d * w < n
<1> DEFINE q == (n + d - 1) \div d
           r == (n + d - 1) % d
<1>1. q \in Nat /\ r \in 0..(d - 1) /\ n + d - 1 = d * q + r
  <2>1. n + d - 1 \in Nat
    OBVIOUS
  <2> QED BY <2>1, Divided
<1>2. DivCeil(n, d) = q
  BY DEF DivCeil
<1> HIDE DEF q, r
<1>3. d * q \in Nat /\ d * w \in Nat
  BY <1>1
<1>4. CASE w < q
  <2>1. d * w + d <= d * q
    BY <1>1, <1>4, Ahead
  <2> QED BY <2>1, <1>1, <1>2, <1>3, <1>4
<1>5. CASE q <= w
  <2>1. d * q <= d * w
    <3>1. CASE q = w
      BY <3>1, <1>3
    <3>2. CASE q < w
      BY <3>2, <1>1, <1>3, Ahead
    <3> QED BY <1>1, <1>5, <3>1, <3>2
  <2> QED BY <2>1, <1>1, <1>2, <1>3, <1>5
<1> QED BY <1>1, <1>4, <1>5

\* A set of numbers has a smallest one,
LEMMA Smallest ==
  ASSUME NEW T \in SUBSET Nat, T # {}
  PROVE  \E m \in T : \A k \in T : m <= k
<1> DEFINE R == { ss \in Nat \X Nat : ss[1] < ss[2] }
<1>1. IsWellFoundedOn(R, Nat)
  BY NatLessThanWellFounded DEF OpToRel
<1>2. T \subseteq Nat
  OBVIOUS
<1> HIDE DEF R
<1>3. PICK m \in T : \A k \in T : ~(<< k, m >> \in R)
  BY <1>1, <1>2, WFMin, Zenon
<1>4. ASSUME NEW k \in T
      PROVE  m <= k
  <2>1. k \in Nat /\ m \in Nat
    BY <1>2
  <2>2. ~(k < m)
    BY <1>3, <2>1 DEF R
  <2> QED BY <2>1, <2>2
<1> QED BY <1>4

\* so a set with 0 and the successors of its numbers has all of them,
LEMMA Counting ==
  ASSUME NEW P \in SUBSET Nat, 0 \in P, \A n \in P : n + 1 \in P
  PROVE  \A n \in Nat : n \in P
<1>1. SUFFICES ASSUME Nat \ P # {}
               PROVE  FALSE
  OBVIOUS
<1>2. PICK m \in Nat \ P : \A k \in Nat \ P : m <= k
  <2>1. Nat \ P \in SUBSET Nat
    OBVIOUS
  <2> QED BY <1>1, <2>1, Smallest
<1>3. m # 0
  BY <1>2
<1>4. m - 1 \in Nat /\ ~(m <= m - 1) /\ (m - 1) + 1 = m
  BY <1>2, <1>3
<1>5. m - 1 \in P
  BY <1>2, <1>4
<1> QED BY <1>2, <1>4, <1>5

\* and a set of numbers with a bound has a largest one.
LEMMA Largest ==
  ASSUME NEW n \in Nat, NEW T \in SUBSET (0..n), T # {}
  PROVE  \E m \in T : \A k \in T : k <= m
<1> DEFINE U == { n - k : k \in T }
<1>1. U \in SUBSET Nat
  OBVIOUS
<1>2. U # {}
  <2>1. PICK k \in T : TRUE
    OBVIOUS
  <2>2. n - k \in U
    BY <2>1
  <2> QED BY <2>2
<1> HIDE DEF U
<1>3. PICK x \in U : \A y \in U : x <= y
  BY <1>1, <1>2, Smallest
<1>4. PICK m \in T : x = n - m
  BY DEF U
<1>5. \A k \in T : n - k \in U
  BY DEF U
<1>6. \A k \in T : k <= m
  BY <1>3, <1>4, <1>5
<1> QED BY <1>6

----------------------------------------------------------------------------
(* The words of a bit set.                                                 *)

WordSet == 0..(WordBits - 1)

BitSets == [inline : [1..INLINE_WORDS -> SUBSET WordSet],
            overflow : Seq(SUBSET WordSet), bit_count : Nat]

Rebuilt(inline, overflow, count) ==
  [inline |-> inline, overflow |-> overflow, bit_count |-> count]

\* The number of its words.
Room(bs) == INLINE_WORDS + Len(bs.overflow)

\* bs stands for the set S.
Stands(bs, S) ==
  /\ bs \in BitSets /\ S \in SUBSET (0..(bs.bit_count - 1))
  /\ \A w \in Nat : \A b \in WordSet : b \in Word(bs, w) <=> WordBits * w + b \in S

LEMMA Sizes ==
  /\ ByteBits \in Nat \ {0} /\ WordBytes \in Nat \ {0} /\ WordBits \in Nat \ {0}
  /\ INLINE_WORDS \in Nat /\ MaxBit \in Nat /\ INLINE_BITS = WordBits * INLINE_WORDS
  /\ INLINE_BITS \in Nat
<1>1. /\ ByteBits \in Nat \ {0} /\ WordBytes \in Nat \ {0}
      /\ INLINE_WORDS \in Nat /\ MaxBit \in Nat
  BY BitSetAssumption
<1>2. WordBits \in Nat \ {0}
  BY <1>1 DEF WordBits
<1>3. INLINE_BITS = WordBits * INLINE_WORDS /\ INLINE_BITS \in Nat
  BY <1>1, <1>2 DEF INLINE_BITS
<1> QED BY <1>1, <1>2, <1>3

LEMMA Parts ==
  ASSUME NEW bs \in BitSets
  PROVE  /\ bs.inline \in [1..INLINE_WORDS -> SUBSET WordSet]
         /\ bs.overflow \in Seq(SUBSET WordSet) /\ bs.bit_count \in Nat
         /\ Len(bs.overflow) \in Nat
         /\ bs = Rebuilt(bs.inline, bs.overflow, bs.bit_count)
         /\ Room(bs) \in Nat
<1>1. /\ bs.inline \in [1..INLINE_WORDS -> SUBSET WordSet]
      /\ bs.overflow \in Seq(SUBSET WordSet) /\ bs.bit_count \in Nat
  BY DEF BitSets
<1>2. bs = Rebuilt(bs.inline, bs.overflow, bs.bit_count)
  BY DEF BitSets, Rebuilt
<1>3. Len(bs.overflow) \in Nat
  BY <1>1
<1> QED BY <1>1, <1>2, <1>3, Sizes DEF Room

LEMMA RebuiltIs ==
  ASSUME NEW i, NEW o, NEW n
  PROVE  /\ Rebuilt(i, o, n).inline = i /\ Rebuilt(i, o, n).overflow = o
         /\ Rebuilt(i, o, n).bit_count = n
         /\ (i \in [1..INLINE_WORDS -> SUBSET WordSet] /\ o \in Seq(SUBSET WordSet) /\ n \in Nat)
              => Rebuilt(i, o, n) \in BitSets
  BY DEF Rebuilt, BitSets

LEMMA WordIs ==
  ASSUME NEW bs \in BitSets, NEW w \in Nat
  PROVE  /\ Word(bs, w) \in SUBSET WordSet
         /\ w >= Room(bs) => Word(bs, w) = {}
<1>1. CASE w < INLINE_WORDS
  <2>1. w + 1 \in 1..INLINE_WORDS
    BY <1>1, Sizes
  <2>2. Word(bs, w) = bs.inline[w + 1]
    BY <1>1 DEF Word
  <2>3. ~(w >= Room(bs))
    BY <1>1, Sizes, Parts DEF Room
  <2>4. bs.inline \in [1..INLINE_WORDS -> SUBSET WordSet]
    BY Parts
  <2>5. bs.inline[w + 1] \in SUBSET WordSet
    BY <2>1, <2>4
  <2> QED BY <2>2, <2>3, <2>5
<1>2. CASE ~(w < INLINE_WORDS)
  <2>1. CASE w - INLINE_WORDS < Len(bs.overflow)
    <3>1. w - INLINE_WORDS + 1 \in 1..Len(bs.overflow)
      BY <1>2, <2>1, Sizes, Parts
    <3>2. Word(bs, w) = bs.overflow[w - INLINE_WORDS + 1]
      BY <1>2, <2>1 DEF Word
    <3>3. ~(w >= Room(bs))
      BY <1>2, <2>1, Sizes, Parts DEF Room
    <3>4. bs.overflow[w - INLINE_WORDS + 1] \in SUBSET WordSet
      BY <3>1, Parts
    <3> QED BY <3>2, <3>3, <3>4
  <2>2. CASE ~(w - INLINE_WORDS < Len(bs.overflow))
    <3>1. Word(bs, w) = {}
      BY <1>2, <2>2 DEF Word
    <3> QED BY <3>1
  <2> QED BY <2>1, <2>2
<1> QED BY <1>1, <1>2

\* What PutWord does to a word.
LEMMA PutWordIs ==
  ASSUME NEW bs \in BitSets, NEW w \in Nat, w < Room(bs), NEW word \in SUBSET WordSet
  PROVE  /\ PutWord(bs, w, word) \in BitSets
         /\ PutWord(bs, w, word).bit_count = bs.bit_count
         /\ \A v \in Nat : Word(PutWord(bs, w, word), v) = IF v = w THEN word ELSE Word(bs, v)
<1>1. CASE w < INLINE_WORDS
  <2> DEFINE inline == [bs.inline EXCEPT ![w + 1] = word]
  <2>1. PutWord(bs, w, word) = Rebuilt(inline, bs.overflow, bs.bit_count)
    <3>1. PutWord(bs, w, word) = [bs EXCEPT !.inline[w + 1] = word]
      BY <1>1 DEF PutWord
    <3> QED BY <3>1 DEF Rebuilt, BitSets
  <2>2. inline \in [1..INLINE_WORDS -> SUBSET WordSet]
    BY Parts
  <2>3. ASSUME NEW v \in Nat
        PROVE  Word(PutWord(bs, w, word), v) = IF v = w THEN word ELSE Word(bs, v)
    <3>1. CASE v < INLINE_WORDS
      <4>1. v + 1 \in 1..INLINE_WORDS /\ w + 1 \in 1..INLINE_WORDS
        BY <3>1, <1>1, Sizes
      <4>2. inline[v + 1] = IF v = w THEN word ELSE bs.inline[v + 1]
        <5>1. bs.inline \in [1..INLINE_WORDS -> SUBSET WordSet]
          BY Parts
        <5>2. v = w <=> v + 1 = w + 1
          OBVIOUS
        <5> QED BY <4>1, <5>1, <5>2
      <4> HIDE DEF inline
      <4> QED BY <2>1, <3>1, <4>2, RebuiltIs DEF Word
    <3>2. CASE ~(v < INLINE_WORDS)
      <4>1. v # w
        BY <3>2, <1>1
      <4> HIDE DEF inline
      <4> QED BY <2>1, <3>2, <4>1, RebuiltIs DEF Word
    <3> QED BY <3>1, <3>2
  <2> HIDE DEF inline
  <2>4. PutWord(bs, w, word) \in BitSets /\ PutWord(bs, w, word).bit_count = bs.bit_count
    BY <2>1, <2>2, RebuiltIs, Parts
  <2> QED BY <2>3, <2>4
<1>2. CASE ~(w < INLINE_WORDS)
  <2> DEFINE at == w - INLINE_WORDS + 1
             overflow == [bs.overflow EXCEPT ![at] = word]
  <2>0. at \in 1..Len(bs.overflow)
    BY <1>2, Sizes, Parts DEF Room
  <2>1. PutWord(bs, w, word) = Rebuilt(bs.inline, overflow, bs.bit_count)
    <3>1. w - INLINE_WORDS < Len(bs.overflow)
      BY <2>0, Sizes, Parts
    <3>2. PutWord(bs, w, word) = [bs EXCEPT !.overflow[at] = word]
      BY <1>2, <3>1 DEF PutWord
    <3> QED BY <3>2 DEF Rebuilt, BitSets
  <2>2. overflow \in Seq(SUBSET WordSet) /\ Len(overflow) = Len(bs.overflow)
    BY <2>0, Parts
  <2>3. ASSUME NEW v \in Nat
        PROVE  Word(PutWord(bs, w, word), v) = IF v = w THEN word ELSE Word(bs, v)
    <3>1. CASE v < INLINE_WORDS
      <4>1. v # w
        BY <3>1, <1>2
      <4> HIDE DEF overflow
      <4> QED BY <2>1, <3>1, <4>1, RebuiltIs DEF Word
    <3>2. CASE ~(v < INLINE_WORDS) /\ v - INLINE_WORDS < Len(bs.overflow)
      <4>1. v - INLINE_WORDS + 1 \in 1..Len(bs.overflow)
        BY <3>2, Sizes, Parts
      <4>2. v = w <=> v - INLINE_WORDS + 1 = at
        BY Sizes
      <4>3. overflow[v - INLINE_WORDS + 1] = IF v = w THEN word ELSE bs.overflow[v - INLINE_WORDS + 1]
        BY <2>0, <4>1, <4>2, Parts
      <4> HIDE DEF overflow
      <4> QED BY <2>1, <2>2, <3>2, <4>3, RebuiltIs DEF Word
    <3>3. CASE ~(v < INLINE_WORDS) /\ ~(v - INLINE_WORDS < Len(bs.overflow))
      <4>1. v # w
        BY <2>0, <3>3, Sizes, Parts
      <4> HIDE DEF overflow
      <4> QED BY <2>1, <2>2, <3>3, <4>1, RebuiltIs DEF Word
    <3> QED BY <3>1, <3>2, <3>3
  <2> HIDE DEF overflow
  <2>4. PutWord(bs, w, word) \in BitSets /\ PutWord(bs, w, word).bit_count = bs.bit_count
    BY <2>1, <2>2, RebuiltIs, Parts
  <2> QED BY <2>3, <2>4
<1> QED BY <1>1, <1>2

LEMMA SeqOf ==
  ASSUME NEW n \in Nat, NEW S, NEW f \in [1..n -> S]
  PROVE  f \in Seq(S) /\ Len(f) = n
  OBVIOUS

\* What PutWords does.
LEMMA PutWordsIs ==
  ASSUME NEW bs \in BitSets, NEW ws \in Seq(SUBSET WordSet)
  PROVE  /\ PutWords(bs, ws) \in BitSets
         /\ PutWords(bs, ws).bit_count = bs.bit_count
         /\ \A v \in Nat : Word(PutWords(bs, ws), v) =
              IF v < Len(ws) /\ v < Room(bs) THEN ws[v + 1] ELSE Word(bs, v)
<1> DEFINE n == Len(bs.overflow)
           inline == [i \in 1..INLINE_WORDS |-> IF i <= Len(ws) THEN ws[i] ELSE bs.inline[i]]
           overflow == [i \in 1..n |->
                          IF INLINE_WORDS + i <= Len(ws) THEN ws[INLINE_WORDS + i]
                          ELSE bs.overflow[i]]
<1>0. /\ bs.inline \in [1..INLINE_WORDS -> SUBSET WordSet]
      /\ bs.overflow \in Seq(SUBSET WordSet) /\ bs.bit_count \in Nat /\ n \in Nat
      /\ Len(ws) \in Nat /\ INLINE_WORDS \in Nat /\ Room(bs) = INLINE_WORDS + n
  BY Parts, Sizes DEF Room
<1>1. PutWords(bs, ws) = Rebuilt(inline, overflow, bs.bit_count)
  <2>1. PutWords(bs, ws) = [bs EXCEPT !.inline = inline, !.overflow = overflow]
    BY Zenon DEF PutWords
  <2> HIDE DEF inline, overflow
  <2> QED BY <2>1 DEF Rebuilt, BitSets
<1>2. inline \in [1..INLINE_WORDS -> SUBSET WordSet]
  <2>1. ASSUME NEW i \in 1..INLINE_WORDS
        PROVE  (IF i <= Len(ws) THEN ws[i] ELSE bs.inline[i]) \in SUBSET WordSet
    <3>1. CASE i <= Len(ws)
      <4>1. ws[i] \in SUBSET WordSet
        BY <3>1, <1>0
      <4> QED BY <3>1, <4>1
    <3>2. CASE ~(i <= Len(ws))
      <4>1. bs.inline[i] \in SUBSET WordSet
        BY <1>0
      <4> QED BY <3>2, <4>1
    <3> QED BY <3>1, <3>2
  <2> QED BY <2>1
<1>3. overflow \in Seq(SUBSET WordSet) /\ Len(overflow) = n
  <2>1. ASSUME NEW i \in 1..n
        PROVE  (IF INLINE_WORDS + i <= Len(ws) THEN ws[INLINE_WORDS + i] ELSE bs.overflow[i])
                 \in SUBSET WordSet
    <3>1. CASE INLINE_WORDS + i <= Len(ws)
      <4>1. ws[INLINE_WORDS + i] \in SUBSET WordSet
        BY <3>1, <1>0
      <4> QED BY <3>1, <4>1
    <3>2. CASE ~(INLINE_WORDS + i <= Len(ws))
      <4>1. bs.overflow[i] \in SUBSET WordSet
        BY <1>0
      <4> QED BY <3>2, <4>1
    <3> QED BY <3>1, <3>2
  <2>2. overflow \in [1..n -> SUBSET WordSet]
    BY <2>1
  <2> HIDE DEF overflow
  <2> QED BY <2>2, <1>0, SeqOf
<1>4. ASSUME NEW v \in Nat
      PROVE  Word(PutWords(bs, ws), v) =
               IF v < Len(ws) /\ v < Room(bs) THEN ws[v + 1] ELSE Word(bs, v)
  <2>1. CASE v < INLINE_WORDS
    <3>1. v + 1 \in 1..INLINE_WORDS /\ v < Room(bs) /\ (v + 1 <= Len(ws) <=> v < Len(ws))
      BY <2>1, <1>0
    <3>2. inline[v + 1] = IF v < Len(ws) THEN ws[v + 1] ELSE bs.inline[v + 1]
      BY <3>1
    <3> HIDE DEF inline, overflow
    <3>3. Word(PutWords(bs, ws), v) = inline[v + 1] /\ Word(bs, v) = bs.inline[v + 1]
      BY <1>1, <2>1, RebuiltIs DEF Word
    <3> QED BY <3>1, <3>2, <3>3
  <2>2. CASE ~(v < INLINE_WORDS) /\ v - INLINE_WORDS < n
    <3> DEFINE at == v - INLINE_WORDS + 1
    <3>1. at \in 1..n /\ v < Room(bs) /\ INLINE_WORDS + at = v + 1
      BY <2>2, <1>0
    <3>2. overflow[at] = IF v < Len(ws) THEN ws[v + 1] ELSE bs.overflow[at]
      <4>1. INLINE_WORDS + at <= Len(ws) <=> v < Len(ws)
        BY <3>1, <1>0
      <4> HIDE DEF at
      <4> QED BY <3>1, <4>1
    <3> HIDE DEF inline, overflow
    <3>3. Word(PutWords(bs, ws), v) = overflow[at] /\ Word(bs, v) = bs.overflow[at]
      BY <1>1, <1>3, <2>2, RebuiltIs DEF Word
    <3> QED BY <3>1, <3>2, <3>3
  <2>3. CASE ~(v < INLINE_WORDS) /\ ~(v - INLINE_WORDS < n)
    <3>1. ~(v < Room(bs))
      BY <2>3, <1>0
    <3> HIDE DEF inline, overflow
    <3>2. Word(PutWords(bs, ws), v) = {} /\ Word(bs, v) = {}
      BY <1>1, <1>3, <2>3, RebuiltIs DEF Word
    <3> QED BY <3>1, <3>2
  <2> QED BY <2>1, <2>2, <2>3
<1> HIDE DEF inline, overflow
<1>5. PutWords(bs, ws) \in BitSets /\ PutWords(bs, ws).bit_count = bs.bit_count
  BY <1>0, <1>1, <1>2, <1>3, RebuiltIs
<1> QED BY <1>4, <1>5

LEMMA ZerosAre ==
  ASSUME NEW n \in Nat
  PROVE  /\ Zeros(n) \in [1..n -> SUBSET WordSet] /\ Zeros(n) \in Seq(SUBSET WordSet)
         /\ Len(Zeros(n)) = n /\ \A i \in 1..n : Zeros(n)[i] = {}
<1>1. Zeros(n) \in [1..n -> SUBSET WordSet] /\ \A i \in 1..n : Zeros(n)[i] = {}
  BY DEF Zeros
<1> QED BY <1>1

\* A bit set of zeros.
LEMMA Zeroed ==
  ASSUME NEW k \in Nat, NEW n \in Nat
  PROVE  Stands(Rebuilt(Zeros(INLINE_WORDS), Zeros(k), n), {})
<1> DEFINE bs == Rebuilt(Zeros(INLINE_WORDS), Zeros(k), n)
<1>1. bs \in BitSets
  BY RebuiltIs, ZerosAre, Sizes
<1>2. ASSUME NEW w \in Nat
      PROVE  Word(bs, w) = {}
  <2>1. CASE w < INLINE_WORDS
    <3>1. w + 1 \in 1..INLINE_WORDS
      BY <2>1, Sizes
    <3>2. Word(bs, w) = Zeros(INLINE_WORDS)[w + 1]
      BY <2>1, RebuiltIs DEF Word
    <3> QED BY <3>1, <3>2, ZerosAre, Sizes
  <2>2. CASE ~(w < INLINE_WORDS) /\ w - INLINE_WORDS < k
    <3>1. w - INLINE_WORDS + 1 \in 1..k
      BY <2>2, Sizes
    <3>2. Word(bs, w) = Zeros(k)[w - INLINE_WORDS + 1]
      BY <2>2, RebuiltIs, ZerosAre DEF Word
    <3> QED BY <3>1, <3>2, ZerosAre
  <2>3. CASE ~(w < INLINE_WORDS) /\ ~(w - INLINE_WORDS < k)
    BY <2>3, RebuiltIs, ZerosAre DEF Word
  <2> QED BY <2>1, <2>2, <2>3
<1> HIDE DEF bs
<1>3. bs \in BitSets /\ \A w \in Nat : Word(bs, w) = {}
  BY <1>1, <1>2
<1> QED BY <1>3 DEF Stands, bs

\* A new bit set has room for the bits it was made for.
LEMMA Capacity ==
  ASSUME NEW n \in Nat
  PROVE  /\ Stands(with_capacity(n), {}) /\ with_capacity(n).bit_count = n
         /\ \A w \in Nat : WordBits * w < n => w < Room(with_capacity(n))
<1> DEFINE k == IF n > INLINE_BITS THEN DivCeil(n - INLINE_BITS, WordBits) ELSE 0
<1>1. k \in Nat
  <2>1. CASE n > INLINE_BITS
    <3>1. n - INLINE_BITS \in Nat
      BY <2>1, Sizes
    <3> QED BY <2>1, <3>1, Covered, Sizes
  <2>2. CASE ~(n > INLINE_BITS)
    BY <2>2
  <2> QED BY <2>1, <2>2
<1>2. Zeros(0) = << >>
  BY DEF Zeros
<1>3. with_capacity(n) = Rebuilt(Zeros(INLINE_WORDS), Zeros(k), n)
  <2>1. with_capacity(n) = [new EXCEPT !.bit_count = n, !.overflow = Zeros(k)]
    <3>1. Zeros(k) = IF n > INLINE_BITS THEN Zeros(DivCeil(n - INLINE_BITS, WordBits)) ELSE << >>
      BY <1>2
    <3> HIDE DEF k
    <3> QED BY <3>1, Zenon DEF with_capacity
  <2> HIDE DEF k
  <2> QED BY <2>1 DEF new, Rebuilt
<1>4. Room(with_capacity(n)) = INLINE_WORDS + k
  <2> HIDE DEF k
  <2> QED BY <1>1, <1>3, RebuiltIs, ZerosAre DEF Room
<1>5. ASSUME NEW w \in Nat, WordBits * w < n
      PROVE  w < Room(with_capacity(n))
  <2>1. CASE w < INLINE_WORDS
    <3> HIDE DEF k
    <3> QED BY <1>1, <1>4, <2>1, Sizes
  <2>2. CASE ~(w < INLINE_WORDS)
    <3>1. w - INLINE_WORDS \in Nat
      BY <2>2, Sizes
    <3>2. WordBits * w = WordBits * INLINE_WORDS + WordBits * (w - INLINE_WORDS)
      BY Sizes
    <3>3. WordBits * (w - INLINE_WORDS) \in Nat
      BY <3>1, Sizes
    <3>4. n > INLINE_BITS /\ WordBits * (w - INLINE_WORDS) < n - INLINE_BITS
      BY <1>5, <3>2, <3>3, Sizes
    <3>5. n - INLINE_BITS \in Nat
      BY <3>4, Sizes
    <3>6. w - INLINE_WORDS < DivCeil(n - INLINE_BITS, WordBits)
      BY <3>1, <3>4, <3>5, Covered, Sizes
    <3>7. k = DivCeil(n - INLINE_BITS, WordBits)
      BY <3>4
    <3> HIDE DEF k
    <3> QED BY <1>1, <1>4, <3>6, <3>7, Sizes
  <2> QED BY <2>1, <2>2
<1> HIDE DEF k
<1>6. with_capacity(n).bit_count = n
  BY <1>3, RebuiltIs
<1>7. Stands(with_capacity(n), {})
  BY <1>1, <1>3, Zeroed
<1> QED BY <1>5, <1>6, <1>7

LEMMA NewStands == Stands(new, {})
<1>1. Zeros(0) = << >>
  BY DEF Zeros
<1>2. new = Rebuilt(Zeros(INLINE_WORDS), Zeros(0), 0)
  BY <1>1 DEF new, Rebuilt
<1> QED BY <1>2, Zeroed

----------------------------------------------------------------------------
(* The operations.                                                         *)

\* The word and the place of a bit.
LEMMA Place ==
  ASSUME NEW i \in Nat
  PROVE  /\ i \div WordBits \in Nat /\ i % WordBits \in WordSet
         /\ i = WordBits * (i \div WordBits) + (i % WordBits)
  BY Divided, Sizes DEF WordSet

LEMMA OnePlace ==
  ASSUME NEW i \in Nat, NEW v \in Nat, NEW b \in WordSet
  PROVE  WordBits * v + b = i <=> v = i \div WordBits /\ b = i % WordBits
<1> DEFINE w == i \div WordBits
           r == i % WordBits
<1>1. w \in Nat /\ r \in WordSet /\ i = WordBits * w + r
  BY Place
<1> HIDE DEF w, r
<1>2. ASSUME WordBits * v + b = i
      PROVE  v = w /\ b = r
  BY <1>1, <1>2, DividedOnce, Sizes DEF WordSet
<1> QED BY <1>1, <1>2 DEF w, r

LEMMA SetHas ==
  ASSUME NEW bs, NEW S, Stands(bs, S), NEW i \in Nat
  PROVE  is_set(bs, i) <=> i \in S
<1> DEFINE w == i \div WordBits
           r == i % WordBits
<1>1. w \in Nat /\ r \in WordSet /\ i = WordBits * w + r
  BY Place
<1>2. r \in Word(bs, w) <=> WordBits * w + r \in S
  BY <1>1 DEF Stands
<1> QED BY <1>1, <1>2 DEF is_set

\* Where there is no room PutWord does nothing.
LEMMA NoRoom ==
  ASSUME NEW bs \in BitSets, NEW w \in Nat, ~(w < Room(bs)), NEW word
  PROVE  PutWord(bs, w, word) = bs
<1>1. ~(w < INLINE_WORDS) /\ ~(w - INLINE_WORDS < Len(bs.overflow))
  BY Sizes, Parts DEF Room
<1> QED BY <1>1 DEF PutWord

LEMMA Resized ==
  ASSUME NEW ws \in Seq(SUBSET WordSet), NEW n \in Nat
  PROVE  /\ Resize(ws, n) \in Seq(SUBSET WordSet) /\ Len(Resize(ws, n)) = n
         /\ \A i \in 1..n : Resize(ws, n)[i] = IF i <= Len(ws) THEN ws[i] ELSE {}
<1>1. ASSUME NEW i \in 1..n
      PROVE  (IF i <= Len(ws) THEN ws[i] ELSE {}) \in SUBSET WordSet
  <2>1. CASE i <= Len(ws)
    <3>1. ws[i] \in SUBSET WordSet
      BY <2>1
    <3> QED BY <2>1, <3>1
  <2>2. CASE ~(i <= Len(ws))
    BY <2>2
  <2> QED BY <2>1, <2>2
<1>2. Resize(ws, n) \in [1..n -> SUBSET WordSet]
  BY <1>1 DEF Resize
<1>3. \A i \in 1..n : Resize(ws, n)[i] = IF i <= Len(ws) THEN ws[i] ELSE {}
  BY DEF Resize
<1> QED BY <1>2, <1>3, SeqOf

\* Growing changes no word and makes room.
LEMMA GrownIs ==
  ASSUME NEW bs \in BitSets, NEW i \in Nat
  PROVE  /\ Grown(bs, i) \in BitSets /\ i \div WordBits < Room(Grown(bs, i))
         /\ \A v \in Nat : Word(Grown(bs, i), v) = Word(bs, v)
         /\ Grown(bs, i).bit_count \in Nat /\ i < Grown(bs, i).bit_count
         /\ bs.bit_count <= Grown(bs, i).bit_count
<1> DEFINE w == i \div WordBits
           n == Len(bs.overflow)
           overflow == IF w - INLINE_WORDS >= n THEN Resize(bs.overflow, w - INLINE_WORDS + 1)
                       ELSE bs.overflow
           count == Larger(bs.bit_count, i + 1)
<1>0. /\ w \in Nat /\ n \in Nat /\ bs.overflow \in Seq(SUBSET WordSet)
      /\ bs.inline \in [1..INLINE_WORDS -> SUBSET WordSet] /\ bs.bit_count \in Nat
      /\ INLINE_WORDS \in Nat
  BY Place, Parts, Sizes
<1>1. Grown(bs, i) = Rebuilt(bs.inline, overflow, count)
  <2>1. Grown(bs, i) = [bs EXCEPT !.overflow = overflow, !.bit_count = count]
    BY Zenon DEF Grown
  <2> HIDE DEF overflow, count
  <2> QED BY <2>1 DEF Rebuilt, BitSets
<1>2. count \in Nat /\ i < count /\ bs.bit_count <= count
  BY <1>0 DEF Larger
<1> HIDE DEF w, count
<1>3. /\ overflow \in Seq(SUBSET WordSet) /\ Len(overflow) \in Nat
      /\ w < INLINE_WORDS + Len(overflow) /\ n <= Len(overflow)
      /\ \A k \in 1..Len(overflow) : overflow[k] = IF k <= n THEN bs.overflow[k] ELSE {}
  <2>1. CASE w - INLINE_WORDS >= n
    <3>1. w - INLINE_WORDS + 1 \in Nat
      BY <2>1, <1>0
    <3>2. overflow = Resize(bs.overflow, w - INLINE_WORDS + 1)
      BY <2>1
    <3>3. /\ overflow \in Seq(SUBSET WordSet) /\ Len(overflow) = w - INLINE_WORDS + 1
          /\ \A k \in 1..Len(overflow) : overflow[k] = IF k <= n THEN bs.overflow[k] ELSE {}
      BY <1>0, <3>1, <3>2, Resized
    <3> HIDE DEF overflow
    <3> QED BY <1>0, <2>1, <3>1, <3>3
  <2>2. CASE ~(w - INLINE_WORDS >= n)
    <3>1. overflow = bs.overflow
      BY <2>2
    <3> HIDE DEF overflow
    <3> QED BY <1>0, <2>2, <3>1
  <2> QED BY <2>1, <2>2
<1> HIDE DEF overflow
<1>4. ASSUME NEW v \in Nat
      PROVE  Word(Grown(bs, i), v) = Word(bs, v)
  <2>1. CASE v < INLINE_WORDS
    BY <1>1, <2>1, RebuiltIs DEF Word
  <2>2. CASE ~(v < INLINE_WORDS) /\ v - INLINE_WORDS < n
    <3>1. /\ v - INLINE_WORDS < Len(overflow) /\ v - INLINE_WORDS + 1 \in 1..Len(overflow)
          /\ v - INLINE_WORDS + 1 <= n
      BY <1>0, <1>3, <2>2
    <3>2. overflow[v - INLINE_WORDS + 1] = bs.overflow[v - INLINE_WORDS + 1]
      BY <1>3, <3>1
    <3> QED BY <1>1, <2>2, <3>1, <3>2, RebuiltIs DEF Word
  <2>3. CASE ~(v < INLINE_WORDS) /\ ~(v - INLINE_WORDS < n)
    <3>1. Word(bs, v) = {}
      BY <2>3 DEF Word
    <3>2. CASE v - INLINE_WORDS < Len(overflow)
      <4>1. v - INLINE_WORDS + 1 \in 1..Len(overflow) /\ ~(v - INLINE_WORDS + 1 <= n)
        BY <1>0, <1>3, <2>3, <3>2
      <4>2. overflow[v - INLINE_WORDS + 1] = {}
        BY <1>3, <4>1
      <4> QED BY <1>1, <2>3, <3>1, <3>2, <4>2, RebuiltIs DEF Word
    <3>3. CASE ~(v - INLINE_WORDS < Len(overflow))
      BY <1>1, <2>3, <3>1, <3>3, RebuiltIs DEF Word
    <3> QED BY <3>2, <3>3
  <2> QED BY <2>1, <2>2, <2>3
<1>5. Grown(bs, i) \in BitSets /\ Grown(bs, i).bit_count = count
  BY <1>0, <1>1, <1>2, <1>3, RebuiltIs
<1>6. i \div WordBits < Room(Grown(bs, i))
  BY <1>1, <1>3, RebuiltIs DEF Room, w
<1> QED BY <1>2, <1>4, <1>5, <1>6

LEMMA GrownStands ==
  ASSUME NEW bs, NEW S, Stands(bs, S), NEW i \in Nat
  PROVE  Stands(Grown(bs, i), S)
<1>1. bs \in BitSets /\ S \in SUBSET (0..(bs.bit_count - 1)) /\ bs.bit_count \in Nat
  BY Parts DEF Stands
<1>2. S \in SUBSET (0..(Grown(bs, i).bit_count - 1))
  <2>1. bs.bit_count <= Grown(bs, i).bit_count /\ Grown(bs, i).bit_count \in Nat
    BY <1>1, GrownIs
  <2>2. 0..(bs.bit_count - 1) \subseteq 0..(Grown(bs, i).bit_count - 1)
    BY <1>1, <2>1
  <2> QED BY <1>1, <2>2
<1> QED BY <1>1, <1>2, GrownIs DEF Stands

LEMMA SetStands ==
  ASSUME NEW bs, NEW S, Stands(bs, S), NEW i \in Nat
  PROVE  Stands(set(bs, i), S \cup {i})
<1> DEFINE w == i \div WordBits
           r == i % WordBits
           g == Grown(bs, i)
           word == Word(bs, w) \cup {r}
<1>1. w \in Nat /\ r \in WordSet /\ i = WordBits * w + r
  BY Place
<1>2. bs \in BitSets
  BY DEF Stands
<1>3. Stands(g, S) /\ g \in BitSets /\ w < Room(g) /\ i < g.bit_count /\ g.bit_count \in Nat
  BY <1>2, GrownStands, GrownIs
<1>4. word \in SUBSET WordSet /\ Word(g, w) = Word(bs, w)
  BY <1>1, <1>2, WordIs, GrownIs
<1>5. set(bs, i) = PutWord(g, w, word)
  BY <1>4 DEF set
<1> HIDE DEF g, w, r
<1>6. /\ set(bs, i) \in BitSets /\ set(bs, i).bit_count = g.bit_count
      /\ \A v \in Nat : Word(set(bs, i), v) = IF v = w THEN word ELSE Word(g, v)
  BY <1>1, <1>3, <1>4, <1>5, PutWordIs
<1>7. S \cup {i} \in SUBSET (0..(set(bs, i).bit_count - 1))
  BY <1>3, <1>6 DEF Stands
<1>8. ASSUME NEW v \in Nat, NEW b \in WordSet
      PROVE  b \in Word(set(bs, i), v) <=> WordBits * v + b \in S \cup {i}
  <2>1. WordBits * v + b = i <=> v = w /\ b = r
    BY OnePlace DEF w, r
  <2>2. b \in Word(g, v) <=> WordBits * v + b \in S
    BY <1>3 DEF Stands
  <2> QED BY <1>4, <1>6, <2>1, <2>2
<1> QED BY <1>6, <1>7, <1>8 DEF Stands

LEMMA ClearStands ==
  ASSUME NEW bs, NEW S, Stands(bs, S), NEW i \in Nat
  PROVE  Stands(clear_bit(bs, i), S \ {i})
<1> DEFINE w == i \div WordBits
           r == i % WordBits
           word == Word(bs, w) \ {r}
           c == clear_bit(bs, i)
<1>1. w \in Nat /\ r \in WordSet
  BY Place
<1>2. bs \in BitSets /\ bs.bit_count \in Nat /\ S \in SUBSET (0..(bs.bit_count - 1))
  BY Parts DEF Stands
<1>3. word \in SUBSET WordSet
  BY <1>1, <1>2, WordIs
<1>4. c = PutWord(bs, w, word)
  BY DEF clear_bit
<1> HIDE DEF w, r, c
<1>5. /\ c \in BitSets /\ c.bit_count = bs.bit_count
      /\ \A v \in Nat : Word(c, v) = IF v = w THEN word ELSE Word(bs, v)
  <2>1. CASE w < Room(bs)
    BY <1>1, <1>2, <1>3, <1>4, <2>1, PutWordIs
  <2>2. CASE ~(w < Room(bs))
    <3>1. c = bs
      BY <1>1, <1>2, <1>4, <2>2, NoRoom
    <3>2. Word(bs, w) = {}
      BY <1>1, <1>2, <2>2, WordIs, Parts
    <3> QED BY <1>2, <3>1, <3>2
  <2> QED BY <2>1, <2>2
<1>6. ASSUME NEW v \in Nat, NEW b \in WordSet
      PROVE  b \in Word(c, v) <=> WordBits * v + b \in S \ {i}
  <2>1. WordBits * v + b = i <=> v = w /\ b = r
    BY OnePlace DEF w, r
  <2>2. b \in Word(bs, v) <=> WordBits * v + b \in S
    BY DEF Stands
  <2> QED BY <1>5, <2>1, <2>2
<1>7. S \ {i} \in SUBSET (0..(c.bit_count - 1))
  BY <1>2, <1>5
<1>8. Stands(c, S \ {i})
  BY <1>5, <1>6, <1>7 DEF Stands
<1> QED BY <1>8 DEF c

LEMMA ToggleStands ==
  ASSUME NEW bs, NEW S, Stands(bs, S), NEW i \in Nat
  PROVE  Stands(toggle(bs, i), (S \ {i}) \cup ({i} \ S))
<1>1. Stands(Grown(bs, i), S)
  BY GrownStands
<1>2. CASE i \in S
  <2>1. toggle(bs, i) = clear_bit(Grown(bs, i), i)
    BY <1>2, SetHas DEF toggle
  <2>2. (S \ {i}) \cup ({i} \ S) = S \ {i}
    BY <1>2
  <2> QED BY <1>1, <2>1, <2>2, ClearStands
<1>3. CASE i \notin S
  <2>1. toggle(bs, i) = set(Grown(bs, i), i)
    BY <1>3, SetHas DEF toggle
  <2>2. (S \ {i}) \cup ({i} \ S) = S \cup {i}
    BY <1>3
  <2> QED BY <1>1, <2>1, <2>2, SetStands
<1> QED BY <1>2, <1>3

LEMMA ClearAllStands ==
  ASSUME NEW bs \in BitSets
  PROVE  Stands(clear_all(bs), {})
<1>1. clear_all(bs) = Rebuilt(Zeros(INLINE_WORDS), Zeros(Len(bs.overflow)), bs.bit_count)
  <2> DEFINE z == Zeros(INLINE_WORDS)
             o == Zeros(Len(bs.overflow))
  <2>1. clear_all(bs) = [bs EXCEPT !.inline = z, !.overflow = o]
    BY Zenon DEF clear_all
  <2> HIDE DEF z, o
  <2>2. clear_all(bs) = Rebuilt(z, o, bs.bit_count)
    BY <2>1 DEF Rebuilt, BitSets
  <2> QED BY <2>2 DEF z, o
<1> QED BY <1>1, Zeroed, Parts

\* A bit set made from words.
LEMMA Filled ==
  ASSUME NEW n \in Nat, NEW ws \in Seq(SUBSET WordSet), NEW S \in SUBSET (0..(n - 1)),
         \A v \in Nat : v < Len(ws) => WordBits * v < n,
         \A v \in Nat : v < Len(ws) =>
           \A b \in WordSet : b \in ws[v + 1] <=> WordBits * v + b \in S,
         \A v \in Nat : ~(v < Len(ws)) => \A b \in WordSet : WordBits * v + b \notin S
  PROVE  Stands(PutWords(with_capacity(n), ws), S)
<1> DEFINE c == with_capacity(n)
           f == PutWords(c, ws)
<1>1. /\ c \in BitSets /\ c.bit_count = n
      /\ \A v \in Nat : Word(c, v) = {}
      /\ \A v \in Nat : WordBits * v < n => v < Room(c)
  <2>1. Stands(c, {}) /\ c.bit_count = n /\ \A v \in Nat : WordBits * v < n => v < Room(c)
    BY Capacity
  <2>2. c \in BitSets
    BY <2>1 DEF Stands
  <2>3. ASSUME NEW v \in Nat
        PROVE  Word(c, v) = {}
    <3>1. Word(c, v) \in SUBSET WordSet
      BY <2>2, WordIs
    <3>2. \A b \in WordSet : b \notin Word(c, v)
      BY <2>1 DEF Stands
    <3> QED BY <3>1, <3>2
  <2> QED BY <2>1, <2>2, <2>3
<1> HIDE DEF c
<1>2. /\ f \in BitSets /\ f.bit_count = n
      /\ \A v \in Nat : Word(f, v) = IF v < Len(ws) /\ v < Room(c) THEN ws[v + 1] ELSE Word(c, v)
  BY <1>1, PutWordsIs
<1> HIDE DEF f
<1>3. ASSUME NEW v \in Nat, NEW b \in WordSet
      PROVE  b \in Word(f, v) <=> WordBits * v + b \in S
  <2>1. CASE v < Len(ws)
    <3>1. v < Room(c)
      BY <1>1, <2>1
    <3>2. Word(f, v) = ws[v + 1]
      BY <1>2, <2>1, <3>1
    <3> QED BY <2>1, <3>2
  <2>2. CASE ~(v < Len(ws))
    <3>1. Word(f, v) = {}
      BY <1>1, <1>2, <2>2
    <3> QED BY <2>2, <3>1
  <2> QED BY <2>1, <2>2
<1>4. Stands(f, S)
  BY <1>2, <1>3 DEF Stands
<1> QED BY <1>4 DEF f, c

LEMMA AllSetStands ==
  ASSUME NEW n \in Nat
  PROVE  Stands(all_set(n), 0..(n - 1))
<1> DEFINE q == n \div WordBits
           r == n % WordBits
           m == IF r > 0 THEN q + 1 ELSE q
           ws == [w \in 1..m |-> IF w <= q THEN 0..(WordBits - 1) ELSE 0..(r - 1)]
<1>1. q \in Nat /\ r \in 0..(WordBits - 1) /\ n = WordBits * q + r /\ WordBits \in Nat \ {0}
  BY Place, Sizes DEF WordSet
<1>2. all_set(n) = PutWords(with_capacity(n), ws)
  BY DEF all_set
<1> HIDE DEF q, r
<1>3. m \in Nat
  BY <1>1
<1>4. WordBits * q \in Nat
  BY <1>1
<1>5. ws \in Seq(SUBSET WordSet) /\ Len(ws) = m
  <2>1. ASSUME NEW w \in 1..m
        PROVE  (IF w <= q THEN 0..(WordBits - 1) ELSE 0..(r - 1)) \in SUBSET WordSet
    BY <1>1 DEF WordSet
  <2>2. ws \in [1..m -> SUBSET WordSet]
    BY <2>1
  <2> HIDE DEF ws, m
  <2> QED BY <1>3, <2>2, SeqOf
<1>6. ASSUME NEW v \in Nat, v < m
      PROVE  /\ WordBits * v < n
             /\ \A b \in WordSet : b \in ws[v + 1] <=> WordBits * v + b \in 0..(n - 1)
  <2>1. v + 1 \in 1..m
    BY <1>3, <1>6
  <2>2. ws[v + 1] = IF v + 1 <= q THEN 0..(WordBits - 1) ELSE 0..(r - 1)
    BY <2>1
  <2>3. WordBits * v \in Nat
    BY <1>1
  <2>4. CASE v < q
    <3>1. WordBits * v + WordBits <= WordBits * q
      BY <1>1, <2>4, Ahead
    <3>2. ws[v + 1] = 0..(WordBits - 1)
      BY <1>1, <2>2, <2>4
    <3> HIDE DEF ws, m
    <3> QED BY <1>1, <1>4, <2>3, <3>1, <3>2 DEF WordSet
  <2>5. CASE ~(v < q)
    <3>1. v = q /\ r > 0
      BY <1>1, <1>6, <2>5
    <3>2. ws[v + 1] = 0..(r - 1)
      BY <1>1, <2>2, <2>5
    <3> HIDE DEF ws, m
    <3> QED BY <1>1, <1>4, <3>1, <3>2 DEF WordSet
  <2> QED BY <2>4, <2>5
<1>7. ASSUME NEW v \in Nat, ~(v < m), NEW b \in WordSet
      PROVE  WordBits * v + b \notin 0..(n - 1)
  <2>1. WordBits * v \in Nat /\ b \in Nat
    BY <1>1 DEF WordSet
  <2>2. CASE v = q
    <3>1. r = 0
      BY <1>1, <1>7, <2>2
    <3> HIDE DEF ws, m
    <3> QED BY <1>1, <1>4, <2>1, <2>2, <3>1
  <2>3. CASE v # q
    <3>1. q < v
      BY <1>1, <1>7, <2>3
    <3>2. WordBits * q + WordBits <= WordBits * v
      BY <1>1, <3>1, Ahead
    <3> HIDE DEF ws, m
    <3> QED BY <1>1, <1>4, <2>1, <3>2
  <2> QED BY <2>2, <2>3
<1> HIDE DEF ws, m
<1>8. Stands(PutWords(with_capacity(n), ws), 0..(n - 1))
  BY <1>5, <1>6, <1>7, Filled
<1> QED BY <1>2, <1>8

LEMMA FromBitsStands ==
  ASSUME NEW k \in Nat, NEW S \in SUBSET (0..k)
  PROVE  Stands(from_bits(S), S)
<1>1. CASE S = {}
  BY <1>1, NewStands DEF from_bits
<1>2. CASE S # {}
  <2> DEFINE max == CHOOSE x \in S : \A b \in S : b <= x
             q == max \div WordBits
             ws == [w \in 1..(q + 1) |-> { b \in 0..(WordBits - 1) : WordBits * (w - 1) + b \in S }]
  <2>1. max \in S /\ \A b \in S : b <= max
    BY <1>2, Largest
  <2>2. from_bits(S) = PutWords(with_capacity(max + 1), ws)
    BY <1>2 DEF from_bits
  <2> HIDE DEF max
  <2>3. max \in Nat /\ q \in Nat /\ max % WordBits \in WordSet
        /\ max = WordBits * q + (max % WordBits)
    <3>1. max \in Nat
      BY <2>1
    <3> QED BY <3>1, Place
  <2> HIDE DEF q
  <2>4. ws \in Seq(SUBSET WordSet) /\ Len(ws) = q + 1
    <3>1. ws \in [1..(q + 1) -> SUBSET WordSet]
      BY DEF WordSet
    <3> HIDE DEF ws
    <3> QED BY <2>3, <3>1, SeqOf
  <2>5. S \in SUBSET (0..((max + 1) - 1))
    BY <2>1, <2>3
  <2>6. WordBits * q \in Nat /\ WordBits \in Nat \ {0} /\ max % WordBits \in Nat
        /\ max % WordBits < WordBits
    BY <2>3, Sizes DEF WordSet
  <2>7. ASSUME NEW v \in Nat, v < q + 1
        PROVE  /\ WordBits * v < max + 1
               /\ \A b \in WordSet : b \in ws[v + 1] <=> WordBits * v + b \in S
    <3>1. WordBits * v <= WordBits * q /\ WordBits * v \in Nat
      <4>1. CASE v = q
        BY <2>6, <4>1
      <4>2. CASE v < q
        BY <2>3, <2>6, <4>2, Ahead
      <4> QED BY <2>3, <2>7, <4>1, <4>2
    <3>2. WordBits * v < max + 1
      <4> DEFINE r == max % WordBits
      <4> HIDE DEF r
      <4>1. r \in Nat /\ max = WordBits * q + r
        BY <2>3, <2>6 DEF r
      <4> QED BY <2>6, <3>1, <4>1
    <3>3. v + 1 \in 1..(q + 1) /\ (v + 1) - 1 = v
      BY <2>3, <2>7
    <3>4. ws[v + 1] = { b \in 0..(WordBits - 1) : WordBits * v + b \in S }
      BY <3>3
    <3> QED BY <3>2, <3>4 DEF WordSet
  <2>8. ASSUME NEW v \in Nat, ~(v < q + 1), NEW b \in WordSet
        PROVE  WordBits * v + b \notin S
    <3>1. WordBits * q + WordBits <= WordBits * v
      BY <2>3, <2>6, <2>8, Ahead
    <3> DEFINE r == max % WordBits
    <3> HIDE DEF r
    <3>2. r \in Nat /\ r < WordBits /\ max = WordBits * q + r
      BY <2>3, <2>6 DEF r
    <3>3. WordBits * v \in Nat /\ b \in Nat
      BY <2>6 DEF WordSet
    <3>4. WordBits * v + b > max
      BY <2>6, <3>1, <3>2, <3>3
    <3> QED BY <2>1, <2>3, <3>3, <3>4
  <2> HIDE DEF ws
  <2>9. Stands(PutWords(with_capacity(max + 1), ws), S)
    BY <2>3, <2>4, <2>5, <2>7, <2>8, Filled
  <2> QED BY <2>2, <2>9
<1> QED BY <1>1, <1>2

\* The word of a bit set that is put together word by word.
LEMMA WordOf ==
  ASSUME NEW i, NEW o, NEW n, NEW v \in Nat
  PROVE  Word(Rebuilt(i, o, n), v) =
           IF v < INLINE_WORDS THEN i[v + 1]
           ELSE IF v - INLINE_WORDS < Len(o) THEN o[v - INLINE_WORDS + 1] ELSE {}
  BY RebuiltIs DEF Word

LEMMA UnionStands ==
  ASSUME NEW x, NEW S, Stands(x, S), NEW y, NEW T, Stands(y, T)
  PROVE  Stands(bitor(x, y), S \cup T)
<1> DEFINE n == Larger(Len(x.overflow), Len(y.overflow))
           inline == [k \in DOMAIN x.inline |-> x.inline[k] \cup y.inline[k]]
           overflow == [k \in 1..n |-> Resize(x.overflow, n)[k] \cup Resize(y.overflow, n)[k]]
           count == Larger(x.bit_count, y.bit_count)
           u == bitor(x, y)
<1>0. x \in BitSets /\ y \in BitSets
  BY DEF Stands
<1>1. /\ x.inline \in [1..INLINE_WORDS -> SUBSET WordSet]
      /\ y.inline \in [1..INLINE_WORDS -> SUBSET WordSet]
      /\ x.overflow \in Seq(SUBSET WordSet) /\ y.overflow \in Seq(SUBSET WordSet)
      /\ Len(x.overflow) \in Nat /\ Len(y.overflow) \in Nat
      /\ x.bit_count \in Nat /\ y.bit_count \in Nat /\ INLINE_WORDS \in Nat
  BY <1>0, Parts, Sizes
<1>2. u = Rebuilt(inline, overflow, count)
  BY DEF bitor, Rebuilt
<1>3. n \in Nat /\ Len(x.overflow) <= n /\ Len(y.overflow) <= n
  BY <1>1 DEF Larger
<1>4. count \in Nat /\ x.bit_count <= count /\ y.bit_count <= count
  BY <1>1 DEF Larger
<1>5. inline \in [1..INLINE_WORDS -> SUBSET WordSet]
  BY <1>1
<1> HIDE DEF n, count, u
<1>6. /\ overflow \in Seq(SUBSET WordSet) /\ Len(overflow) = n
      /\ \A k \in 1..n : overflow[k] = (IF k <= Len(x.overflow) THEN x.overflow[k] ELSE {})
                                       \cup (IF k <= Len(y.overflow) THEN y.overflow[k] ELSE {})
  <2> DEFINE a == Resize(x.overflow, n)
             c == Resize(y.overflow, n)
  <2>1. /\ a \in Seq(SUBSET WordSet) /\ Len(a) = n
        /\ \A k \in 1..n : a[k] = IF k <= Len(x.overflow) THEN x.overflow[k] ELSE {}
    BY <1>1, <1>3, Resized
  <2>2. /\ c \in Seq(SUBSET WordSet) /\ Len(c) = n
        /\ \A k \in 1..n : c[k] = IF k <= Len(y.overflow) THEN y.overflow[k] ELSE {}
    BY <1>1, <1>3, Resized
  <2>3. overflow = [k \in 1..n |-> a[k] \cup c[k]]
    OBVIOUS
  <2> HIDE DEF a, c, overflow
  <2>4. \A k \in 1..n : a[k] \in SUBSET WordSet /\ c[k] \in SUBSET WordSet
    BY <2>1, <2>2, <1>3
  <2>5. overflow \in [1..n -> SUBSET WordSet]
    BY <2>3, <2>4
  <2>6. \A k \in 1..n : overflow[k] = a[k] \cup c[k]
    BY <2>3
  <2> QED BY <1>3, <2>1, <2>2, <2>5, <2>6, SeqOf
<1>7. \A k \in 1..INLINE_WORDS : inline[k] = x.inline[k] \cup y.inline[k]
  BY <1>1
<1> HIDE DEF inline, overflow
<1>8. ASSUME NEW v \in Nat
      PROVE  Word(u, v) = Word(x, v) \cup Word(y, v)
  <2>1. CASE v < INLINE_WORDS
    <3>1. v + 1 \in 1..INLINE_WORDS
      BY <1>1, <2>1
    <3>2. Word(u, v) = inline[v + 1]
      BY <1>2, <2>1, WordOf
    <3> QED BY <1>7, <2>1, <3>1, <3>2 DEF Word
  <2>2. CASE ~(v < INLINE_WORDS) /\ v - INLINE_WORDS < n
    <3> DEFINE at == v - INLINE_WORDS + 1
    <3>1. at \in 1..n /\ \A m \in Nat : at <= m <=> v - INLINE_WORDS < m
      BY <1>1, <1>3, <2>2
    <3>2. Word(u, v) = overflow[at]
      BY <1>2, <1>6, <2>2, WordOf
    <3>3. Word(x, v) = IF at <= Len(x.overflow) THEN x.overflow[at] ELSE {}
      <4>1. at <= Len(x.overflow) <=> v - INLINE_WORDS < Len(x.overflow)
        BY <1>1, <3>1
      <4> QED BY <2>2, <4>1 DEF Word
    <3>4. Word(y, v) = IF at <= Len(y.overflow) THEN y.overflow[at] ELSE {}
      <4>1. at <= Len(y.overflow) <=> v - INLINE_WORDS < Len(y.overflow)
        BY <1>1, <3>1
      <4> QED BY <2>2, <4>1 DEF Word
    <3> HIDE DEF at
    <3> QED BY <1>6, <3>1, <3>2, <3>3, <3>4
  <2>3. CASE ~(v < INLINE_WORDS) /\ ~(v - INLINE_WORDS < n)
    <3>1. Word(u, v) = {}
      BY <1>2, <1>6, <2>3, WordOf
    <3>2. ~(v - INLINE_WORDS < Len(x.overflow)) /\ ~(v - INLINE_WORDS < Len(y.overflow))
      BY <1>1, <1>3, <2>3
    <3> QED BY <2>3, <3>1, <3>2 DEF Word
  <2> QED BY <2>1, <2>2, <2>3
<1>9. u \in BitSets /\ u.bit_count = count
  BY <1>2, <1>4, <1>5, <1>6, RebuiltIs
<1>10. S \cup T \in SUBSET (0..(u.bit_count - 1))
  <2>1. /\ 0..(x.bit_count - 1) \subseteq 0..(count - 1)
        /\ 0..(y.bit_count - 1) \subseteq 0..(count - 1)
    BY <1>1, <1>4
  <2>2. S \subseteq 0..(x.bit_count - 1) /\ T \subseteq 0..(y.bit_count - 1)
    BY DEF Stands
  <2> QED BY <1>9, <2>1, <2>2
<1>11. \A v \in Nat : \A b \in WordSet : b \in Word(u, v) <=> WordBits * v + b \in S \cup T
  BY <1>8 DEF Stands
<1>12. Stands(u, S \cup T)
  BY <1>9, <1>10, <1>11 DEF Stands
<1> QED BY <1>12 DEF u

LEMMA IntersectionStands ==
  ASSUME NEW x, NEW S, Stands(x, S), NEW y, NEW T, Stands(y, T)
  PROVE  Stands(bitand(x, y), S \cap T)
<1> DEFINE n == Smaller(Len(x.overflow), Len(y.overflow))
           inline == [k \in DOMAIN x.inline |-> x.inline[k] \cap y.inline[k]]
           overflow == [k \in 1..n |-> x.overflow[k] \cap y.overflow[k]]
           count == Smaller(x.bit_count, y.bit_count)
           u == bitand(x, y)
<1>0. x \in BitSets /\ y \in BitSets
  BY DEF Stands
<1>1. /\ x.inline \in [1..INLINE_WORDS -> SUBSET WordSet]
      /\ y.inline \in [1..INLINE_WORDS -> SUBSET WordSet]
      /\ x.overflow \in Seq(SUBSET WordSet) /\ y.overflow \in Seq(SUBSET WordSet)
      /\ Len(x.overflow) \in Nat /\ Len(y.overflow) \in Nat
      /\ x.bit_count \in Nat /\ y.bit_count \in Nat /\ INLINE_WORDS \in Nat
  BY <1>0, Parts, Sizes
<1>2. u = Rebuilt(inline, overflow, count)
  BY DEF bitand, Rebuilt
<1>3. /\ n \in Nat /\ n <= Len(x.overflow) /\ n <= Len(y.overflow)
      /\ n = Len(x.overflow) \/ n = Len(y.overflow)
  BY <1>1 DEF Smaller
<1>4. /\ count \in Nat /\ count <= x.bit_count /\ count <= y.bit_count
      /\ count = x.bit_count \/ count = y.bit_count
  BY <1>1 DEF Smaller
<1>5. inline \in [1..INLINE_WORDS -> SUBSET WordSet]
  BY <1>1
<1> HIDE DEF n, count, u
<1>6. /\ overflow \in Seq(SUBSET WordSet) /\ Len(overflow) = n
      /\ \A k \in 1..n : overflow[k] = x.overflow[k] \cap y.overflow[k]
  <2>1. \A k \in 1..n : x.overflow[k] \in SUBSET WordSet
    BY <1>1, <1>3
  <2>2. overflow \in [1..n -> SUBSET WordSet]
    BY <2>1
  <2>3. \A k \in 1..n : overflow[k] = x.overflow[k] \cap y.overflow[k]
    OBVIOUS
  <2> HIDE DEF overflow
  <2> QED BY <1>3, <2>2, <2>3, SeqOf
<1>7. \A k \in 1..INLINE_WORDS : inline[k] = x.inline[k] \cap y.inline[k]
  BY <1>1
<1> HIDE DEF inline, overflow
<1>8. ASSUME NEW v \in Nat
      PROVE  Word(u, v) = Word(x, v) \cap Word(y, v)
  <2>1. CASE v < INLINE_WORDS
    <3>1. v + 1 \in 1..INLINE_WORDS
      BY <1>1, <2>1
    <3>2. Word(u, v) = inline[v + 1]
      BY <1>2, <2>1, WordOf
    <3> QED BY <1>7, <2>1, <3>1, <3>2 DEF Word
  <2>2. CASE ~(v < INLINE_WORDS) /\ v - INLINE_WORDS < n
    <3> DEFINE at == v - INLINE_WORDS + 1
    <3>1. at \in 1..n /\ v - INLINE_WORDS < Len(x.overflow) /\ v - INLINE_WORDS < Len(y.overflow)
      BY <1>1, <1>3, <2>2
    <3>2. Word(u, v) = overflow[at]
      BY <1>2, <1>6, <2>2, WordOf
    <3>3. Word(x, v) = x.overflow[at] /\ Word(y, v) = y.overflow[at]
      BY <2>2, <3>1 DEF Word
    <3> HIDE DEF at
    <3> QED BY <1>6, <3>1, <3>2, <3>3
  <2>3. CASE ~(v < INLINE_WORDS) /\ ~(v - INLINE_WORDS < n)
    <3>1. Word(u, v) = {}
      BY <1>2, <1>6, <2>3, WordOf
    <3>2. ~(v - INLINE_WORDS < Len(x.overflow)) \/ ~(v - INLINE_WORDS < Len(y.overflow))
      BY <1>3, <2>3
    <3>3. Word(x, v) = {} \/ Word(y, v) = {}
      BY <2>3, <3>2 DEF Word
    <3> QED BY <3>1, <3>3
  <2> QED BY <2>1, <2>2, <2>3
<1>9. u \in BitSets /\ u.bit_count = count
  BY <1>2, <1>4, <1>5, <1>6, RebuiltIs
<1>10. S \cap T \in SUBSET (0..(u.bit_count - 1))
  <2>1. S \subseteq 0..(x.bit_count - 1) /\ T \subseteq 0..(y.bit_count - 1)
    BY DEF Stands
  <2> QED BY <1>4, <1>9, <2>1
<1>11. \A v \in Nat : \A b \in WordSet : b \in Word(u, v) <=> WordBits * v + b \in S \cap T
  BY <1>8 DEF Stands
<1>12. Stands(u, S \cap T)
  BY <1>9, <1>10, <1>11 DEF Stands
<1> QED BY <1>12 DEF u

----------------------------------------------------------------------------
(* Its words in a row, and its bytes.                                      *)

LEMMA WordsAre ==
  ASSUME NEW bs \in BitSets
  PROVE  /\ Words(bs) \in Seq(SUBSET WordSet) /\ Len(Words(bs)) = Room(bs)
         /\ DOMAIN Words(bs) = 1..Room(bs)
         /\ \A w \in 1..Room(bs) : w - 1 \in Nat /\ Words(bs)[w] = Word(bs, w - 1)
<1> DEFINE i == bs.inline
           o == bs.overflow
<1>1. /\ i \in Seq(SUBSET WordSet) /\ Len(i) = INLINE_WORDS
      /\ o \in Seq(SUBSET WordSet) /\ Len(o) \in Nat /\ INLINE_WORDS \in Nat
      /\ Room(bs) = INLINE_WORDS + Len(o)
  <2>1. /\ i \in [1..INLINE_WORDS -> SUBSET WordSet] /\ INLINE_WORDS \in Nat
        /\ o \in Seq(SUBSET WordSet) /\ Len(o) \in Nat
    BY Parts, Sizes
  <2>2. Room(bs) = INLINE_WORDS + Len(o)
    BY DEF Room
  <2> HIDE DEF i, o
  <2> QED BY <2>1, <2>2, SeqOf
<1>2. Words(bs) = i \o o
  BY DEF Words
<1> HIDE DEF i, o
<1>3. /\ Words(bs) \in Seq(SUBSET WordSet) /\ Len(Words(bs)) = Room(bs)
      /\ DOMAIN Words(bs) = 1..Room(bs)
  <2>1. i \o o \in Seq(SUBSET WordSet) /\ Len(i \o o) = Len(i) + Len(o)
    BY <1>1
  <2>2. Words(bs) \in Seq(SUBSET WordSet) /\ Len(Words(bs)) = Room(bs)
    BY <1>1, <1>2, <2>1
  <2>3. DOMAIN Words(bs) = 1..Len(Words(bs))
    BY <2>2
  <2> QED BY <2>2, <2>3
<1>4. ASSUME NEW w \in 1..Room(bs)
      PROVE  w - 1 \in Nat /\ Words(bs)[w] = Word(bs, w - 1)
  <2>1. CASE w <= INLINE_WORDS
    <3>1. Words(bs)[w] = i[w]
      BY <1>1, <1>2, <2>1
    <3>2. w - 1 < INLINE_WORDS /\ (w - 1) + 1 = w /\ w - 1 \in Nat
      BY <1>1, <2>1
    <3>3. Word(bs, w - 1) = i[(w - 1) + 1]
      BY <3>2 DEF Word, i
    <3> QED BY <3>1, <3>2, <3>3
  <2>2. CASE ~(w <= INLINE_WORDS)
    <3>1. Words(bs)[w] = o[w - INLINE_WORDS]
      BY <1>1, <1>2, <2>2
    <3>2. /\ ~(w - 1 < INLINE_WORDS) /\ (w - 1) - INLINE_WORDS < Len(o) /\ w - 1 \in Nat
          /\ (w - 1) - INLINE_WORDS + 1 = w - INLINE_WORDS
      BY <1>1, <2>2
    <3>3. Word(bs, w - 1) = o[(w - 1) - INLINE_WORDS + 1]
      BY <3>2 DEF Word, o
    <3> QED BY <3>1, <3>2, <3>3
  <2> QED BY <2>1, <2>2
<1> QED BY <1>3, <1>4

\* Every bit is in a word that is there.
LEMMA Found ==
  ASSUME NEW bs, NEW S, Stands(bs, S), NEW x \in S
  PROVE  /\ x \in Nat /\ x \div WordBits + 1 \in 1..Room(bs)
         /\ x % WordBits \in Words(bs)[x \div WordBits + 1]
<1> DEFINE q == x \div WordBits
           r == x % WordBits
<1>1. bs \in BitSets /\ x \in Nat
  <2>1. bs \in BitSets /\ S \subseteq 0..(bs.bit_count - 1)
    BY DEF Stands
  <2>2. bs.bit_count \in Nat
    BY <2>1, Parts
  <2> QED BY <2>1, <2>2
<1>2. q \in Nat /\ r \in WordSet /\ x = WordBits * q + r
  BY <1>1, Place
<1>3. r \in Word(bs, q)
  BY <1>2 DEF Stands
<1> HIDE DEF q, r
<1>4. Room(bs) \in Nat /\ q < Room(bs)
  <2>1. Room(bs) \in Nat
    BY <1>1, Parts
  <2>2. ~(q >= Room(bs))
    BY <1>1, <1>2, <1>3, WordIs
  <2> QED BY <1>2, <2>1, <2>2
<1>5. q + 1 \in 1..Room(bs) /\ (q + 1) - 1 = q
  BY <1>2, <1>4
<1>6. Words(bs)[q + 1] = Word(bs, q)
  <2>1. Words(bs)[q + 1] = Word(bs, (q + 1) - 1)
    BY <1>1, <1>5, WordsAre
  <2> QED BY <1>5, <2>1
<1> QED BY <1>1, <1>3, <1>5, <1>6 DEF q, r

LEMMA ToVecIs ==
  ASSUME NEW bs, NEW S, Stands(bs, S)
  PROVE  to_vec(bs) = S
<1>1. bs \in BitSets
  BY DEF Stands
<1>2. ASSUME NEW w \in DOMAIN Words(bs), NEW b \in Words(bs)[w]
      PROVE  WordBits * (w - 1) + b \in S
  <2>1. w \in 1..Room(bs) /\ w - 1 \in Nat /\ Words(bs)[w] = Word(bs, w - 1)
    BY <1>1, WordsAre
  <2>2. b \in WordSet
    BY <1>1, <1>2, <2>1, WordIs
  <2> QED BY <1>2, <2>1, <2>2 DEF Stands
<1>3. ASSUME NEW x \in S
      PROVE  \E w \in DOMAIN Words(bs) : \E b \in Words(bs)[w] : x = WordBits * (w - 1) + b
  <2> DEFINE q == x \div WordBits
             r == x % WordBits
  <2>1. x \in Nat /\ q + 1 \in 1..Room(bs) /\ r \in Words(bs)[q + 1]
    BY Found
  <2>2. q \in Nat /\ x = WordBits * q + r
    BY <2>1, Place
  <2> HIDE DEF q, r
  <2>3. q + 1 \in DOMAIN Words(bs) /\ (q + 1) - 1 = q
    BY <1>1, <2>1, <2>2, WordsAre
  <2> QED BY <2>1, <2>2, <2>3
<1>4. to_vec(bs) \subseteq S
  BY <1>2 DEF to_vec
<1>5. S \subseteq to_vec(bs)
  BY <1>3 DEF to_vec
<1> QED BY <1>4, <1>5

LEMMA EmptyIs ==
  ASSUME NEW bs, NEW S, Stands(bs, S)
  PROVE  is_empty(bs) <=> S = {}
<1>1. bs \in BitSets
  BY DEF Stands
<1>2. ASSUME S # {}
      PROVE  ~is_empty(bs)
  <2>1. PICK x \in S : TRUE
    BY <1>2
  <2>2. PICK w \in 1..Room(bs) : Words(bs)[w] # {}
    BY <2>1, Found
  <2>3. w \in DOMAIN Words(bs)
    BY <1>1, <2>2, WordsAre
  <2> QED BY <2>2, <2>3 DEF is_empty
<1>3. ASSUME S = {}, NEW w \in DOMAIN Words(bs)
      PROVE  Words(bs)[w] = {}
  <2>1. w \in 1..Room(bs) /\ w - 1 \in Nat /\ Words(bs)[w] = Word(bs, w - 1)
    BY <1>1, WordsAre
  <2>2. \A b \in WordSet : b \notin Word(bs, w - 1)
    BY <1>3, <2>1 DEF Stands
  <2>3. Word(bs, w - 1) \in SUBSET WordSet
    BY <1>1, <2>1, WordIs
  <2> QED BY <2>1, <2>2, <2>3
<1>4. S = {} => is_empty(bs)
  BY <1>3 DEF is_empty
<1> QED BY <1>2, <1>4

ByteSet == 0..(ByteBits - 1)

\* The bytes of a set: byte k has its bits from ByteBits * (k - 1) on.
BytesOfSet(bytes, S) ==
  /\ bytes \in Seq(SUBSET ByteSet) /\ S \in SUBSET (0..(ByteBits * Len(bytes) - 1))
  /\ \A k \in 1..Len(bytes) : \A b \in ByteSet : b \in bytes[k] <=> ByteBits * (k - 1) + b \in S

\* A bit of a word as a bit of its byte.
LEMMA InByte ==
  ASSUME NEW w \in Nat, NEW k \in 0..(WordBytes - 1), NEW b \in ByteSet
  PROVE  /\ ByteBits * k + b \in WordSet
         /\ WordBits * w + (ByteBits * k + b) = ByteBits * (WordBytes * w + k) + b
<1>1. ByteBits \in Nat \ {0} /\ WordBytes \in Nat \ {0} /\ WordBits = ByteBits * WordBytes
  BY Sizes DEF WordBits
<1>2. ByteBits * k + ByteBits <= ByteBits * WordBytes
  BY <1>1, Ahead
<1>3. ByteBits * k \in Nat /\ ByteBits * WordBytes \in Nat /\ b \in Nat /\ b < ByteBits
  BY <1>1 DEF ByteSet
<1>4. ByteBits * k + b \in 0..(WordBits - 1)
  BY <1>1, <1>2, <1>3
<1>5. WordBits * w = ByteBits * (WordBytes * w)
  BY <1>1
<1>6. ByteBits * (WordBytes * w + k) = ByteBits * (WordBytes * w) + ByteBits * k
  BY <1>1
<1>7. WordBytes * w \in Nat /\ ByteBits * (WordBytes * w) \in Nat
  BY <1>1
<1> QED BY <1>3, <1>4, <1>5, <1>6, <1>7 DEF WordSet

\* The byte of a bit of a word.
LEMMA ByteOfBit ==
  ASSUME NEW c \in WordSet
  PROVE  /\ c \div ByteBits \in 0..(WordBytes - 1) /\ c % ByteBits \in ByteSet
         /\ c = ByteBits * (c \div ByteBits) + (c % ByteBits)
<1> DEFINE k == c \div ByteBits
           b == c % ByteBits
<1>1. ByteBits \in Nat \ {0} /\ WordBytes \in Nat \ {0} /\ WordBits = ByteBits * WordBytes
      /\ c \in Nat /\ c < WordBits /\ WordBits \in Nat
  BY Sizes DEF WordBits, WordSet
<1>2. k \in Nat /\ b \in 0..(ByteBits - 1) /\ c = ByteBits * k + b
  BY <1>1, Divided
<1> HIDE DEF k, b
<1>3. ~(WordBytes <= k)
  <2>1. ASSUME WordBytes <= k
        PROVE  ByteBits * WordBytes <= ByteBits * k
    <3>1. CASE WordBytes = k
      BY <1>1, <1>2, <3>1
    <3>2. CASE WordBytes < k
      <4>1. ByteBits * WordBytes + ByteBits <= ByteBits * k
        BY <1>1, <1>2, <3>2, Ahead
      <4>2. ByteBits * WordBytes \in Nat /\ ByteBits * k \in Nat
        BY <1>1, <1>2
      <4> QED BY <1>1, <4>1, <4>2
    <3> QED BY <1>1, <1>2, <2>1, <3>1, <3>2
  <2>2. ByteBits * k \in Nat
    BY <1>1, <1>2
  <2> QED BY <1>1, <1>2, <2>1, <2>2
<1>4. k \in 0..(WordBytes - 1)
  BY <1>1, <1>2, <1>3
<1> QED BY <1>2, <1>4 DEF k, b, ByteSet

\* decode fills the words from the bytes.
LEMMA DecodeStands ==
  ASSUME NEW bytes, NEW S, BytesOfSet(bytes, S)
  PROVE  Stands(decode(bytes), S)
<1> DEFINE L == Len(bytes)
           BytesIn(w) == { k \in 0..(WordBytes - 1) : WordBytes * (w - 1) + k < L }
           m == DivCeil(L, WordBytes)
           ws == [w \in 1..m |->
                    UNION { Shifted(bytes[WordBytes * (w - 1) + k + 1], k) : k \in BytesIn(w) }]
           n == ByteBits * L
<1>1. /\ bytes \in Seq(SUBSET ByteSet) /\ L \in Nat
      /\ ByteBits \in Nat \ {0} /\ WordBytes \in Nat \ {0} /\ WordBits = ByteBits * WordBytes
      /\ WordBits \in Nat \ {0} /\ n \in Nat
  BY Sizes DEF BytesOfSet, WordBits
<1>2. decode(bytes) = PutWords(with_capacity(n), ws)
  BY Zenon DEF decode
<1>3. S \in SUBSET (0..(n - 1))
  BY DEF BytesOfSet
<1>4. \A k \in 1..L : bytes[k] \in SUBSET ByteSet
  BY <1>1
<1>5. m \in Nat /\ \A v \in Nat : v < m <=> WordBytes * v < L
  BY <1>1, Covered
<1> HIDE DEF L, m
<1>6. ASSUME NEW w \in 1..m, NEW k \in BytesIn(w)
      PROVE  /\ w - 1 \in Nat /\ k \in 0..(WordBytes - 1) /\ WordBytes * (w - 1) + k + 1 \in 1..L
             /\ \A b \in bytes[WordBytes * (w - 1) + k + 1] : b \in ByteSet
  <2>1. w - 1 \in Nat /\ k \in 0..(WordBytes - 1) /\ WordBytes * (w - 1) + k < L
    BY <1>5
  <2>2. WordBytes * (w - 1) \in Nat
    BY <1>1, <2>1
  <2>3. WordBytes * (w - 1) + k + 1 \in 1..L
    BY <1>1, <2>1, <2>2
  <2> QED BY <1>4, <2>1, <2>3
<1>7. ws \in Seq(SUBSET WordSet) /\ Len(ws) = m
  <2>1. ASSUME NEW w \in 1..m, NEW k \in BytesIn(w)
        PROVE  Shifted(bytes[WordBytes * (w - 1) + k + 1], k) \in SUBSET WordSet
    <3>1. /\ k \in 0..(WordBytes - 1)
          /\ \A b \in bytes[WordBytes * (w - 1) + k + 1] : b \in ByteSet
      BY <1>6
    <3>2. \A b \in ByteSet : ByteBits * k + b \in WordSet
      <4>1. 0 \in Nat
        OBVIOUS
      <4> QED BY <3>1, <4>1, InByte
    <3> QED BY <3>1, <3>2 DEF Shifted
  <2>2. ws \in [1..m -> SUBSET WordSet]
    BY <2>1
  <2> HIDE DEF ws
  <2> QED BY <1>5, <2>2, SeqOf
<1>8. ASSUME NEW v \in Nat, v < m
      PROVE  WordBits * v < n
  <2>1. WordBytes * v < L /\ WordBytes * v \in Nat
    BY <1>1, <1>5, <1>8
  <2>2. ByteBits * (WordBytes * v) + ByteBits <= ByteBits * L
    BY <1>1, <2>1, Ahead
  <2>3. WordBits * v = ByteBits * (WordBytes * v) /\ ByteBits * (WordBytes * v) \in Nat
    BY <1>1, <2>1
  <2> QED BY <1>1, <2>2, <2>3
<1>9. ASSUME NEW v \in Nat, v < m, NEW c \in WordSet
      PROVE  c \in ws[v + 1] <=> WordBits * v + c \in S
  <2>1. v + 1 \in 1..m /\ (v + 1) - 1 = v
    BY <1>5, <1>9
  <2>2. ws[v + 1] = UNION { Shifted(bytes[WordBytes * v + k + 1], k) : k \in BytesIn(v + 1) }
    BY <2>1
  <2>3. ASSUME c \in ws[v + 1]
        PROVE  WordBits * v + c \in S
    <3>1. PICK k \in BytesIn(v + 1) : c \in Shifted(bytes[WordBytes * v + k + 1], k)
      BY <2>2, <2>3
    <3>2. /\ k \in 0..(WordBytes - 1) /\ WordBytes * v + k + 1 \in 1..L
          /\ \A b \in bytes[WordBytes * v + k + 1] : b \in ByteSet
      BY <1>6, <2>1
    <3>3. PICK b \in bytes[WordBytes * v + k + 1] : c = ByteBits * k + b
      BY <3>1 DEF Shifted
    <3>4. b \in ByteSet /\ WordBits * v + c = ByteBits * (WordBytes * v + k) + b
      BY <3>2, <3>3, InByte
    <3>5. (WordBytes * v + k + 1) - 1 = WordBytes * v + k
      BY <1>1, <3>2
    <3>6. ByteBits * ((WordBytes * v + k + 1) - 1) + b \in S
      BY <3>2, <3>3, <3>4 DEF BytesOfSet, L
    <3> QED BY <3>4, <3>5, <3>6
  <2>4. ASSUME WordBits * v + c \in S
        PROVE  c \in ws[v + 1]
    <3> DEFINE k == c \div ByteBits
               b == c % ByteBits
    <3>1. k \in 0..(WordBytes - 1) /\ b \in ByteSet /\ c = ByteBits * k + b
      BY ByteOfBit
    <3> HIDE DEF k, b
    <3>2. WordBits * v + c = ByteBits * (WordBytes * v + k) + b
      BY <3>1, InByte
    <3> DEFINE j == WordBytes * v + k
    <3>3. j \in Nat
      BY <1>1, <3>1
    <3> HIDE DEF j
    <3>4. ByteBits * j + b < ByteBits * L /\ b \in Nat
      BY <1>1, <1>3, <2>4, <3>1, <3>2 DEF j, ByteSet
    <3>5. j < L
      <4>1. ASSUME L <= j
            PROVE  FALSE
        <5>1. ByteBits * L <= ByteBits * j
          <6>1. CASE L = j
            BY <1>1, <3>3, <6>1
          <6>2. CASE L < j
            <7>1. ByteBits * L + ByteBits <= ByteBits * j
              BY <1>1, <3>3, <6>2, Ahead
            <7>2. ByteBits * L \in Nat /\ ByteBits * j \in Nat
              BY <1>1, <3>3
            <7> QED BY <1>1, <7>1, <7>2
          <6> QED BY <1>1, <3>3, <4>1, <6>1, <6>2
        <5>2. ByteBits * L \in Nat /\ ByteBits * j \in Nat
          BY <1>1, <3>3
        <5> QED BY <3>4, <5>1, <5>2
      <4> QED BY <1>1, <3>3, <4>1
    <3>6. j + 1 \in 1..L /\ (j + 1) - 1 = j
      BY <1>1, <3>3, <3>5
    <3>7. b \in bytes[j + 1]
      <4>1. ByteBits * ((j + 1) - 1) + b \in S
        BY <2>4, <3>2, <3>6 DEF j
      <4> QED BY <3>1, <3>6, <4>1 DEF BytesOfSet, L
    <3>8. k \in BytesIn(v + 1)
      BY <2>1, <3>1, <3>5 DEF j
    <3>9. c \in Shifted(bytes[WordBytes * v + k + 1], k)
      BY <3>1, <3>7 DEF Shifted, j
    <3> QED BY <2>2, <3>8, <3>9
  <2> QED BY <2>3, <2>4
<1>10. ASSUME NEW v \in Nat, ~(v < m), NEW c \in WordSet
       PROVE  WordBits * v + c \notin S
  <2>1. L <= WordBytes * v /\ WordBytes * v \in Nat
    BY <1>1, <1>5, <1>10
  <2> DEFINE j == WordBytes * v
  <2> HIDE DEF j
  <2>2. j \in Nat /\ L <= j
    BY <2>1 DEF j
  <2>3. ByteBits * L <= ByteBits * j /\ ByteBits * j \in Nat
    <3>1. CASE L = j
      BY <1>1, <2>2, <3>1
    <3>2. CASE L < j
      <4>1. ByteBits * L + ByteBits <= ByteBits * j
        BY <1>1, <2>2, <3>2, Ahead
      <4>2. ByteBits * L \in Nat /\ ByteBits * j \in Nat
        BY <1>1, <2>2
      <4> QED BY <1>1, <4>1, <4>2
    <3> QED BY <1>1, <2>2, <3>1, <3>2
  <2>4. WordBits * v = ByteBits * j /\ c \in Nat
    BY <1>1 DEF j, WordSet
  <2>5. ~(WordBits * v + c \in 0..(n - 1))
    <3>1. n <= ByteBits * j
      BY <2>3
    <3> HIDE DEF n
    <3> QED BY <1>1, <2>3, <2>4, <3>1
  <2> HIDE DEF n
  <2> QED BY <1>3, <2>5
<1> HIDE DEF ws, n
<1>11. Stands(PutWords(with_capacity(n), ws), S)
  BY <1>1, <1>3, <1>7, <1>8, <1>9, <1>10, Filled
<1> QED BY <1>2, <1>11

\* The last word that is not zero.
IsLast(ws, n) ==
  /\ \A w \in (n + 1)..Len(ws) : ws[w] = {}
  /\ n > 0 => ws[n] # {}

LEMMA LastWord ==
  ASSUME NEW ws \in Seq(SUBSET WordSet)
  PROVE  \E n \in 0..Len(ws) : IsLast(ws, n)
<1> DEFINE T == { w \in 1..Len(ws) : ws[w] # {} }
<1>1. Len(ws) \in Nat /\ T \in SUBSET (0..Len(ws))
  OBVIOUS
<1>2. CASE T = {}
  <2>1. IsLast(ws, 0)
    BY <1>2 DEF IsLast
  <2> QED BY <1>1, <2>1
<1>3. CASE T # {}
  <2>1. PICK n \in T : \A k \in T : k <= n
    BY <1>1, <1>3, Largest
  <2>2. ASSUME NEW w \in (n + 1)..Len(ws)
        PROVE  ws[w] = {}
    <3>1. w \in 1..Len(ws) /\ ~(w <= n)
      BY <1>1
    <3> QED BY <2>1, <3>1
  <2>3. IsLast(ws, n)
    BY <2>1, <2>2 DEF IsLast
  <2> QED BY <1>1, <2>3
<1> QED BY <1>2, <1>3

\* encode writes the bytes of the set, the last of them not zero.
LEMMA EncodeIs ==
  ASSUME NEW bs, NEW S, Stands(bs, S)
  PROVE  /\ BytesOfSet(encode(bs), S)
         /\ encode(bs) # << >> => encode(bs)[Len(encode(bs))] # {}
<1> DEFINE ws == Words(bs)
           last == CHOOSE n \in 0..Len(ws) : IsLast(ws, n)
           top == CHOOSE b \in ws[last] : \A c \in ws[last] : c <= b
           total == IF last = 0 THEN 0 ELSE (last - 1) * WordBytes + top \div ByteBits + 1
           bytes == [i \in 1..total |->
                       ByteOf(ws[(i - 1) \div WordBytes + 1], (i - 1) % WordBytes)]
<1>0. /\ ByteBits \in Nat \ {0} /\ WordBytes \in Nat \ {0} /\ WordBits = ByteBits * WordBytes
      /\ WordBits \in Nat \ {0}
  BY Sizes DEF WordBits
<1>1. /\ bs \in BitSets /\ Room(bs) \in Nat /\ ws \in Seq(SUBSET WordSet) /\ Len(ws) = Room(bs)
      /\ \A w \in 1..Room(bs) : w - 1 \in Nat /\ ws[w] = Word(bs, w - 1)
  <2>1. bs \in BitSets
    BY DEF Stands
  <2> QED BY <2>1, WordsAre, Parts
<1>2. encode(bs) = bytes
  BY Zenon DEF encode, IsLast
<1> HIDE DEF ws
<1>3. last \in 0..Room(bs) /\ IsLast(ws, last)
  BY <1>1, LastWord
<1> HIDE DEF last
<1>4. CASE last = 0
  <2>1. bytes = << >>
    BY <1>4
  <2>2. S = {}
    <3>1. ASSUME NEW x \in S
          PROVE  FALSE
      <4>1. x \div WordBits + 1 \in 1..Room(bs) /\ x % WordBits \in ws[x \div WordBits + 1]
        BY Found DEF ws
      <4>2. ws[x \div WordBits + 1] = {}
        BY <1>1, <1>3, <1>4, <4>1 DEF IsLast
      <4> QED BY <4>1, <4>2
    <3> QED BY <3>1
  <2>3. BytesOfSet(<< >>, {})
    BY <1>0 DEF BytesOfSet
  <2> HIDE DEF bytes
  <2> QED BY <1>2, <2>1, <2>2, <2>3
<1>5. CASE last # 0
  <2> DEFINE h == last - 1
             t == top \div ByteBits
             u == top % ByteBits
  <2>1. h \in Nat /\ last \in 1..Room(bs) /\ ws[last] = Word(bs, h) /\ ws[last] # {}
    BY <1>1, <1>3, <1>5 DEF IsLast
  <2>2. Word(bs, h) \in SUBSET WordSet
    BY <1>1, <2>1, WordIs
  <2>3. top \in WordSet /\ top \in Word(bs, h) /\ \A c \in Word(bs, h) : c <= top
    <3>1. WordBits - 1 \in Nat
      BY <1>0
    <3>2. \E x \in ws[last] : \A c \in ws[last] : c <= x
      BY <2>1, <2>2, <3>1, Largest DEF WordSet
    <3>3. top \in ws[last] /\ \A c \in ws[last] : c <= top
      BY <3>2
    <3> HIDE DEF top
    <3> QED BY <2>1, <2>2, <3>3
  <2> HIDE DEF top
  <2>4. /\ t \in 0..(WordBytes - 1) /\ u \in ByteSet /\ top = ByteBits * t + u
    BY <2>3, ByteOfBit
  <2>5. total = WordBytes * h + t + 1
    BY <1>0, <1>5, <2>1, <2>4
  <2> HIDE DEF h, t, u, total
  <2>6. WordBytes * h \in Nat /\ total \in Nat /\ total > 0
    BY <1>0, <2>1, <2>4, <2>5
  <2>7. ASSUME NEW i \in 1..total
        PROVE  bytes[i] = { b \in ByteSet : ByteBits * (i - 1) + b \in S }
    <3> DEFINE q == (i - 1) \div WordBytes
               r == (i - 1) % WordBytes
    <3>1. i - 1 \in Nat /\ q \in Nat /\ r \in 0..(WordBytes - 1) /\ i - 1 = WordBytes * q + r
      <4>1. i - 1 \in Nat
        BY <2>6
      <4> QED BY <1>0, <4>1, Divided
    <3>2. bytes[i] = ByteOf(ws[q + 1], r)
      OBVIOUS
    <3> HIDE DEF q, r, bytes
    <3>3. q <= h
      <4>1. ASSUME h < q
            PROVE  FALSE
        <5>1. WordBytes * h + WordBytes <= WordBytes * q
          BY <1>0, <2>1, <3>1, <4>1, Ahead
        <5>2. WordBytes * q \in Nat
          BY <1>0, <3>1
        <5> QED BY <1>0, <2>4, <2>5, <2>6, <3>1, <5>1, <5>2
      <4> QED BY <2>1, <3>1, <4>1
    <3>4. q + 1 \in 1..Room(bs) /\ (q + 1) - 1 = q
      BY <1>1, <2>1, <3>1, <3>3 DEF h
    <3>5. ws[q + 1] = Word(bs, q)
      <4>1. ws[q + 1] = Word(bs, (q + 1) - 1)
        BY <1>1, <3>4
      <4> QED BY <3>4, <4>1
    <3>6. ASSUME NEW b \in ByteSet
          PROVE  ByteBits * r + b \in Word(bs, q) <=> ByteBits * (i - 1) + b \in S
      <4>1. /\ ByteBits * r + b \in WordSet
            /\ WordBits * q + (ByteBits * r + b) = ByteBits * (WordBytes * q + r) + b
        BY <3>1, InByte
      <4>2. ByteBits * r + b \in Word(bs, q) <=> WordBits * q + (ByteBits * r + b) \in S
        BY <3>1, <4>1 DEF Stands
      <4> QED BY <3>1, <4>1, <4>2
    <3>7. bytes[i] = { b \in ByteSet : ByteBits * r + b \in Word(bs, q) }
      BY <3>2, <3>5 DEF ByteOf, ByteSet
    <3> QED BY <3>6, <3>7
  <2>8. bytes \in Seq(SUBSET ByteSet) /\ Len(bytes) = total
    <3>1. DOMAIN bytes = 1..total /\ bytes = [i \in 1..total |-> bytes[i]]
      OBVIOUS
    <3> HIDE DEF bytes
    <3>2. \A i \in 1..total : bytes[i] \in SUBSET ByteSet
      BY <2>7
    <3>3. bytes \in [1..total -> SUBSET ByteSet]
      BY <3>1, <3>2
    <3> QED BY <2>6, <3>3, SeqOf
  <2> HIDE DEF bytes
  <2>9. ASSUME NEW x \in S
        PROVE  x \in 0..(ByteBits * total - 1)
    <3> DEFINE q == x \div WordBits
               r == x % WordBits
    <3>1. x \in Nat /\ q + 1 \in 1..Room(bs) /\ r \in ws[q + 1]
      BY Found DEF ws
    <3>2. q \in Nat /\ r \in WordSet /\ x = WordBits * q + r
      BY <3>1, Place
    <3> HIDE DEF q, r
    <3>3. q <= h
      <4>1. ASSUME h < q
            PROVE  FALSE
        <5>1. q + 1 \in (last + 1)..Room(bs)
          BY <1>1, <1>3, <2>1, <3>1, <3>2, <4>1 DEF h
        <5>2. ws[q + 1] = {}
          BY <1>1, <1>3, <5>1 DEF IsLast
        <5> QED BY <3>1, <5>2
      <4> QED BY <2>1, <3>2, <4>1
    <3>4. WordBits * h = ByteBits * (WordBytes * h)
      BY <1>0, <2>1
    <3> DEFINE y == WordBytes * h
    <3> HIDE DEF y
    <3>5. y \in Nat /\ total = y + t + 1 /\ ByteBits * y \in Nat /\ t \in Nat /\ ByteBits * t \in Nat
      BY <1>0, <2>4, <2>5, <2>6 DEF y
    <3>6. ByteBits * total = ByteBits * y + ByteBits * t + ByteBits
      BY <1>0, <3>5
    <3>7. CASE q = h
      <4>1. r \in Word(bs, h)
        <5>1. ws[q + 1] = Word(bs, (q + 1) - 1)
          BY <1>1, <3>1
        <5>2. (q + 1) - 1 = h
          BY <3>2, <3>7
        <5> QED BY <3>1, <5>1, <5>2
      <4>2. r <= top /\ r \in Nat
        BY <2>3, <3>2, <4>1 DEF WordSet
      <4>3. u \in Nat /\ u < ByteBits /\ top = ByteBits * t + u
        BY <1>0, <2>4 DEF ByteSet
      <4>4. x = ByteBits * y + r
        BY <3>2, <3>4, <3>7 DEF y
      <4> QED BY <1>0, <3>5, <3>6, <4>2, <4>3, <4>4
    <3>8. CASE q < h
      <4>1. WordBits * q + WordBits <= WordBits * h
        BY <1>0, <2>1, <3>2, <3>8, Ahead
      <4>2. r \in Nat /\ r < WordBits /\ WordBits * q \in Nat
        BY <1>0, <3>2 DEF WordSet
      <4>3. WordBits * h = ByteBits * y
        BY <3>4 DEF y
      <4>4. x < ByteBits * y
        BY <1>0, <3>2, <3>5, <4>1, <4>2, <4>3
      <4> QED BY <1>0, <3>1, <3>5, <3>6, <4>4
    <3> QED BY <2>1, <3>2, <3>3, <3>7, <3>8
  <2>10. BytesOfSet(bytes, S)
    <3>1. S \in SUBSET (0..(ByteBits * Len(bytes) - 1))
      BY <2>8, <2>9
    <3>2. ASSUME NEW k \in 1..Len(bytes), NEW b \in ByteSet
          PROVE  b \in bytes[k] <=> ByteBits * (k - 1) + b \in S
      BY <2>7, <2>8
    <3> QED BY <2>8, <3>1, <3>2 DEF BytesOfSet
  <2>11. bytes[total] # {}
    <3>1. WordBits * h + top \in S
      BY <2>1, <2>3 DEF Stands
    <3>2. WordBits * h + (ByteBits * t + u) = ByteBits * (WordBytes * h + t) + u
      BY <2>1, <2>4, InByte
    <3>3. total - 1 = WordBytes * h + t /\ total \in 1..total
      BY <2>4, <2>5, <2>6
    <3>4. ByteBits * (total - 1) + u \in S
      BY <2>4, <3>1, <3>2, <3>3
    <3>5. bytes[total] = { b \in ByteSet : ByteBits * (total - 1) + b \in S }
      BY <2>7, <3>3
    <3> QED BY <2>4, <3>4, <3>5
  <2> QED BY <1>2, <2>8, <2>10, <2>11
<1> QED BY <1>4, <1>5

LEMMA BytesJoined ==
  ASSUME NEW bytes, NEW S, BytesOfSet(bytes, S)
  PROVE  UNION { Shifted(bytes[k], k - 1) : k \in DOMAIN bytes } = S
<1>1. /\ bytes \in Seq(SUBSET ByteSet) /\ DOMAIN bytes = 1..Len(bytes) /\ Len(bytes) \in Nat
      /\ ByteBits \in Nat \ {0} /\ S \in SUBSET (0..(ByteBits * Len(bytes) - 1))
  BY Sizes DEF BytesOfSet
<1>2. ASSUME NEW k \in DOMAIN bytes, NEW x \in Shifted(bytes[k], k - 1)
      PROVE  x \in S
  <2>1. PICK b \in bytes[k] : x = ByteBits * (k - 1) + b
    BY DEF Shifted
  <2>2. bytes[k] \in SUBSET ByteSet
    BY <1>1
  <2>3. b \in ByteSet
    BY <2>1, <2>2
  <2> QED BY <1>1, <2>1, <2>3 DEF BytesOfSet
<1>3. ASSUME NEW x \in S
      PROVE  \E k \in DOMAIN bytes : x \in Shifted(bytes[k], k - 1)
  <2> DEFINE q == x \div ByteBits
             r == x % ByteBits
             L == Len(bytes)
  <2>1. x \in Nat /\ x < ByteBits * L /\ ByteBits * L \in Nat
    BY <1>1
  <2>2. q \in Nat /\ r \in 0..(ByteBits - 1) /\ x = ByteBits * q + r
    BY <1>1, <2>1, Divided
  <2> HIDE DEF q, r
  <2>3. q < L
    <3>1. ASSUME L <= q
          PROVE  FALSE
      <4>1. ByteBits * L <= ByteBits * q /\ ByteBits * q \in Nat
        <5>1. CASE L = q
          BY <1>1, <2>1, <5>1
        <5>2. CASE L < q
          <6>1. ByteBits * L + ByteBits <= ByteBits * q
            BY <1>1, <2>2, <5>2, Ahead
          <6>2. ByteBits * q \in Nat
            BY <1>1, <2>2
          <6> HIDE DEF L
          <6> QED BY <1>1, <2>1, <6>1, <6>2
        <5>3. L \in Nat
          BY <1>1
        <5> HIDE DEF L
        <5> QED BY <2>2, <3>1, <5>1, <5>2, <5>3
      <4> QED BY <1>1, <2>1, <2>2, <4>1
    <3> QED BY <1>1, <2>2, <3>1
  <2>4. q + 1 \in 1..L /\ (q + 1) - 1 = q
    BY <1>1, <2>2, <2>3
  <2>5. r \in bytes[q + 1]
    <3>1. ByteBits * ((q + 1) - 1) + r \in S
      BY <2>2, <2>4
    <3> QED BY <2>2, <2>4, <3>1 DEF BytesOfSet, ByteSet
  <2>6. x \in Shifted(bytes[q + 1], (q + 1) - 1)
    BY <2>2, <2>4, <2>5 DEF Shifted
  <2> QED BY <1>1, <2>4, <2>6
<1> QED BY <1>2, <1>3

----------------------------------------------------------------------------
(* The ones counted.                                                       *)

\* f counts the ones of the first words.
Counts(f, ws) ==
  f = [n \in 0..Len(ws) |-> IF n = 0 THEN 0 ELSE f[n - 1] + Cardinality(ws[n])]

\* There is such a function: it is extended word by word.
LEMMA CountsExists ==
  ASSUME NEW ws, Len(ws) \in Nat
  PROVE  \E f : Counts(f, ws)
<1> DEFINE Upto(f, m) ==
             f = [n \in 0..m |-> IF n = 0 THEN 0 ELSE f[n - 1] + Cardinality(ws[n])]
           P == { m \in Nat : \E f : Upto(f, m) }
<1>1. 0 \in P
  <2>1. Upto([n \in 0..0 |-> 0], 0)
    OBVIOUS
  <2> QED BY <2>1
<1>2. ASSUME NEW m \in P
      PROVE  m + 1 \in P
  <2>1. PICK f : Upto(f, m)
    BY <1>2
  <2>2. m \in Nat
    BY <1>2
  <2> DEFINE g == [n \in 0..(m + 1) |-> IF n <= m THEN f[n] ELSE f[m] + Cardinality(ws[m + 1])]
             Step(n) == IF n = 0 THEN 0 ELSE g[n - 1] + Cardinality(ws[n])
  <2>3. ASSUME NEW n \in 0..(m + 1)
        PROVE  g[n] = Step(n)
    <3>1. CASE n = 0
      <4>1. g[n] = f[0]
        BY <2>2, <3>1
      <4>2. f[0] = 0
        BY <2>1, <2>2
      <4> QED BY <3>1, <4>1, <4>2
    <3>2. CASE n # 0 /\ n <= m
      <4>1. n - 1 \in 0..(m + 1) /\ n - 1 <= m /\ n \in 0..m
        BY <2>2, <3>2
      <4>2. g[n] = f[n] /\ g[n - 1] = f[n - 1]
        BY <3>2, <4>1
      <4> HIDE DEF g
      <4>3. f[n] = f[n - 1] + Cardinality(ws[n])
        BY <2>1, <3>2, <4>1
      <4> QED BY <3>2, <4>2, <4>3
    <3>3. CASE n = m + 1
      <4>1. n # 0 /\ ~(n <= m) /\ n - 1 = m /\ m \in 0..(m + 1) /\ m <= m
        BY <2>2, <3>3
      <4>2. g[n] = f[m] + Cardinality(ws[m + 1]) /\ g[m] = f[m]
        BY <4>1
      <4> HIDE DEF g
      <4> QED BY <3>3, <4>1, <4>2
    <3> QED BY <2>2, <3>1, <3>2, <3>3
  <2>4. g = [n \in 0..(m + 1) |-> g[n]]
    OBVIOUS
  <2> HIDE DEF g
  <2>5. g = [n \in 0..(m + 1) |-> Step(n)]
    BY <2>3, <2>4
  <2>6. Upto(g, m + 1)
    BY <2>5
  <2> HIDE DEF Upto
  <2> QED BY <2>2, <2>6
<1> HIDE DEF Upto
<1>3. P \in SUBSET Nat
  OBVIOUS
<1>4. \A m \in P : m + 1 \in P
  BY <1>2
<1> HIDE DEF P
<1>5. \A m \in Nat : m \in P
  BY <1>1, <1>3, <1>4, Counting
<1>6. \E f : Upto(f, Len(ws))
  BY <1>5 DEF P
<1> QED BY <1>6 DEF Upto, Counts

LEMMA OnesIs ==
  ASSUME NEW ws, Len(ws) \in Nat
  PROVE  \E f : Counts(f, ws) /\ Ones(ws) = f[Len(ws)]
<1> DEFINE sum == CHOOSE f : Counts(f, ws)
<1>1. Counts(sum, ws)
  BY CountsExists
<1>2. Ones(ws) = sum[Len(ws)]
  BY Zenon DEF Ones, Counts
<1> HIDE DEF sum
<1> QED BY <1>1, <1>2

\* The bits of a word are as many as their numbers.
LEMMA SameMany ==
  ASSUME NEW k \in Nat, NEW word \in SUBSET WordSet
  PROVE  /\ IsFiniteSet(word) /\ Cardinality(word) \in Nat
         /\ IsFiniteSet({ k + b : b \in word })
         /\ Cardinality({ k + b : b \in word }) = Cardinality(word)
<1> DEFINE T == { k + b : b \in word }
           f == [b \in word |-> k + b]
<1>1. IsFiniteSet(word) /\ Cardinality(word) \in Nat
  <2>1. IsFiniteSet(WordSet)
    BY FS_Interval, Sizes DEF WordSet
  <2>2. word \subseteq WordSet
    OBVIOUS
  <2>3. IsFiniteSet(word)
    BY <2>1, <2>2, FS_Subset
  <2> QED BY <2>3, FS_CardinalityType
<1>2. \A b \in word : b \in Nat
  BY Sizes DEF WordSet
<1>3. f \in Bijection(word, T)
  <2>1. f \in [word -> T]
    OBVIOUS
  <2>2. \A a, b \in word : f[a] = f[b] => a = b
    BY <1>2
  <2>3. \A t \in T : \E b \in word : f[b] = t
    OBVIOUS
  <2> HIDE DEF f, T
  <2>4. f \in Injection(word, T)
    BY <2>1, <2>2 DEF Injection, IsInjective
  <2>5. f \in Surjection(word, T)
    BY <2>1, <2>3 DEF Surjection
  <2> QED BY <2>4, <2>5 DEF Bijection
<1>4. ExistsBijection(word, T)
  BY <1>3 DEF ExistsBijection
<1> HIDE DEF T
<1>5. IsFiniteSet(T) /\ Cardinality(T) = Cardinality(word)
  BY <1>1, <1>4, FS_Bijection
<1> QED BY <1>1, <1>5 DEF T

LEMMA CountIs ==
  ASSUME NEW bs, NEW S, Stands(bs, S)
  PROVE  count_set(bs) = Cardinality(S)
<1> DEFINE ws == Words(bs)
           N == Room(bs)
           Below(n) == { x \in S : x < WordBits * n }
<1>1. /\ bs \in BitSets /\ N \in Nat /\ ws \in Seq(SUBSET WordSet) /\ Len(ws) = N
      /\ \A w \in 1..N : w - 1 \in Nat /\ ws[w] = Word(bs, w - 1)
  <2>1. bs \in BitSets
    BY DEF Stands
  <2> QED BY <2>1, WordsAre, Parts
<1>2. \A x \in S : x \in Nat
  BY Found
<1>3. WordBits \in Nat \ {0}
  BY Sizes
<1>4. PICK f : Counts(f, ws) /\ count_set(bs) = f[N]
  <2>1. count_set(bs) = Ones(ws)
    BY DEF count_set
  <2> HIDE DEF ws, N
  <2> QED BY <1>1, <2>1, OnesIs
<1> HIDE DEF ws, N
<1> DEFINE P == { n \in Nat : n <= N => IsFiniteSet(Below(n)) /\ f[n] = Cardinality(Below(n)) }
<1>5. 0 \in P
  <2>1. Below(0) = {}
    BY <1>2, <1>3
  <2>2. f[0] = 0
    BY <1>1, <1>4 DEF Counts
  <2> HIDE DEF Below
  <2> QED BY <2>1, <2>2, FS_EmptySet
<1>6. ASSUME NEW n \in P
      PROVE  n + 1 \in P
  <2>0. n \in Nat
    BY <1>6
  <2>1. SUFFICES ASSUME n + 1 <= N
                 PROVE  IsFiniteSet(Below(n + 1)) /\ f[n + 1] = Cardinality(Below(n + 1))
    BY <2>0
  <2>2. IsFiniteSet(Below(n)) /\ f[n] = Cardinality(Below(n))
    BY <1>1, <1>6, <2>0, <2>1
  <2> DEFINE word == Word(bs, n)
             T == { WordBits * n + b : b \in word }
  <2>3. n + 1 \in 1..N /\ (n + 1) - 1 = n
    BY <1>1, <2>0, <2>1
  <2>4. ws[n + 1] = word
    <3>1. ws[n + 1] = Word(bs, (n + 1) - 1)
      BY <1>1, <2>3
    <3> QED BY <2>3, <3>1
  <2>5. word \in SUBSET WordSet /\ WordBits * n \in Nat
    BY <1>1, <1>3, <2>0, WordIs
  <2>6. IsFiniteSet(T) /\ Cardinality(T) = Cardinality(word) /\ Cardinality(word) \in Nat
    BY <2>5, SameMany
  <2>7. WordBits * (n + 1) = WordBits * n + WordBits
    BY <1>3, <2>0
  <2>8. Below(n + 1) = Below(n) \cup T
    <3>1. ASSUME NEW x \in S, x < WordBits * (n + 1), ~(x < WordBits * n)
          PROVE  x \in T
      <4>1. x \in Nat /\ x - WordBits * n \in WordSet
            /\ WordBits * n + (x - WordBits * n) = x
        BY <1>2, <1>3, <2>5, <2>7, <3>1 DEF WordSet
      <4>2. x - WordBits * n \in word
        BY <2>0, <4>1 DEF Stands
      <4> QED BY <4>1, <4>2
    <3>2. ASSUME NEW x \in T
          PROVE  x \in S /\ x < WordBits * (n + 1)
      <4>1. PICK b \in word : x = WordBits * n + b
        OBVIOUS
      <4>2. b \in WordSet
        BY <2>5
      <4>3. x \in S
        BY <2>0, <4>1, <4>2 DEF Stands
      <4> QED BY <1>3, <2>5, <2>7, <4>1, <4>2, <4>3 DEF WordSet
    <3>3. ASSUME NEW x \in Below(n)
          PROVE  x < WordBits * (n + 1)
      BY <1>2, <1>3, <2>5, <2>7
    <3> HIDE DEF T
    <3> QED BY <3>1, <3>2, <3>3
  <2>9. Below(n) \cap T = {}
    <3>1. ASSUME NEW x \in T
          PROVE  ~(x < WordBits * n)
      <4>1. PICK b \in word : x = WordBits * n + b
        OBVIOUS
      <4>2. b \in Nat
        BY <1>3, <2>5 DEF WordSet
      <4> QED BY <2>5, <4>1, <4>2
    <3> HIDE DEF T
    <3> QED BY <3>1
  <2> HIDE DEF Below, T
  <2>10. /\ IsFiniteSet(Below(n) \cup T)
         /\ Cardinality(Below(n) \cup T) = Cardinality(Below(n)) + Cardinality(T)
    <3>1. Cardinality(Below(n)) \in Nat
      BY <2>2, FS_CardinalityType
    <3>2. /\ IsFiniteSet(Below(n) \cup T)
          /\ Cardinality(Below(n) \cup T) =
               Cardinality(Below(n)) + Cardinality(T) - Cardinality(Below(n) \cap T)
      BY <2>2, <2>6, FS_Union
    <3>3. Cardinality({}) = 0
      BY FS_EmptySet
    <3>4. Cardinality(Below(n) \cap T) = 0
      BY <2>9, <3>3
    <3>5. Cardinality(T) \in Nat
      BY <2>6
    <3> QED BY <3>1, <3>2, <3>4, <3>5
  <2>11. f[n + 1] = f[n] + Cardinality(word)
    <3>1. n + 1 \in 0..Len(ws) /\ n + 1 # 0
      BY <1>1, <2>0, <2>3
    <3>2. f[n + 1] = f[(n + 1) - 1] + Cardinality(ws[n + 1])
      BY <1>4, <3>1 DEF Counts
    <3> QED BY <2>3, <2>4, <3>2
  <2> QED BY <2>2, <2>6, <2>8, <2>10, <2>11
<1> HIDE DEF Below
<1>7. P \in SUBSET Nat
  OBVIOUS
<1>8. \A n \in P : n + 1 \in P
  BY <1>6
<1> HIDE DEF P
<1>9. \A n \in Nat : n \in P
  BY <1>5, <1>7, <1>8, Counting
<1>10. f[N] = Cardinality(Below(N))
  <2>1. N \in P /\ N <= N
    BY <1>1, <1>9
  <2> QED BY <2>1 DEF P
<1>11. Below(N) = S
  <2>1. ASSUME NEW x \in S
        PROVE  x < WordBits * N
    <3> DEFINE q == x \div WordBits
               r == x % WordBits
    <3>1. x \in Nat /\ q + 1 \in 1..N
      BY Found DEF N
    <3>2. q \in Nat /\ r \in WordSet /\ x = WordBits * q + r
      BY <3>1, Place
    <3> HIDE DEF q, r
    <3>3. WordBits * q + WordBits <= WordBits * N
      <4>1. q < N
        BY <1>1, <3>1, <3>2
      <4> QED BY <1>1, <1>3, <3>2, <4>1, Ahead
    <3>4. WordBits * q \in Nat /\ WordBits * N \in Nat /\ r \in Nat /\ r < WordBits
      BY <1>1, <1>3, <3>2 DEF WordSet
    <3> QED BY <1>3, <3>2, <3>3, <3>4
  <2> QED BY <2>1 DEF Below
<1> QED BY <1>4, <1>10, <1>11

----------------------------------------------------------------------------
(* The machine.                                                            *)

LEMMA StandsAgrees ==
  ASSUME Stands(bits, marks)
  PROVE  BitSetAgrees
<1> DEFINE bytes == encode(bits)
<1>1. to_vec(bits) = marks /\ count_set(bits) = Cardinality(marks)
  BY ToVecIs, CountIs
<1>2. is_empty(bits) <=> marks = {}
  BY EmptyIs
<1>3. \A i \in 0..(2 * MaxBit) : is_set(bits, i) <=> i \in marks
  BY SetHas, Sizes
<1>4. \A i \in marks : i < bits.bit_count
  <2>1. bits \in BitSets /\ marks \subseteq 0..(bits.bit_count - 1)
    BY DEF Stands
  <2>2. bits.bit_count \in Nat
    BY <2>1, Parts
  <2> QED BY <2>1, <2>2
<1>5. bytes # << >> => bytes[Len(bytes)] # {}
  BY EncodeIs
<1>6. UNION { Shifted(bytes[k], k - 1) : k \in DOMAIN bytes } = marks
  BY EncodeIs, BytesJoined
<1> QED BY <1>1, <1>2, <1>3, <1>4, <1>5, <1>6 DEF BitSetAgrees

LEMMA StandsNext ==
  ASSUME Stands(bits, marks), [BitSetNext]_bitVars
  PROVE  Stands(bits, marks)'
<1>0. bits \in BitSets /\ MaxBit \in Nat
  BY Sizes DEF Stands
<1>1. ASSUME NEW i \in BitNumbers, SetBit(i) \/ ClearBit(i) \/ Toggle(i)
      PROVE  Stands(bits, marks)'
  <2>1. i \in Nat
    BY <1>0 DEF BitNumbers
  <2>2. CASE SetBit(i)
    BY <2>1, <2>2, SetStands DEF SetBit, BitStep
  <2>3. CASE ClearBit(i)
    BY <2>1, <2>3, ClearStands DEF ClearBit, BitStep
  <2>4. CASE Toggle(i)
    BY <2>1, <2>4, ToggleStands DEF Toggle, BitStep
  <2> QED BY <1>1, <2>2, <2>3, <2>4
<1>2. CASE ClearAll
  BY <1>0, <1>2, ClearAllStands DEF ClearAll, BitStep
<1>3. CASE Recode
  <2>1. Stands(decode(encode(bits)), marks)
    BY EncodeIs, DecodeStands
  <2> QED BY <1>3, <2>1 DEF Recode, BitStep
<1>4. ASSUME NEW n \in 0..(MaxBit + 1), AllSet(n) \/ Intersect(n)
      PROVE  Stands(bits, marks)'
  <2>1. n \in Nat
    BY <1>0
  <2>2. Stands(all_set(n), 0..(n - 1))
    BY <2>1, AllSetStands
  <2>3. CASE AllSet(n)
    BY <2>2, <2>3 DEF AllSet, BitStep
  <2>4. CASE Intersect(n)
    BY <2>2, <2>4, IntersectionStands DEF Intersect, BitStep
  <2> QED BY <1>4, <2>3, <2>4
<1>5. ASSUME NEW on \in SUBSET BitNumbers, FromBits(on)
      PROVE  Stands(bits, marks)'
  BY <1>0, <1>5, FromBitsStands DEF FromBits, BitStep, BitNumbers
<1>6. ASSUME NEW a \in BitNumbers, NEW b \in 0..a, Union(a, b)
      PROVE  Stands(bits, marks)'
  <2>1. {a, b} \in SUBSET (0..MaxBit)
    BY <1>0 DEF BitNumbers
  <2>2. Stands(from_bits({a, b}), {a, b})
    BY <1>0, <2>1, FromBitsStands
  <2>3. Stands(bitor(bits, from_bits({a, b})), marks \cup {a, b})
    BY <2>2, UnionStands
  <2> QED BY <1>6, <2>3 DEF Union, BitStep
<1>7. CASE UNCHANGED bitVars
  BY <1>7 DEF bitVars, Stands, Word
<1> QED BY <1>1, <1>2, <1>3, <1>4, <1>5, <1>6, <1>7 DEF BitSetNext

\* For any width of bytes and words, any number of inline words and any
\* sequence of operations a PvaBitSet has the bits it was given, reports them
\* alike by is_set, iter_set and is_empty, and its bytes are those of its bits
\* without trailing zeros.
THEOREM BitSetHoldsItsBits == BitSetSpec => []BitSetAgrees
<1>1. BitSetInit => Stands(bits, marks)
  BY NewStands DEF BitSetInit
<1>2. Stands(bits, marks) /\ [BitSetNext]_bitVars => Stands(bits, marks)'
  BY StandsNext
<1>3. Stands(bits, marks) => BitSetAgrees
  BY StandsAgrees
<1> QED BY <1>1, <1>2, <1>3, PTL DEF BitSetSpec
=============================================================================
