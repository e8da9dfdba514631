--------------------------- MODULE DiscoverProofs ---------------------------
(***************************************************************************)
(* The safety of the discovery pipeline, for any PVs, IOCs, number of      *)
(* edits and number of faults.                                             *)
(*                                                                         *)
(* Three questions have an answer at every moment for a PV that is not     *)
(* lost: has the poller seen it or will it (Noticed); is one that it knows *)
(* subscribed, or is a subscribe on its way (Cared); and does a stale      *)
(* unsubscribe in Redis have a subscribe behind it (Ordered).              *)
(***************************************************************************)
EXTENDS Discover, TLAPS

Phases == {"boot", "boot_loaded", "idle", "polled", "fetch", "flush", "dead"}

Types ==
  /\ config \in [PVs -> {"absent", "off", "on"}]
  /\ beat \in [PVs -> 0..1]
  /\ ioc_config \subseteq IOCs /\ name_servers \subseteq IOCs
  /\ updated \subseteq PVs /\ expected \subseteq PVs
  /\ orch \in [phase : Phases, rows : SUBSET PVs]
  /\ DOMAIN known \subseteq PVs
  /\ commands \in Seq(Command) /\ redis \in Seq(Command)
  /\ notify \in Seq(Command)
  /\ listener \in {"connecting", "on", "broken", "deaf", "gone"}
  /\ main \in {"start", "listening", "running"}
  /\ pv_server_cache \in [PVs -> IOCs \cup {None}]
  /\ failed_pvs \subseteq PVs /\ pv_ids \subseteq PVs /\ lost \subseteq PVs

\* What the orchestrator resolved is what it knows; a batch is there only until
\* it is flushed; a cycle goes on only for changed rows.
Books ==
  /\ pending = {} /\ resolved = DOMAIN known
  /\ orch.phase \in {"boot", "boot_loaded"} => DOMAIN known = {}
  /\ orch.phase # "flush" => commands = << >>
  /\ orch.phase = "fetch" => orch.rows # {}
  /\ main = "start" => redis = << >>

\* The next poll, or the one under way, will take p for new.
Coming(p) ==
  \/ orch.phase \in {"boot", "fetch"}
  \/ orch.phase \in {"boot_loaded", "polled"} /\ p \in orch.rows
  \/ orch.phase \in {"idle", "flush"} /\ p \in updated

Noticed ==
  \A p \in Enabled \ lost : p \in DOMAIN known \/ Coming(p) \/ Held(p)

\* A row that the poller knows, paused or not, is archived or about to be.
Cared ==
  main = "running" =>
    \A p \in (Rows \cap DOMAIN known) \ lost :
       \/ Archived(p)
       \/ p \in OnItsWay("subscribe") \/ p \in NamesOf(notify, "subscribe")

\* The driver knows a PV whose samples have no id only if the PV is lost.
Whole == \A p \in Subscribed \ lost : p \in pv_ids

\* No unsubscribe of p is the last command of p that was queued or sent.
LastIsSubscribe(p) ==
  /\ p \notin NamesOf(commands, "unsubscribe")
  /\ \A j \in DOMAIN redis :
       redis[j].cmd = "unsubscribe" /\ p \in redis[j].pvs
       => \/ p \in NamesOf(commands, "subscribe")
          \/ \E k \in DOMAIN redis :
                k > j /\ redis[k].cmd = "subscribe" /\ p \in redis[k].pvs

\* Of a PV the poller knows the last command sent is a subscribe, unless that
\* subscribe was lost with the orchestrator.
Ordered ==
  \A p \in DOMAIN known :
     (orch.phase = "dead" /\ p \in lost) \/ LastIsSubscribe(p)

Inv == Types /\ Books /\ Noticed /\ Cared /\ Whole /\ Ordered

----------------------------------------------------------------------------
(* Queues of commands.                                                     *)

LEMMA InNames ==
  ASSUME NEW s, NEW kind, NEW p
  PROVE  p \in NamesOf(s, kind)
           <=> \E k \in DOMAIN s : s[k].cmd = kind /\ p \in s[k].pvs
BY DEF NamesOf

LEMMA NamesEmpty == \A kind : NamesOf(<< >>, kind) = {}
BY DEF NamesOf

LEMMA NamesTyped ==
  ASSUME NEW s \in Seq(Command), NEW kind
  PROVE  NamesOf(s, kind) \subseteq PVs
<1>1. \A k \in DOMAIN s : s[k] \in Command
  OBVIOUS
<1>2. \A c \in Command : c.pvs \subseteq PVs
  BY DEF Command
<1> QED
  BY <1>1, <1>2, InNames

LEMMA NamesAppend ==
  ASSUME NEW s \in Seq(Command), NEW c \in Command, NEW kind
  PROVE  /\ Append(s, c) \in Seq(Command)
         /\ NamesOf(s, kind) \subseteq NamesOf(Append(s, c), kind)
         /\ c.cmd = kind => c.pvs \subseteq NamesOf(Append(s, c), kind)
<1>1. /\ Append(s, c) \in Seq(Command) /\ Len(Append(s, c)) = Len(s) + 1
      /\ \A k \in 1..Len(s) : Append(s, c)[k] = s[k]
      /\ Append(s, c)[Len(s) + 1] = c
  OBVIOUS
<1>2. /\ DOMAIN s = 1..Len(s) /\ Len(s) \in Nat
      /\ DOMAIN Append(s, c) = 1..(Len(s) + 1)
  BY <1>1
<1> HIDE DEF Command
<1>3. ASSUME NEW p \in NamesOf(s, kind) PROVE p \in NamesOf(Append(s, c), kind)
  <2>1. PICK k \in DOMAIN s : s[k].cmd = kind /\ p \in s[k].pvs
    BY InNames
  <2>2. k \in DOMAIN Append(s, c) /\ Append(s, c)[k] = s[k]
    BY <1>1, <1>2
  <2> QED
    BY <2>1, <2>2, InNames
<1>4. ASSUME c.cmd = kind, NEW p \in c.pvs PROVE p \in NamesOf(Append(s, c), kind)
  <2>1. Len(s) + 1 \in DOMAIN Append(s, c)
    BY <1>2
  <2> QED
    BY <1>1, <1>4, <2>1, InNames
<1> QED
  BY <1>1, <1>3, <1>4

LEMMA NamesConcat ==
  ASSUME NEW s \in Seq(Command), NEW t \in Seq(Command), NEW kind
  PROVE  /\ s \o t \in Seq(Command)
         /\ NamesOf(s \o t, kind) = NamesOf(s, kind) \cup NamesOf(t, kind)
<1>1. /\ s \o t \in Seq(Command)
      /\ Len(s) \in Nat /\ Len(t) \in Nat
      /\ DOMAIN s = 1..Len(s) /\ DOMAIN t = 1..Len(t)
      /\ DOMAIN (s \o t) = 1..(Len(s) + Len(t))
      /\ \A k \in 1..Len(s) : (s \o t)[k] = s[k]
      /\ \A k \in 1..Len(t) : (s \o t)[Len(s) + k] = t[k]
  OBVIOUS
<1>2. ASSUME NEW p \in NamesOf(s \o t, kind)
      PROVE  p \in NamesOf(s, kind) \cup NamesOf(t, kind)
  <2>1. PICK k \in DOMAIN (s \o t) : (s \o t)[k].cmd = kind /\ p \in (s \o t)[k].pvs
    BY InNames
  <2>2. CASE k \in DOMAIN s
    BY <1>1, <2>1, <2>2, InNames
  <2>3. CASE k \notin DOMAIN s
    <3>1. k - Len(s) \in 1..Len(t) /\ Len(s) + (k - Len(s)) = k
      BY <1>1, <2>3
    <3>2. (s \o t)[k] = t[k - Len(s)]
      BY <1>1, <3>1
    <3> QED
      BY <1>1, <2>1, <3>1, <3>2, InNames
  <2> QED
    BY <2>2, <2>3
<1>3. ASSUME NEW p \in NamesOf(s, kind) PROVE p \in NamesOf(s \o t, kind)
  <2>1. PICK k \in DOMAIN s : s[k].cmd = kind /\ p \in s[k].pvs
    BY InNames
  <2>2. k \in DOMAIN (s \o t) /\ (s \o t)[k] = s[k]
    BY <1>1
  <2> QED
    BY <2>1, <2>2, InNames
<1>4. ASSUME NEW p \in NamesOf(t, kind) PROVE p \in NamesOf(s \o t, kind)
  <2>1. PICK k \in DOMAIN t : t[k].cmd = kind /\ p \in t[k].pvs
    BY InNames
  <2>2. Len(s) + k \in DOMAIN (s \o t) /\ (s \o t)[Len(s) + k] = t[k]
    BY <1>1
  <2> QED
    BY <2>1, <2>2, InNames
<1> QED
  BY <1>1, <1>2, <1>3, <1>4

\* Taking a prefix off a queue.
LEMMA NamesSuffix ==
  ASSUME NEW s \in Seq(Command), NEW n \in 0..Len(s), NEW kind
  PROVE  /\ SubSeq(s, 1, n) \in Seq(Command)
         /\ SubSeq(s, n + 1, Len(s)) \in Seq(Command)
         /\ NamesOf(s, kind) = NamesOf(SubSeq(s, 1, n), kind)
                                 \cup NamesOf(SubSeq(s, n + 1, Len(s)), kind)
<1> DEFINE a == SubSeq(s, 1, n)
           b == SubSeq(s, n + 1, Len(s))
<1>1. /\ a \in Seq(Command) /\ b \in Seq(Command)
      /\ Len(s) \in Nat /\ DOMAIN s = 1..Len(s)
      /\ DOMAIN a = 1..n /\ DOMAIN b = 1..(Len(s) - n)
      /\ \A k \in 1..n : a[k] = s[k]
      /\ \A k \in 1..(Len(s) - n) : b[k] = s[n + k]
  OBVIOUS
<1> HIDE DEF a, b
<1>2. ASSUME NEW p \in NamesOf(s, kind) PROVE p \in NamesOf(a, kind) \cup NamesOf(b, kind)
  <2>1. PICK k \in DOMAIN s : s[k].cmd = kind /\ p \in s[k].pvs
    BY InNames
  <2>2. CASE k <= n
    BY <1>1, <2>1, <2>2, InNames
  <2>3. CASE k > n
    <3>1. k - n \in 1..(Len(s) - n) /\ n + (k - n) = k
      BY <1>1, <2>3
    <3> QED
      BY <1>1, <2>1, <3>1, InNames
  <2> QED
    BY <1>1, <2>2, <2>3
<1>3. ASSUME NEW p \in NamesOf(a, kind) PROVE p \in NamesOf(s, kind)
  <2>1. PICK k \in DOMAIN a : a[k].cmd = kind /\ p \in a[k].pvs
    BY InNames
  <2>2. k \in DOMAIN s /\ a[k] = s[k]
    BY <1>1
  <2> QED
    BY <2>1, <2>2, InNames
<1>4. ASSUME NEW p \in NamesOf(b, kind) PROVE p \in NamesOf(s, kind)
  <2>1. PICK k \in DOMAIN b : b[k].cmd = kind /\ p \in b[k].pvs
    BY InNames
  <2>2. n + k \in DOMAIN s /\ b[k] = s[n + k]
    BY <1>1
  <2> QED
    BY <2>1, <2>2, InNames
<1> QED
  BY <1>1, <1>2, <1>3, <1>4 DEF a, b

LEMMA NamesTail ==
  ASSUME NEW s \in Seq(Command), s # << >>, NEW kind
  PROVE  /\ Tail(s) \in Seq(Command) /\ Head(s) \in Command
         /\ NamesOf(s, kind) =
              (IF Head(s).cmd = kind THEN Head(s).pvs ELSE {}) \cup NamesOf(Tail(s), kind)
<1>1. /\ Tail(s) \in Seq(Command) /\ Head(s) = s[1] /\ s[1] \in Command
      /\ Len(s) \in Nat \ {0} /\ DOMAIN s = 1..Len(s)
      /\ DOMAIN Tail(s) = 1..(Len(s) - 1)
      /\ \A k \in 1..(Len(s) - 1) : Tail(s)[k] = s[k + 1]
  OBVIOUS
<1>2. ASSUME NEW p \in NamesOf(s, kind), p \notin NamesOf(Tail(s), kind)
      PROVE  Head(s).cmd = kind /\ p \in Head(s).pvs
  <2>1. PICK k \in DOMAIN s : s[k].cmd = kind /\ p \in s[k].pvs
    BY InNames
  <2>2. CASE k = 1
    BY <1>1, <2>1, <2>2
  <2>3. CASE k # 1
    <3>1. k - 1 \in 1..(Len(s) - 1) /\ (k - 1) + 1 = k
      BY <1>1, <2>3
    <3>2. k - 1 \in DOMAIN Tail(s) /\ Tail(s)[k - 1] = s[k]
      BY <1>1, <3>1
    <3>3. p \in NamesOf(Tail(s), kind)
      BY <2>1, <3>2, InNames
    <3> QED
      BY <1>2, <3>3
  <2> QED
    BY <2>2, <2>3
<1>3. ASSUME NEW p \in NamesOf(Tail(s), kind) PROVE p \in NamesOf(s, kind)
  <2>1. PICK k \in DOMAIN Tail(s) : Tail(s)[k].cmd = kind /\ p \in Tail(s)[k].pvs
    BY InNames
  <2>2. k + 1 \in DOMAIN s /\ Tail(s)[k] = s[k + 1]
    BY <1>1
  <2> QED
    BY <2>1, <2>2, InNames
<1>4. ASSUME Head(s).cmd = kind, NEW p \in Head(s).pvs PROVE p \in NamesOf(s, kind)
  <2>1. 1 \in DOMAIN s
    BY <1>1
  <2> QED
    BY <1>1, <1>4, <2>1, InNames
<1> QED
  BY <1>1, <1>2, <1>3, <1>4

LEMMA BatchNames ==
  ASSUME NEW subs \in SUBSET PVs, NEW unsubs \in SUBSET PVs
  PROVE  /\ Batch(subs, unsubs) \in Seq(Command)
         /\ NamesOf(Batch(subs, unsubs), "subscribe") = subs
         /\ NamesOf(Batch(subs, unsubs), "unsubscribe") = unsubs
<1> DEFINE a == IF subs = {} THEN << >> ELSE << SubscribeBatch(subs) >>
           b == IF unsubs = {} THEN << >> ELSE << UnsubscribeBatch(unsubs) >>
<1>1. SubscribeBatch(subs) \in Command /\ UnsubscribeBatch(unsubs) \in Command
  BY DEF SubscribeBatch, UnsubscribeBatch, Command
<1>2. a \in Seq(Command) /\ b \in Seq(Command)
  BY <1>1
<1>3. /\ SubscribeBatch(subs).cmd = "subscribe" /\ SubscribeBatch(subs).pvs = subs
      /\ UnsubscribeBatch(unsubs).cmd = "unsubscribe"
      /\ UnsubscribeBatch(unsubs).pvs = unsubs
  BY DEF SubscribeBatch, UnsubscribeBatch
<1>4. ASSUME NEW c, NEW kind
      PROVE  NamesOf(<< c >>, kind) = IF c.cmd = kind THEN c.pvs ELSE {}
  <2>1. DOMAIN << c >> = {1} /\ << c >>[1] = c
    OBVIOUS
  <2> QED
    BY <2>1 DEF NamesOf
<1>5. /\ NamesOf(a, "subscribe") = subs /\ NamesOf(a, "unsubscribe") = {}
      /\ NamesOf(b, "subscribe") = {} /\ NamesOf(b, "unsubscribe") = unsubs
  <2>1. CASE subs = {}
    BY <2>1, <1>3, <1>4, NamesEmpty
  <2>2. CASE subs # {}
    BY <2>2, <1>3, <1>4, NamesEmpty
  <2> QED
    BY <2>1, <2>2
<1>6. Batch(subs, unsubs) = a \o b
  BY DEF Batch
<1> HIDE DEF a, b
<1>7. a \o b \in Seq(Command)
  BY <1>2
<1>8. NamesOf(a \o b, "subscribe") = NamesOf(a, "subscribe") \cup NamesOf(b, "subscribe")
  BY <1>2, NamesConcat
<1>9. NamesOf(a \o b, "unsubscribe") = NamesOf(a, "unsubscribe")
                                         \cup NamesOf(b, "unsubscribe")
  BY <1>2, NamesConcat
<1> QED
  BY <1>5, <1>6, <1>7, <1>8, <1>9

----------------------------------------------------------------------------
(* The operators' edits.                                                   *)

LEMMA InitInv == Init => Inv
<1> SUFFICES ASSUME Init PROVE Inv
  OBVIOUS
<1>1. << >> \in Seq(Command) /\ DOMAIN << >> = {}
  OBVIOUS
<1>2. Types
  BY <1>1, DiscoverAssumption DEF Init, Types, Phases, Rows
<1>3. Books
  BY <1>1 DEF Init, Books
<1>4. Noticed /\ Cared /\ Whole /\ Ordered
  BY <1>1, DiscoverAssumption
     DEF Init, Noticed, Cared, Whole, Ordered, LastIsSubscribe, Coming, Subscribed
<1> QED
  BY <1>2, <1>3, <1>4 DEF Inv

LEMMA NotifyKeeps ==
  ASSUME Types, NEW c \in Command, Notify(c)
  PROVE  /\ notify' \in Seq(Command)
         /\ NamesOf(notify, "subscribe") \subseteq NamesOf(notify, "subscribe")'
         /\ listener = "on" /\ c.cmd = "subscribe"
              => c.pvs \subseteq NamesOf(notify, "subscribe")'
<1>1. notify \in Seq(Command)
  BY DEF Types
<1>2. CASE listener = "on"
  <2>1. notify' = Append(notify, c)
    BY <1>2 DEF Notify
  <2>2. NamesOf(notify, "subscribe")' = NamesOf(Append(notify, c), "subscribe")
    BY <2>1 DEF NamesOf
  <2> QED
    BY <1>1, <2>1, <2>2, NamesAppend
<1>3. CASE listener # "on"
  <2>1. notify' = notify
    BY <1>3 DEF Notify
  <2>2. NamesOf(notify, "subscribe")' = NamesOf(notify, "subscribe")
    BY <2>1 DEF NamesOf
  <2> QED
    BY <1>1, <1>3, <2>1, <2>2
<1> QED
  BY <1>2, <1>3

\* What an edit of the tables leaves alone.
Elsewhere == << discover, redis, listener, ingest >>

\* An edit keeps the invariant if it is noticed: the row it touches is in
\* updated or lost, and one the poller knows is cared for or lost.
LEMMA EditInv ==
  ASSUME Inv, UNCHANGED Elsewhere,
         Types',
         lost \subseteq lost',
         NamesOf(notify, "subscribe") \subseteq NamesOf(notify, "subscribe")',
         \A p \in Enabled' \ lost' :
            \/ p \in Enabled /\ (p \in updated => p \in updated')
            \/ /\ p \in updated' /\ ~InWindow
               /\ orch.phase = "dead" => p \in DOMAIN known \/ Held(p)',
         \A p \in Rows' \ lost' :
            p \in Rows \/ p \notin DOMAIN known
            \/ p \in NamesOf(notify, "subscribe")'
  PROVE  Inv'
<1>1. Books'
  BY DEF Inv, Books, Elsewhere, discover, ingest
<1>2. \A kind : OnItsWay(kind)' = OnItsWay(kind)
  BY DEF OnItsWay, NamesOf, Elsewhere, discover
<1>3. \A p : Archived(p)' <=> Archived(p)
  BY DEF Archived, Subscribed, Elsewhere, ingest
<1>4. Noticed'
  <2> SUFFICES ASSUME NEW p \in Enabled' \ lost'
               PROVE  (p \in DOMAIN known \/ Coming(p) \/ Held(p))'
    BY DEF Noticed
  <2>1. CASE /\ p \in updated' /\ ~InWindow
             /\ orch.phase = "dead" => p \in DOMAIN known \/ Held(p)'
    <3>1. orch' = orch /\ known' = known /\ orch.phase \in Phases
      BY DEF Elsewhere, discover, Inv, Types
    <3> QED
      BY <2>1, <3>1 DEF Coming, InWindow, Phases
  <2>2. CASE p \in Enabled /\ (p \in updated => p \in updated')
    <3>1. p \in DOMAIN known \/ Coming(p) \/ Held(p)
      BY <2>2 DEF Inv, Noticed
    <3>2. CASE p \in DOMAIN known
      BY <3>2 DEF Elsewhere, discover
    <3>3. CASE Coming(p)
      BY <2>2, <3>3 DEF Coming, Elsewhere, discover
    <3>4. CASE Held(p)
      BY <1>2, <1>3, <3>4 DEF Held, Elsewhere, ingest
    <3> QED
      BY <3>1, <3>2, <3>3, <3>4
  <2> QED
    BY <2>1, <2>2
<1>5. Cared'
  <2> SUFFICES ASSUME main' = "running",
                      NEW p \in (Rows' \cap DOMAIN known') \ lost'
               PROVE  \/ Archived(p)'
                      \/ p \in OnItsWay("subscribe")'
                      \/ p \in NamesOf(notify, "subscribe")'
    BY DEF Cared
  <2>1. orch'.phase = orch.phase /\ main' = main /\ known' = known
    BY DEF Elsewhere, discover, ingest
  <2>2. CASE p \in Rows
    BY <1>2, <1>3, <2>1, <2>2 DEF Inv, Cared
  <2> QED
    BY <2>1, <2>2
<1>6. Whole' /\ Ordered'
  BY DEF Inv, Whole, Ordered, LastIsSubscribe, Subscribed, NamesOf, Elsewhere, discover,
         ingest
<1> QED
  BY <1>1, <1>4, <1>5, <1>6 DEF Inv

LEMMA InsertInv ==
  ASSUME Inv, NEW p \in PVs, NEW on \in BOOLEAN, Insert(p, on)
  PROVE  Inv'
<1> DEFINE row == IF on THEN "on" ELSE "off"
<1>1. /\ config' = [config EXCEPT ![p] = row]
      /\ updated' = updated \cup {p}
      /\ Notify(SubscribeBatch({p}))
      /\ lost' = IF InWindow \/ InsertUnseen(p) THEN lost \cup {p} ELSE lost
      /\ beat' = [beat EXCEPT ![p] = 0]
      /\ UNCHANGED << ioc_config, expected, Elsewhere >>
  BY DEF Insert, Touch, Elsewhere
<1>2. row \in {"on", "off"}
  OBVIOUS
<1> HIDE DEF row
<1>3. SubscribeBatch({p}) \in Command /\ SubscribeBatch({p}).cmd = "subscribe"
      /\ SubscribeBatch({p}).pvs = {p}
  BY DEF SubscribeBatch, Command
<1>4. Types
  BY DEF Inv
<1>5. /\ notify' \in Seq(Command)
      /\ NamesOf(notify, "subscribe") \subseteq NamesOf(notify, "subscribe")'
      /\ listener = "on" => p \in NamesOf(notify, "subscribe")'
  BY <1>1, <1>3, <1>4, NotifyKeeps
<1>6. Types'
  BY <1>1, <1>2, <1>4, <1>5 DEF Types, Elsewhere, discover, ingest
<1>7. lost \subseteq lost'
  BY <1>1
<1>8. \A q \in PVs : q # p => config'[q] = config[q]
  BY <1>1, <1>4 DEF Types
<1>9. \A q \in Enabled' \ lost' :
         \/ q \in Enabled /\ (q \in updated => q \in updated')
         \/ /\ q \in updated' /\ ~InWindow
            /\ orch.phase = "dead" => q \in DOMAIN known \/ Held(q)'
  <2>1. p \in updated' /\ updated \subseteq updated' /\ (p \notin lost' => ~InWindow)
    BY <1>1
  <2>2. \A q \in Enabled' : q # p => q \in Enabled
    BY <1>8 DEF Enabled
  <2>3. ASSUME p \notin lost', orch.phase = "dead", p \notin DOMAIN known
        PROVE  Held(p)'
    <3>1. /\ OnItsWay("unsubscribe")' = OnItsWay("unsubscribe")
          /\ (Archived(p)' <=> Archived(p)) /\ main' = main
      BY <1>1 DEF OnItsWay, NamesOf, Archived, Subscribed, Elsewhere, discover, ingest
    <3>2. Held(p) \/ (listener = "on" /\ p \notin OnItsWay("unsubscribe"))
      BY <1>1, <2>3 DEF InsertUnseen
    <3> QED
      BY <1>5, <3>1, <3>2 DEF Held
  <2> QED
    BY <2>1, <2>2, <2>3
<1>10. \A q \in Rows' \ lost' : q \in Rows \/ q \notin DOMAIN known
                                \/ q \in NamesOf(notify, "subscribe")'
  BY <1>1, <1>5, <1>8 DEF Rows, InsertUnseen
<1> QED
  BY <1>1, <1>5, <1>6, <1>7, <1>9, <1>10, EditInv

LEMMA SetEnabledInv ==
  ASSUME Inv, NEW p \in PVs, NEW on \in BOOLEAN, SetEnabled(p, on)
  PROVE  Inv'
<1> DEFINE row == IF on THEN "on" ELSE "off"
<1>1. /\ config' = [config EXCEPT ![p] = row]
      /\ config[p] \in {"on", "off"}
      /\ updated' = updated \cup {p}
      /\ lost' = IF InWindow \/ (orch.phase = "dead" /\ p \notin DOMAIN known
                                 /\ ~Held(p))
                 THEN lost \cup {p} ELSE lost
      /\ UNCHANGED << beat, ioc_config, expected, notify, Elsewhere >>
  BY DEF SetEnabled, Touch, Elsewhere
<1>2. row \in {"on", "off"}
  OBVIOUS
<1> HIDE DEF row
<1>4. Types
  BY DEF Inv
<1>5. NamesOf(notify, "subscribe") \subseteq NamesOf(notify, "subscribe")'
  BY <1>1 DEF NamesOf
<1>6. Types'
  BY <1>1, <1>2, <1>4 DEF Types, Elsewhere, discover, ingest
<1>7. lost \subseteq lost'
  BY <1>1
<1>8. \A q \in PVs : q # p => config'[q] = config[q]
  BY <1>1, <1>4 DEF Types
<1>9. \A q \in Enabled' \ lost' :
         \/ q \in Enabled /\ (q \in updated => q \in updated')
         \/ /\ q \in updated' /\ ~InWindow
            /\ orch.phase = "dead" => q \in DOMAIN known \/ Held(q)'
  <2>1. /\ p \in updated' /\ updated \subseteq updated'
        /\ p \notin lost' => ~InWindow
        /\ p \notin lost' /\ orch.phase = "dead" => p \in DOMAIN known \/ Held(p)
    BY <1>1
  <2>2. \A q \in Enabled' : q # p => q \in Enabled
    BY <1>8 DEF Enabled
  <2>3. Held(p) => Held(p)'
    BY <1>1 DEF Held, OnItsWay, NamesOf, Archived, Subscribed, Elsewhere, discover, ingest
  <2>4. ASSUME p \notin lost', orch.phase = "dead" PROVE p \in DOMAIN known \/ Held(p)'
    BY <2>1, <2>3, <2>4
  <2> QED
    BY <2>1, <2>2, <2>4
<1>10. \A q \in Rows' : q \in Rows
  BY <1>1, <1>8 DEF Rows
<1> QED
  BY <1>1, <1>5, <1>6, <1>7, <1>9, <1>10, EditInv

LEMMA OtherEditsInv ==
  ASSUME Inv, NEW p \in PVs, UpdateHeartbeat(p) \/ Delete(p)
  PROVE  Inv'
<1>1. Types
  BY DEF Inv
<1>2. /\ UNCHANGED << lost, Elsewhere >>
      /\ config' \in [PVs -> {"absent", "off", "on"}]
      /\ Enabled' \subseteq Enabled /\ Rows' \subseteq Rows
      /\ updated' \subseteq PVs /\ expected' \subseteq PVs
      /\ \A q \in Enabled' : q \in updated => q \in updated'
  BY <1>1 DEF UpdateHeartbeat, Delete, Touch, Elsewhere, Enabled, Rows, Types
<1>3. UnsubscribeBatch({p}) \in Command
  BY DEF UnsubscribeBatch, Command
<1>4. /\ notify' \in Seq(Command)
      /\ NamesOf(notify, "subscribe") \subseteq NamesOf(notify, "subscribe")'
  <2>1. CASE UNCHANGED notify
    BY <1>1, <2>1 DEF Types, NamesOf
  <2>2. CASE Notify(UnsubscribeBatch({p}))
    BY <1>1, <1>3, <2>2, NotifyKeeps
  <2> QED
    BY <2>1, <2>2 DEF UpdateHeartbeat, Delete
<1>5. beat' \in [PVs -> 0..1] /\ ioc_config' \subseteq IOCs
  BY <1>1 DEF UpdateHeartbeat, Delete, Types
<1>6. Types'
  BY <1>1, <1>2, <1>4, <1>5 DEF Types, Elsewhere, discover, ingest
<1> QED
  BY <1>2, <1>4, <1>6, EditInv

----------------------------------------------------------------------------
(* The orchestrator.                                                       *)

\* What the orchestrator and its Redis channel leave alone.
Tables == << config, beat, ioc_config, listener, notify, main, name_servers,
             pv_server_cache, failed_pvs, pv_ids >>

\* Steps between which only the phase, its rows and updated change.
PhaseOnly == << Tables, expected, known, resolved, pending, commands, redis >>

LEMMA StampTyped ==
  ASSUME Types, NEW names \in SUBSET PVs, NEW rest \in SUBSET PVs,
         StampRows(names, rest)
  PROVE  updated' \subseteq PVs /\ expected' \subseteq PVs /\ rest \subseteq updated'
BY DEF StampRows, Types

LEMMA PhaseInv ==
  ASSUME Inv, UNCHANGED PhaseOnly, lost \subseteq lost', Types',
         orch'.phase # "flush" => orch.phase # "flush",
         orch'.phase \in {"boot", "boot_loaded"} => orch.phase \in {"boot", "boot_loaded"},
         orch.phase = "dead" => orch'.phase = "dead",
         orch'.phase = "fetch" => orch'.rows # {},
         \A p \in Enabled \ lost' : Coming(p) => p \in DOMAIN known \/ Coming(p)' \/ Held(p)
  PROVE  Inv'
<1>1. Books'
  BY DEF Inv, Books, PhaseOnly, Tables
<1>2. \A kind : OnItsWay(kind)' = OnItsWay(kind)
  BY DEF OnItsWay, NamesOf, PhaseOnly
<1>3. \A p : Archived(p)' <=> Archived(p)
  BY DEF Archived, Subscribed, PhaseOnly, Tables
<1>4. NamesOf(notify, "subscribe")' = NamesOf(notify, "subscribe")
  BY DEF NamesOf, PhaseOnly, Tables
<1>5. Enabled' = Enabled /\ Rows' = Rows /\ main' = main /\ known' = known
  BY DEF Enabled, Rows, PhaseOnly, Tables
<1>6. \A p : Held(p)' <=> Held(p)
  BY <1>2, <1>3, <1>4, <1>5 DEF Held
<1>7. Noticed'
  BY <1>5, <1>6 DEF Noticed, Inv
<1>8. Cared'
  BY <1>2, <1>3, <1>4, <1>5 DEF Cared, Inv
<1>9. Whole' /\ Ordered'
  BY DEF Inv, Whole, Ordered, LastIsSubscribe, Subscribed, NamesOf, PhaseOnly, Tables
<1> QED
  BY <1>1, <1>7, <1>8, <1>9 DEF Inv

LEMMA QueryInv ==
  ASSUME Inv, BootLoad \/ CycleQuery \/ CycleAdvance \/ QueryFails
  PROVE  Inv'
<1>1. UNCHANGED PhaseOnly
  BY DEF BootLoad, CycleQuery, CycleAdvance, QueryFails, PhaseOnly, Tables, db, stamps,
         ingest
<1>2. Types /\ Books
  BY DEF Inv
<1>3. orch = [phase |-> orch.phase, rows |-> orch.rows]
      /\ orch.phase \in Phases /\ orch.rows \subseteq PVs
  BY <1>2 DEF Types
<1>4. Enabled \subseteq PVs
  BY DEF Enabled
<1>5. CASE BootLoad
  <2>1. /\ orch.phase = "boot" /\ orch'.phase = "boot_loaded" /\ orch'.rows = Enabled
        /\ orch' = [phase |-> "boot_loaded", rows |-> Enabled]
        /\ UNCHANGED << updated, lost >>
    BY <1>5 DEF BootLoad, stamps
  <2>2. Types'
    BY <1>1, <1>2, <1>4, <2>1 DEF Types, Phases, PhaseOnly, Tables
  <2>3. \A p \in Enabled : Coming(p)'
    BY <2>1 DEF Coming
  <2> QED
    BY <1>1, <2>1, <2>2, <2>3, PhaseInv
<1>6. CASE CycleQuery
  <2>1. /\ orch.phase = "idle" /\ orch' = [phase |-> "polled", rows |-> updated]
        /\ orch'.phase = "polled" /\ orch'.rows = updated
        /\ UNCHANGED << updated, lost >>
    BY <1>6 DEF CycleQuery, stamps
  <2>2. Types'
    BY <1>1, <1>2, <2>1 DEF Types, Phases, PhaseOnly, Tables
  <2>3. \A p \in Enabled : Coming(p) => Coming(p)'
    BY <2>1 DEF Coming
  <2> QED
    BY <1>1, <2>1, <2>2, <2>3, PhaseInv
<1>7. CASE CycleAdvance
  <2>1. /\ orch.phase = "polled" /\ updated' = {} /\ lost' = lost
        /\ orch' = [orch EXCEPT !.phase = IF orch.rows = {} /\ pending = {}
                                          THEN "idle" ELSE "fetch"]
    BY <1>7 DEF CycleAdvance
  <2>2. /\ orch'.rows = orch.rows
        /\ orch'.phase = IF orch.rows = {} THEN "idle" ELSE "fetch"
        /\ orch' \in [phase : Phases, rows : SUBSET PVs]
    BY <1>2, <2>1 DEF Types, Books, Phases
  <2>3. Types'
    BY <1>1, <1>2, <2>1, <2>2 DEF Types, PhaseOnly, Tables
  <2>4. \A p \in Enabled : Coming(p) => Coming(p)'
    BY <2>1, <2>2 DEF Coming
  <2> QED
    BY <1>1, <2>1, <2>2, <2>3, <2>4, PhaseInv
<1>8. CASE QueryFails
  <2>1. updated' = updated
    BY <1>8 DEF QueryFails, stamps
  <2>2. CASE orch.phase = "boot"
    <3>1. lost' = lost \cup Unpolled /\ orch' = [orch EXCEPT !.phase = "dead"]
      BY <1>8, <2>2 DEF QueryFails
    <3>2. orch'.phase = "dead" /\ orch' \in [phase : Phases, rows : SUBSET PVs]
      BY <1>2, <3>1 DEF Types, Phases
    <3>3. Types'
      BY <1>1, <1>2, <1>4, <2>1, <3>1, <3>2 DEF Types, PhaseOnly, Tables, Unpolled
    <3>4. \A p \in Enabled \ lost' : p \in DOMAIN known \/ Held(p)
      BY <3>1 DEF Unpolled
    <3> QED
      BY <1>1, <2>2, <3>1, <3>2, <3>3, <3>4, PhaseInv
  <2>3. CASE orch.phase = "idle"
    <3>1. UNCHANGED << orch, lost >>
      BY <1>8, <2>3 DEF QueryFails
    <3>2. Types'
      BY <1>1, <1>2, <2>1, <3>1 DEF Types, PhaseOnly, Tables
    <3>3. \A p \in Enabled : Coming(p) => Coming(p)'
      BY <2>1, <3>1 DEF Coming
    <3> QED
      BY <1>1, <2>3, <3>1, <3>2, <3>3, PhaseInv
  <2>4. CASE orch.phase = "fetch"
    <3>1. /\ orch' = [phase |-> "idle", rows |-> {}] /\ orch'.phase = "idle"
          /\ lost' = lost \cup { p \in PVs : (p \in Enabled) # (p \in DOMAIN known) }
      BY <1>8, <2>4 DEF QueryFails
    <3>2. Types'
      BY <1>1, <1>2, <2>1, <3>1 DEF Types, Phases, PhaseOnly, Tables
    <3>3. \A p \in Enabled \ lost' : p \in DOMAIN known
      BY <1>4, <3>1
    <3> QED
      BY <1>1, <2>4, <3>1, <3>2, <3>3, PhaseInv
  <2> QED
    BY <1>8, <2>2, <2>3, <2>4 DEF QueryFails
<1> QED
  BY <1>5, <1>6, <1>7, <1>8

\* A reconcile: the poller now knows exactly fresh, and the new ones of these
\* are subscribed by the batch, those it does not know any more unsubscribed.
LEMMA ReconcileInv ==
  ASSUME Inv, NEW fresh \in SUBSET PVs,
         orch.phase \in {"boot_loaded", "fetch"},
         UNCHANGED << Tables, redis >>,
         DOMAIN known' = fresh, resolved' = fresh, pending' = {},
         commands' = Batch(fresh \ DOMAIN known, DOMAIN known \ fresh),
         updated' \subseteq PVs, expected' \subseteq PVs,
         orch' \in [phase : {"flush", "idle"}, rows : SUBSET PVs],
         orch'.phase = "idle" => fresh = DOMAIN known,
         \A p \in Enabled : p \in fresh \/ p \in lost
                           \/ (Held(p) /\ p \notin DOMAIN known),
         lost' \subseteq lost,
         \A p \in lost \ lost' :
            /\ p \in fresh <=> p \notin DOMAIN known
            /\ p \in Subscribed => p \in pv_ids
            /\ p \in Enabled => p \in fresh
  PROVE  Inv'
<1>1. Types /\ Books /\ commands = << >>
  BY DEF Inv, Books
<1>2. DOMAIN known \subseteq PVs
  BY <1>1 DEF Types
<1> DEFINE added == fresh \ DOMAIN known
           removed == DOMAIN known \ fresh
<1>3. added \in SUBSET PVs /\ removed \in SUBSET PVs
  BY <1>2
<1>4. /\ commands' \in Seq(Command)
      /\ NamesOf(commands, "subscribe")' = added
      /\ NamesOf(commands, "unsubscribe")' = removed
  <2>1. /\ NamesOf(commands, "subscribe")' = NamesOf(commands', "subscribe")
        /\ NamesOf(commands, "unsubscribe")' = NamesOf(commands', "unsubscribe")
    BY DEF NamesOf
  <2> QED
    BY <1>3, <2>1, BatchNames
<1>5. Types'
  BY <1>1, <1>4 DEF Types, Phases, Tables
<1>6. Books'
  <2>1. orch'.phase \in {"flush", "idle"}
    OBVIOUS
  <2>2. orch'.phase = "idle" => commands' = << >>
    BY DEF Batch
  <2> QED
    BY <1>1, <2>1, <2>2 DEF Books, Tables
<1>7. /\ Enabled' = Enabled /\ Rows' = Rows /\ Subscribed' = Subscribed
      /\ NamesOf(redis, "subscribe")' = NamesOf(redis, "subscribe")
      /\ NamesOf(notify, "subscribe")' = NamesOf(notify, "subscribe")
      /\ UNCHANGED << main, pv_ids, redis >>
  BY DEF Enabled, Rows, Subscribed, NamesOf, Tables
<1>8. Noticed'
  <2>1. ASSUME NEW p, Held(p), p \notin DOMAIN known PROVE Held(p)'
    <3>1. NamesOf(redis, "unsubscribe")' = NamesOf(redis, "unsubscribe")
      BY <1>7 DEF NamesOf
    <3> QED
      BY <1>4, <1>7, <2>1, <3>1 DEF Held, OnItsWay, Archived
  <2> QED
    BY <1>7, <2>1 DEF Noticed
<1>9. Cared'
  <2> SUFFICES ASSUME main = "running", NEW p \in (Rows \cap fresh) \ lost'
               PROVE  \/ Archived(p)'
                      \/ p \in OnItsWay("subscribe")'
                      \/ p \in NamesOf(notify, "subscribe")'
    BY <1>7 DEF Cared
  <2>1. CASE p \in added
    BY <1>4, <2>1 DEF OnItsWay
  <2>2. CASE p \in DOMAIN known
    <3>1. p \notin lost
      BY <2>2
    <3>2. \/ Archived(p) \/ p \in OnItsWay("subscribe")
          \/ p \in NamesOf(notify, "subscribe")
      BY <2>2, <3>1 DEF Inv, Cared
    <3>3. p \in OnItsWay("subscribe") => p \in NamesOf(redis, "subscribe")
      BY <1>1, NamesEmpty DEF OnItsWay
    <3> QED
      BY <1>7, <3>2, <3>3 DEF Archived, OnItsWay
  <2> QED
    BY <2>1, <2>2
<1>10. Whole'
  BY <1>7 DEF Whole, Inv
<1>11. Ordered'
  <2> SUFFICES ASSUME NEW p \in fresh
               PROVE  /\ p \notin NamesOf(commands, "unsubscribe")'
                      /\ \A j \in DOMAIN redis :
                           redis[j].cmd = "unsubscribe" /\ p \in redis[j].pvs
                           => \/ p \in NamesOf(commands, "subscribe")'
                              \/ \E k \in DOMAIN redis :
                                    k > j /\ redis[k].cmd = "subscribe" /\ p \in redis[k].pvs
    BY <1>7 DEF Ordered, LastIsSubscribe
  <2>1. CASE p \in added
    BY <1>4, <2>1
  <2>2. CASE p \in DOMAIN known
    <3>1. p \notin NamesOf(commands, "subscribe")
      BY <1>1, NamesEmpty
    <3> QED
      BY <1>4, <2>2, <3>1 DEF Inv, Ordered, LastIsSubscribe
  <2> QED
    BY <2>1, <2>2
<1> QED
  BY <1>5, <1>6, <1>8, <1>9, <1>10, <1>11 DEF Inv

LEMMA BootReconcileInv ==
  ASSUME Inv, BootReconcile
  PROVE  Inv'
<1>1. Types /\ Books /\ Noticed
  BY DEF Inv
<1> DEFINE fresh == orch.rows
<1>2. /\ orch.phase = "boot_loaded" /\ fresh \in SUBSET PVs
      /\ DOMAIN known = {} /\ resolved = {} /\ pending = {} /\ commands = << >>
  BY <1>1 DEF BootReconcile, Books, Types
<1>3. /\ known' = [p \in fresh |-> Settings(p)]
      /\ resolved' = resolved \cup fresh /\ pending' = pending \ fresh
      /\ commands' = commands \o Batch(ToSubscribe(fresh, resolved), {})
      /\ StampRows(fresh, {}) /\ orch' = [phase |-> "flush", rows |-> {}]
      /\ UNCHANGED << Tables, redis, lost >>
  BY DEF BootReconcile, Tables, db, ingest
<1>4. /\ fresh \ DOMAIN known = fresh /\ DOMAIN known \ fresh = {}
      /\ ToSubscribe(fresh, resolved) = fresh
  BY <1>2 DEF ToSubscribe
<1>5. Batch(fresh, {}) \in Seq(Command)
  BY <1>2, BatchNames
<1>6. commands' = Batch(fresh \ DOMAIN known, DOMAIN known \ fresh)
  BY <1>2, <1>3, <1>4, <1>5
<1>7. updated' \subseteq PVs /\ expected' \subseteq PVs
  BY <1>1, <1>2, <1>3, StampTyped
<1>8. \A p \in Enabled : p \in fresh \/ p \in lost \/ (Held(p) /\ p \notin DOMAIN known)
  BY <1>1, <1>2 DEF Noticed, Coming
<1>9. /\ DOMAIN known' = fresh /\ resolved' = fresh /\ pending' = {}
      /\ orch' \in [phase : {"flush", "idle"}, rows : SUBSET PVs]
      /\ orch'.phase # "idle"
  BY <1>2, <1>3
<1> HIDE DEF fresh
<1> QED
  BY <1>2, <1>3, <1>6, <1>7, <1>8, <1>9, ReconcileInv

LEMMA CycleReconcileInv ==
  ASSUME Inv, CycleReconcile
  PROVE  Inv'
<1>1. Types /\ Books
  BY DEF Inv
<1>2. /\ orch.phase = "fetch" /\ orch.rows # {} /\ pending = {} /\ commands = << >>
      /\ resolved = DOMAIN known /\ DOMAIN known \subseteq PVs
  BY <1>1 DEF CycleReconcile, Books, Types
<1> DEFINE added == Enabled \ DOMAIN known
           removed == DOMAIN known \ Enabled
           d == Diff(Enabled)
           names == ToResolve(d) \cup pending
           res == resolved \ d.removed
           subs == ToSubscribe(names, res)
           changed == d.added \cup d.removed \cup d.modified # {}
<1>3. /\ d.added = added /\ d.removed = removed /\ d.modified \subseteq DOMAIN known
  BY DEF Diff
<1>4. /\ known' = [p \in (DOMAIN known \cup d.added) \ d.removed |-> Settings(p)]
      /\ resolved' = res \cup names /\ pending' = {}
      /\ commands' = commands \o Batch(subs, d.removed)
      /\ StampRows(names, updated)
      /\ lost' = lost \ { p \in d.added \cup d.removed :
                             p \in Subscribed => p \in pv_ids }
      /\ orch' = [phase |-> IF changed \/ subs # {} THEN "flush" ELSE "idle",
                  rows |-> {}]
  BY <1>2 DEF CycleReconcile
<1>5. UNCHANGED << Tables, redis >>
  BY DEF CycleReconcile, Tables, db, ingest
<1>6. names = added
  BY <1>2, <1>3 DEF ToResolve
<1>7. subs = added
  BY <1>2, <1>6 DEF ToSubscribe
<1> HIDE DEF d, names, subs
<1>8. Enabled \in SUBSET PVs
  BY DEF Enabled
<1>9. /\ DOMAIN known' = Enabled /\ resolved' = Enabled
  BY <1>2, <1>3, <1>4, <1>6
<1>10. Batch(added, removed) \in Seq(Command)
  BY <1>2, <1>8, BatchNames
<1>11. commands' = Batch(added, removed)
  BY <1>2, <1>3, <1>4, <1>7, <1>10
<1>12. updated \in SUBSET PVs /\ names \in SUBSET PVs
  BY <1>1, <1>6, <1>8 DEF Types
<1>13. updated' \subseteq PVs /\ expected' \subseteq PVs
  BY <1>1, <1>4, <1>12, StampTyped
<1>14. /\ orch' \in [phase : {"flush", "idle"}, rows : SUBSET PVs]
       /\ orch'.phase = "idle" => added = {} /\ removed = {}
  BY <1>3, <1>4
<1>15. orch'.phase = "idle" => Enabled = DOMAIN known
  BY <1>14
<1>16. /\ lost' \subseteq lost
       /\ \A p \in lost \ lost' :
            /\ p \in Enabled <=> p \notin DOMAIN known
            /\ p \in Subscribed => p \in pv_ids
  BY <1>3, <1>4
<1> QED
  BY <1>2, <1>4, <1>5, <1>8, <1>9, <1>11, <1>13, <1>14, <1>15, <1>16, ReconcileInv

\* Publishing: the batch follows what is in the channel already.
LEMMA FlushInv ==
  ASSUME Inv, Flush
  PROVE  Inv'
<1>1. Types /\ Books
  BY DEF Inv
<1>2. /\ orch.phase = "flush" /\ orch' = [orch EXCEPT !.phase = "idle"]
      /\ commands' = << >>
      /\ redis' = IF main = "start" THEN redis ELSE redis \o commands
      /\ UNCHANGED << Tables, updated, expected, known, resolved, pending, lost >>
  BY DEF Flush, Tables, stamps, db, ingest
<1>3. /\ orch' \in [phase : Phases, rows : SUBSET PVs] /\ orch'.phase = "idle"
  BY <1>1, <1>2 DEF Types, Phases
<1>4. /\ redis \in Seq(Command) /\ commands \in Seq(Command)
      /\ redis \o commands \in Seq(Command) /\ << >> \in Seq(Command)
  BY <1>1 DEF Types
<1>5. Types'
  BY <1>1, <1>2, <1>3, <1>4 DEF Types, Tables
<1>6. Books'
  BY <1>1, <1>2, <1>3 DEF Books, Tables
<1>7. /\ Enabled' = Enabled /\ Rows' = Rows /\ Subscribed' = Subscribed
      /\ NamesOf(notify, "subscribe")' = NamesOf(notify, "subscribe")
      /\ UNCHANGED << main, pv_ids, known, lost, updated >>
  BY <1>2 DEF Enabled, Rows, Subscribed, NamesOf, Tables
<1>8. /\ main # "start" => \A kind : OnItsWay(kind)' = OnItsWay(kind)
      /\ \A kind : OnItsWay(kind)' \subseteq OnItsWay(kind)
  <2>1. \A kind : OnItsWay(kind)' = NamesOf(redis', kind) \cup NamesOf(commands', kind)
    BY DEF OnItsWay, NamesOf
  <2>2. \A kind : NamesOf(redis \o commands, kind)
                    = NamesOf(redis, kind) \cup NamesOf(commands, kind)
    BY <1>4, NamesConcat
  <2> QED
    BY <1>2, <2>1, <2>2, NamesEmpty DEF OnItsWay
<1>9. Noticed'
  <2>1. \A p : Coming(p) => Coming(p)'
    BY <1>2, <1>3 DEF Coming
  <2>2. \A p : Held(p) => Held(p)'
    BY <1>7, <1>8 DEF Held, Archived
  <2> QED
    BY <1>7, <2>1, <2>2 DEF Noticed, Inv
<1>10. Cared'
  BY <1>2, <1>7, <1>8 DEF Cared, Archived, Inv
<1>11. Whole'
  BY <1>7 DEF Whole, Inv
<1>12. Ordered'
  <2> SUFFICES ASSUME NEW p \in DOMAIN known
               PROVE  /\ p \notin NamesOf(commands', "unsubscribe")
                      /\ \A j \in DOMAIN redis' :
                           redis'[j].cmd = "unsubscribe" /\ p \in redis'[j].pvs
                           => \E k \in DOMAIN redis' :
                                 k > j /\ redis'[k].cmd = "subscribe" /\ p \in redis'[k].pvs
    BY <1>7 DEF Ordered, LastIsSubscribe, NamesOf
  <2>1. p \notin NamesOf(commands', "unsubscribe")
    BY <1>2, NamesEmpty
  <2>2. CASE main = "start"
    <3>1. redis' = << >>
      BY <1>1, <1>2, <2>2 DEF Books
    <3> QED
      BY <2>1, <3>1
  <2>3. CASE main # "start"
    <3> DEFINE m == Len(redis)
               n == Len(commands)
    <3>1. /\ m \in Nat /\ n \in Nat
          /\ DOMAIN redis = 1..m /\ DOMAIN commands = 1..n
          /\ DOMAIN redis' = 1..(m + n)
          /\ \A k \in 1..m : redis'[k] = redis[k]
          /\ \A k \in 1..n : redis'[m + k] = commands[k]
      BY <1>2, <1>4, <2>3
    <3> HIDE DEF m, n
    <3>2. /\ p \notin NamesOf(commands, "unsubscribe")
          /\ \A j \in DOMAIN redis :
               redis[j].cmd = "unsubscribe" /\ p \in redis[j].pvs
               => \/ p \in NamesOf(commands, "subscribe")
                  \/ \E k \in DOMAIN redis :
                        k > j /\ redis[k].cmd = "subscribe" /\ p \in redis[k].pvs
      BY <1>2 DEF Inv, Ordered, LastIsSubscribe
    <3>3. ASSUME NEW j \in DOMAIN redis',
                 redis'[j].cmd = "unsubscribe" /\ p \in redis'[j].pvs
          PROVE  \E k \in DOMAIN redis' :
                    k > j /\ redis'[k].cmd = "subscribe" /\ p \in redis'[k].pvs
      <4>1. j <= m
        <5>1. CASE j > m
          <6>1. j - m \in 1..n /\ m + (j - m) = j
            BY <3>1, <5>1
          <6>2. redis'[j] = commands[j - m]
            BY <3>1, <6>1
          <6> QED
            BY <3>1, <3>2, <3>3, <6>1, <6>2, InNames
        <5> QED
          BY <3>1, <5>1
      <4>2. j \in DOMAIN redis /\ redis'[j] = redis[j]
        BY <3>1, <4>1
      <4>3. CASE p \in NamesOf(commands, "subscribe")
        <5>1. PICK k \in DOMAIN commands :
                 commands[k].cmd = "subscribe" /\ p \in commands[k].pvs
          BY <4>3, InNames
        <5>2. m + k \in DOMAIN redis' /\ m + k > j /\ redis'[m + k] = commands[k]
          BY <3>1, <4>1
        <5> QED
          BY <5>1, <5>2
      <4>4. CASE \E k \in DOMAIN redis :
                    k > j /\ redis[k].cmd = "subscribe" /\ p \in redis[k].pvs
        <5>1. PICK k \in DOMAIN redis :
                    k > j /\ redis[k].cmd = "subscribe" /\ p \in redis[k].pvs
          BY <4>4
        <5>2. k \in DOMAIN redis' /\ redis'[k] = redis[k]
          BY <3>1
        <5> QED
          BY <5>1, <5>2
      <4> QED
        BY <3>2, <3>3, <4>2, <4>3, <4>4
    <3> QED
      BY <2>1, <3>3
  <2> QED
    BY <2>2, <2>3
<1> QED
  BY <1>5, <1>6, <1>9, <1>10, <1>11, <1>12 DEF Inv

\* An error of Redis ends the orchestrator.  Whose subscribe was not published
\* is lost, and so is whoever only the next poll would have noticed.
LEMMA FlushFailsInv ==
  ASSUME Inv, FlushFails
  PROVE  Inv'
<1>1. Types /\ Books
  BY DEF Inv
<1>2. PICK n \in 0..Len(commands) :
         /\ redis' = IF main = "start" THEN redis ELSE redis \o SubSeq(commands, 1, n)
         /\ lost' = lost \cup Unpolled
                        \cup (IF main = "start" THEN {}
                              ELSE NamesOf(SubSeq(commands, n + 1, Len(commands)),
                                           "subscribe"))
  BY DEF FlushFails
<1>3. /\ orch' = [orch EXCEPT !.phase = "dead"] /\ commands' = << >>
      /\ UNCHANGED << Tables, updated, expected, known, resolved, pending >>
  BY DEF FlushFails, Tables, db, ingest, stamps
<1> DEFINE sent == SubSeq(commands, 1, n)
           rest == SubSeq(commands, n + 1, Len(commands))
<1>4. orch' \in [phase : Phases, rows : SUBSET PVs] /\ orch'.phase = "dead"
  BY <1>1, <1>3 DEF Types, Phases
<1>5. /\ redis \in Seq(Command) /\ commands \in Seq(Command)
      /\ sent \in Seq(Command) /\ rest \in Seq(Command)
      /\ \A kind : NamesOf(commands, kind) = NamesOf(sent, kind) \cup NamesOf(rest, kind)
  <2>1. redis \in Seq(Command) /\ commands \in Seq(Command)
    BY <1>1 DEF Types
  <2> QED
    BY <2>1, NamesSuffix
<1> HIDE DEF sent, rest
<1>6. /\ redis' = IF main = "start" THEN redis ELSE redis \o sent
      /\ lost' = lost \cup Unpolled \cup (IF main = "start" THEN {}
                                           ELSE NamesOf(rest, "subscribe"))
  BY <1>2 DEF sent, rest
<1>7. /\ redis \o sent \in Seq(Command)
      /\ \A kind : NamesOf(redis \o sent, kind) = NamesOf(redis, kind) \cup NamesOf(sent, kind)
  BY <1>5, NamesConcat
<1>8. Types'
  <2>1. lost' \subseteq PVs
    BY <1>1, <1>5, <1>6, NamesTyped DEF Types, Unpolled, Enabled
  <2>2. redis' \in Seq(Command) /\ commands' \in Seq(Command)
    BY <1>3, <1>5, <1>6, <1>7
  <2> QED
    BY <1>1, <1>3, <1>4, <2>1, <2>2 DEF Types, Tables
<1>9. Books'
  BY <1>1, <1>3, <1>4, <1>6 DEF Books, Tables
<1>10. /\ Enabled' = Enabled /\ Rows' = Rows /\ Subscribed' = Subscribed
       /\ NamesOf(notify, "subscribe")' = NamesOf(notify, "subscribe")
       /\ UNCHANGED << main, pv_ids, known >>
  BY <1>3 DEF Enabled, Rows, Subscribed, NamesOf, Tables
<1>11. \A kind : /\ OnItsWay(kind)' \subseteq OnItsWay(kind)
                 /\ main # "start" => OnItsWay(kind) \subseteq
                                        OnItsWay(kind)' \cup NamesOf(rest, kind)
  <2>1. \A kind : OnItsWay(kind)' = NamesOf(redis', kind) \cup NamesOf(commands', kind)
    BY DEF OnItsWay, NamesOf
  <2>2. \A kind : OnItsWay(kind)' = NamesOf(redis', kind)
    BY <1>3, <2>1, NamesEmpty
  <2> QED
    BY <1>5, <1>6, <1>7, <2>2 DEF OnItsWay
<1>12. Noticed'
  <2> SUFFICES ASSUME NEW p \in Enabled \ lost', p \notin DOMAIN known
               PROVE  Held(p)'
    BY <1>10 DEF Noticed
  <2>1. Held(p)
    BY <1>6 DEF Unpolled
  <2> QED
    BY <1>10, <1>11, <2>1 DEF Held, Archived
<1>13. Cared'
  <2> SUFFICES ASSUME main = "running", NEW p \in (Rows \cap DOMAIN known) \ lost'
               PROVE  \/ Archived(p)'
                      \/ p \in OnItsWay("subscribe")'
                      \/ p \in NamesOf(notify, "subscribe")'
    BY <1>10 DEF Cared
  <2>1. p \notin lost /\ p \notin NamesOf(rest, "subscribe")
    BY <1>6
  <2>2. \/ Archived(p) \/ p \in OnItsWay("subscribe")
        \/ p \in NamesOf(notify, "subscribe")
    BY <2>1 DEF Inv, Cared
  <2> QED
    BY <1>10, <1>11, <2>1, <2>2 DEF Archived
<1>14. Whole'
  BY <1>6, <1>10 DEF Inv, Whole
<1>15. Ordered'
  <2> SUFFICES ASSUME NEW p \in DOMAIN known, p \notin lost'
               PROVE  /\ p \notin NamesOf(commands', "unsubscribe")
                      /\ \A j \in DOMAIN redis' :
                           redis'[j].cmd = "unsubscribe" /\ p \in redis'[j].pvs
                           => \E k \in DOMAIN redis' :
                                 k > j /\ redis'[k].cmd = "subscribe" /\ p \in redis'[k].pvs
    BY <1>4, <1>10 DEF Ordered, LastIsSubscribe, NamesOf
  <2>1. p \notin NamesOf(commands', "unsubscribe")
    BY <1>3, NamesEmpty
  <2>2. CASE main = "start"
    <3>1. redis' = << >>
      BY <1>1, <1>6, <2>2 DEF Books
    <3> QED
      BY <2>1, <3>1
  <2>3. CASE main # "start"
    <3> DEFINE m == Len(redis)
               l == Len(sent)
    <3>1. /\ m \in Nat /\ l \in Nat
          /\ DOMAIN redis = 1..m /\ DOMAIN sent = 1..l
          /\ DOMAIN redis' = 1..(m + l)
          /\ \A k \in 1..m : redis'[k] = redis[k]
          /\ \A k \in 1..l : redis'[m + k] = sent[k]
      BY <1>5, <1>6, <2>3
    <3> HIDE DEF m, l
    <3>2. /\ p \notin NamesOf(sent, "unsubscribe")
          /\ \A j \in DOMAIN redis :
               redis[j].cmd = "unsubscribe" /\ p \in redis[j].pvs
               => \/ p \in NamesOf(sent, "subscribe")
                  \/ \E k \in DOMAIN redis :
                        k > j /\ redis[k].cmd = "subscribe" /\ p \in redis[k].pvs
      <4>1. p \notin lost /\ p \notin NamesOf(rest, "subscribe")
        BY <1>6, <2>3
      <4> QED
        BY <1>5, <4>1 DEF Inv, Ordered, LastIsSubscribe
    <3>3. ASSUME NEW j \in DOMAIN redis',
                 redis'[j].cmd = "unsubscribe" /\ p \in redis'[j].pvs
          PROVE  \E k \in DOMAIN redis' :
                    k > j /\ redis'[k].cmd = "subscribe" /\ p \in redis'[k].pvs
      <4>1. j <= m
        <5>1. CASE j > m
          <6>1. j - m \in 1..l /\ m + (j - m) = j
            BY <3>1, <5>1
          <6>2. redis'[j] = sent[j - m]
            BY <3>1, <6>1
          <6> QED
            BY <3>1, <3>2, <3>3, <6>1, <6>2, InNames
        <5> QED
          BY <3>1, <5>1
      <4>2. j \in DOMAIN redis /\ redis'[j] = redis[j]
        BY <3>1, <4>1
      <4>3. CASE p \in NamesOf(sent, "subscribe")
        <5>1. PICK k \in DOMAIN sent : sent[k].cmd = "subscribe" /\ p \in sent[k].pvs
          BY <4>3, InNames
        <5>2. m + k \in DOMAIN redis' /\ m + k > j /\ redis'[m + k] = sent[k]
          BY <3>1, <4>1
        <5> QED
          BY <5>1, <5>2
      <4>4. CASE \E k \in DOMAIN redis :
                    k > j /\ redis[k].cmd = "subscribe" /\ p \in redis[k].pvs
        <5>1. PICK k \in DOMAIN redis :
                    k > j /\ redis[k].cmd = "subscribe" /\ p \in redis[k].pvs
          BY <4>4
        <5>2. k \in DOMAIN redis' /\ redis'[k] = redis[k]
          BY <3>1
        <5> QED
          BY <5>1, <5>2
      <4> QED
        BY <3>2, <3>3, <4>2, <4>3, <4>4
    <3> QED
      BY <2>1, <3>3
  <2> QED
    BY <2>2, <2>3
<1> QED
  BY <1>8, <1>9, <1>12, <1>13, <1>14, <1>15 DEF Inv

----------------------------------------------------------------------------
(* The listener and the main loop.                                         *)

LEMMA ListenerInv ==
  ASSUME Inv, Listen \/ ListenerFails \/ MainListen
  PROVE  Inv'
<1>1. Types /\ Books
  BY DEF Inv
<1>2. /\ UNCHANGED << db, updated, expected, discover, redis, notify, name_servers,
                      pv_server_cache, failed_pvs, pv_ids, lost >>
      /\ main' = main \/ (main = "start" /\ main' = "listening")
      /\ listener' \in {"connecting", "on", "broken", "deaf", "gone"}
  BY <1>1 DEF Listen, ListenerFails, MainListen, ingest, stamps, Types
<1>3. Types' /\ Books'
  BY <1>1, <1>2 DEF Types, Books, db, discover
<1>4. /\ Enabled' = Enabled /\ Rows' = Rows /\ Subscribed' = Subscribed
      /\ \A kind : OnItsWay(kind)' = OnItsWay(kind)
      /\ NamesOf(notify, "subscribe")' = NamesOf(notify, "subscribe")
      /\ \A p : Coming(p)' <=> Coming(p)
      /\ main' = "running" <=> main = "running"
      /\ UNCHANGED << known, orch, lost, pv_ids, redis, commands >>
  BY <1>2 DEF Enabled, Rows, Subscribed, NamesOf, OnItsWay, Coming, db, discover
<1>5. Noticed' /\ Cared' /\ Whole'
  BY <1>4 DEF Inv, Noticed, Held, Cared, Whole, Archived
<1>6. Ordered'
  BY <1>4 DEF Inv, Ordered, LastIsSubscribe, NamesOf
<1> QED
  BY <1>3, <1>5, <1>6 DEF Inv

LEMMA FoundServed ==
  ASSUME Types, NEW pvs, NEW p \in Found(pvs)
  PROVE  p \in pvs /\ ServerOf(p) \in IOCs
<1>1. p \in pvs /\ \E i \in name_servers : p \in Serves[i]
  BY DEF Found
<1>2. ServerOf(p) \in name_servers
  BY <1>1 DEF ServerOf
<1> QED
  BY <1>1, <1>2 DEF Types

\* The startup subscribe takes whatever is enabled; what the orchestrator has
\* resolved beyond that is lost.
LEMMA MainStartupInv ==
  ASSUME Inv, MainStartup
  PROVE  Inv'
<1>1. Types /\ Books
  BY DEF Inv
<1>2. PICK ok \in {Found(Enabled), {}}, reg \in {Enabled, {}} :
          /\ pv_server_cache' = Cached(pv_server_cache, ok)
          /\ failed_pvs' = IF name_servers = {} THEN {} ELSE Enabled \ ok
          /\ pv_ids' = pv_ids \cup reg
          /\ lost' = lost \cup (DOMAIN known \ ok) \cup (Enabled \ (ok \cap reg))
  BY DEF MainStartup
<1>3. /\ main = "listening" /\ main' = "running"
      /\ UNCHANGED << db, updated, expected, discover, redis, listener, notify,
                      name_servers >>
  BY DEF MainStartup, stamps
<1>4. Enabled \subseteq PVs /\ ok \subseteq Enabled /\ reg \subseteq Enabled
      /\ \A p \in ok : ServerOf(p) \in IOCs
  BY <1>1, FoundServed DEF Enabled
<1>5. /\ pv_server_cache' \in [PVs -> IOCs \cup {None}]
      /\ \A p \in PVs : p \in Subscribed' <=> p \in ok \/ p \in Subscribed
  BY <1>1, <1>2, <1>4, DiscoverAssumption DEF Types, Cached, Subscribed
<1>6. pv_ids' \subseteq PVs /\ lost' \subseteq PVs /\ failed_pvs' \subseteq PVs
  BY <1>1, <1>2, <1>4 DEF Types
<1>7. Types' /\ Books'
  BY <1>1, <1>3, <1>5, <1>6 DEF Types, Books, db, discover
<1>8. Enabled' = Enabled /\ Rows' = Rows /\ known' = known
  BY <1>3 DEF Enabled, Rows, db, discover
<1>9. Noticed'
  <2> SUFFICES ASSUME NEW p \in Enabled \ lost'
               PROVE  p \in DOMAIN known \/ Coming(p)' \/ Held(p)'
    BY <1>8 DEF Noticed
  <2>1. p \in DOMAIN known \/ Coming(p) \/ Held(p)
    BY <1>2 DEF Inv, Noticed
  <2>2. Held(p) => Held(p)'
    <3>1. p \in PVs /\ p \in ok /\ p \in reg
      BY <1>2, <1>4
    <3>2. Archived(p)'
      BY <1>2, <1>5, <3>1 DEF Archived
    <3>3. OnItsWay("unsubscribe")' = OnItsWay("unsubscribe")
      BY <1>3 DEF OnItsWay, NamesOf, discover
    <3> QED
      BY <3>2, <3>3 DEF Held
  <2>3. Coming(p)' <=> Coming(p)
    BY <1>3 DEF Coming, discover
  <2> QED
    BY <2>1, <2>2, <2>3
<1>10. Cared'
  <2>1. \A p \in (Rows' \cap DOMAIN known') \ lost' : Archived(p)'
    <3> SUFFICES ASSUME NEW p \in DOMAIN known, p \notin lost'
                 PROVE  p \in Subscribed' /\ p \in pv_ids'
      BY <1>8 DEF Archived
    <3>1. p \in ok /\ p \in reg
      BY <1>2, <1>4
    <3> QED
      BY <1>2, <1>4, <1>5, <3>1
  <2> QED
    BY <2>1 DEF Cared
<1>11. Whole'
  <2> SUFFICES ASSUME NEW p \in PVs, p \in Subscribed', p \notin lost'
               PROVE  p \in pv_ids'
    BY DEF Whole, Subscribed
  <2>1. CASE p \in ok
    BY <1>2, <1>4, <2>1
  <2>2. CASE p \in Subscribed
    BY <1>2, <2>2 DEF Inv, Whole
  <2> QED
    BY <1>5, <2>1, <2>2
<1>12. Ordered'
  BY <1>2, <1>3 DEF Inv, Ordered, LastIsSubscribe, NamesOf, discover
<1> QED
  BY <1>7, <1>9, <1>10, <1>11, <1>12 DEF Inv

\* What a subscribe with its unsubscribes does to a PV that is not lost by it.
LEMMA ApplyEffect ==
  ASSUME Types, Whole, NEW subs \in SUBSET PVs, NEW unsubs \in SUBSET PVs,
         Apply(subs, unsubs)
  PROVE  /\ pv_server_cache' \in [PVs -> IOCs \cup {None}] /\ failed_pvs' \subseteq PVs
         /\ pv_ids' \subseteq PVs /\ lost' \subseteq PVs /\ lost \subseteq lost'
         /\ \A p \in PVs \ lost' :
              /\ p \in subs => p \notin unsubs /\ Archived(p)'
              /\ p \notin subs \cup unsubs => (Archived(p)' <=> Archived(p))
              /\ p \in Subscribed' => p \in pv_ids'
<1>1. PICK ok \in SUBSET Found(subs), reg \in SUBSET subs : Outcome(subs, unsubs, ok, reg)
  <2>1. CASE Outcome(subs, unsubs, Found(subs), subs)
    BY <2>1
  <2>2. CASE \E lame \in BOOLEAN :
               Outcome(subs, unsubs, IF lame THEN {} ELSE Found(subs),
                       IF lame THEN subs ELSE {})
    <3>1. PICK lame \in BOOLEAN :
               Outcome(subs, unsubs, IF lame THEN {} ELSE Found(subs),
                       IF lame THEN subs ELSE {})
      BY <2>2
    <3>2. CASE lame
      BY <3>1, <3>2
    <3>3. CASE ~lame
      BY <3>1, <3>3
    <3> QED
      BY <3>2, <3>3
  <2> QED
    BY <2>1, <2>2 DEF Apply
<1>2. \A p \in ok : p \in subs /\ ServerOf(p) \in IOCs
  BY FoundServed
<1>3. pv_server_cache' = [p \in PVs |-> IF p \in unsubs THEN None
                                        ELSE IF p \in ok THEN ServerOf(p)
                                        ELSE pv_server_cache[p]]
  BY <1>1 DEF Outcome, Uncached, Cached
<1>4. /\ pv_ids' = (pv_ids \cup reg) \ unsubs
      /\ lost' = lost \cup (subs \ (ok \cup Subscribed)) \cup (subs \ (reg \cup pv_ids))
                      \cup (subs \cap unsubs)
  BY <1>1 DEF Outcome
<1>5. pv_server_cache' \in [PVs -> IOCs \cup {None}]
  BY <1>2, <1>3 DEF Types
<1>6. \A p \in PVs : p \in Subscribed' <=> p \notin unsubs /\ (p \in ok \/ p \in Subscribed)
  BY <1>2, <1>3, DiscoverAssumption DEF Subscribed
<1>7. /\ pv_ids' \subseteq PVs /\ lost' \subseteq PVs /\ lost \subseteq lost'
      /\ failed_pvs' \subseteq PVs
  BY <1>1, <1>4 DEF Types, Outcome
<1>8. ASSUME NEW p \in PVs \ lost'
      PROVE  /\ p \in subs => p \notin unsubs /\ p \in Subscribed' /\ p \in pv_ids'
             /\ p \notin subs \cup unsubs => /\ p \in Subscribed' <=> p \in Subscribed
                                             /\ p \in pv_ids' <=> p \in pv_ids
             /\ p \in Subscribed' => p \in pv_ids'
  <2>1. p \in subs => p \notin unsubs /\ p \in Subscribed' /\ p \in pv_ids'
    BY <1>4, <1>6, <1>8
  <2>2. p \notin subs \cup unsubs => /\ p \in Subscribed' <=> p \in Subscribed
                                     /\ p \in pv_ids' <=> p \in pv_ids
    BY <1>2, <1>4, <1>6, <1>8
  <2>3. p \in Subscribed' => p \in pv_ids'
    BY <1>2, <1>4, <1>6, <1>8, <2>1 DEF Whole
  <2> QED
    BY <2>1, <2>2, <2>3
<1> QED
  BY <1>5, <1>7, <1>8 DEF Archived

\* A step of the main loop keeps the invariant if it leaves nobody's
\* subscription behind.
LEMMA MainInv ==
  ASSUME Inv, main = "running", UNCHANGED << db, updated, expected, discover, main >>,
         Types', Whole', Ordered',
         \A p \in Enabled \ lost' : p \in lost \/ Held(p) => Held(p)',
         \A p \in (Rows \cap DOMAIN known) \ lost' :
            \/ Archived(p)' \/ p \in OnItsWay("subscribe")'
            \/ p \in NamesOf(notify, "subscribe")'
  PROVE  Inv'
<1>1. Books'
  BY DEF Inv, Books, discover
<1>2. Enabled' = Enabled /\ Rows' = Rows /\ known' = known /\ orch' = orch
  BY DEF Enabled, Rows, db, discover
<1>3. Noticed'
  <2>1. \A p : Coming(p)' <=> Coming(p)
    BY DEF Coming, discover
  <2> QED
    BY <1>2, <2>1 DEF Inv, Noticed
<1>4. Cared'
  BY <1>2 DEF Cared
<1> QED
  BY <1>1, <1>3, <1>4 DEF Inv

LEMMA NamesRange ==
  ASSUME NEW s \in Seq(Command), NEW a \in 1..(Len(s) + 1), NEW b \in 0..Len(s),
         NEW kind, NEW p
  PROVE  /\ SubSeq(s, a, b) \in Seq(Command)
         /\ p \in NamesOf(SubSeq(s, a, b), kind)
              <=> \E k \in a..b : s[k].cmd = kind /\ p \in s[k].pvs
<1> DEFINE t == SubSeq(s, a, b)
<1>1. /\ t \in Seq(Command) /\ Len(s) \in Nat
      /\ DOMAIN t = 1..(b - a + 1)
      /\ \A k \in 1..(b - a + 1) : t[k] = s[a + k - 1]
  OBVIOUS
<1> HIDE DEF t
<1>2. ASSUME NEW k \in DOMAIN t, t[k].cmd = kind, p \in t[k].pvs
      PROVE  \E m \in a..b : s[m].cmd = kind /\ p \in s[m].pvs
  <2>1. a + k - 1 \in a..b /\ t[k] = s[a + k - 1]
    BY <1>1
  <2> QED
    BY <1>2, <2>1
<1>3. ASSUME NEW m \in a..b, s[m].cmd = kind, p \in s[m].pvs
      PROVE  \E k \in DOMAIN t : t[k].cmd = kind /\ p \in t[k].pvs
  <2>1. m - a + 1 \in DOMAIN t /\ a + (m - a + 1) - 1 = m
    BY <1>1
  <2>2. t[m - a + 1] = s[m]
    BY <1>1, <2>1
  <2> QED
    BY <1>3, <2>1, <2>2
<1>4. p \in NamesOf(t, kind) <=> \E k \in DOMAIN t : t[k].cmd = kind /\ p \in t[k].pvs
  BY InNames
<1>5. p \in NamesOf(t, kind) <=> \E k \in a..b : s[k].cmd = kind /\ p \in s[k].pvs
  BY <1>2, <1>3, <1>4
<1> QED
  BY <1>1, <1>5 DEF t

\* Commands from Redis: the subscribes of the prefix first, then its
\* unsubscribes.  Behind an unsubscribe of a PV that the poller knows there is
\* a subscribe, in the rest or in the prefix, and then the PV is lost.
LEMMA HandleRedisInv ==
  ASSUME Inv, NEW n \in 1..Len(redis), HandleRedis(n)
  PROVE  Inv'
<1>1. Types /\ Books /\ Whole /\ Cared /\ Ordered
  BY DEF Inv
<1>2. redis \in Seq(Command) /\ Len(redis) \in Nat /\ DOMAIN redis = 1..Len(redis)
  BY <1>1 DEF Types
<1> DEFINE subs == (NamesOf(SubSeq(redis, 1, 1), "subscribe") \ Subscribed)
                     \cup NamesOf(SubSeq(redis, 2, n), "subscribe")
           unsubs == NamesOf(SubSeq(redis, 1, n), "unsubscribe")
           rest == SubSeq(redis, n + 1, Len(redis))
<1>3. /\ main = "running" /\ Apply(subs, unsubs) /\ redis' = rest
      /\ UNCHANGED << db, updated, expected, discover, listener, notify, main,
                      name_servers >>
  BY DEF HandleRedis, stamps
<1>4. \A p : /\ p \in subs <=> \/ redis[1].cmd = "subscribe" /\ p \in redis[1].pvs
                                  /\ p \notin Subscribed
                               \/ \E k \in 2..n : redis[k].cmd = "subscribe"
                                                  /\ p \in redis[k].pvs
             /\ p \in unsubs <=> \E k \in 1..n : redis[k].cmd = "unsubscribe"
                                                 /\ p \in redis[k].pvs
  <2>1. 1 \in 1..(Len(redis) + 1) /\ 2 \in 1..(Len(redis) + 1)
        /\ 1 \in 0..Len(redis) /\ n \in 0..Len(redis)
    BY <1>2
  <2>2. \A p : p \in NamesOf(SubSeq(redis, 1, 1), "subscribe")
                 <=> \E k \in 1..1 : redis[k].cmd = "subscribe" /\ p \in redis[k].pvs
    BY <1>2, <2>1, NamesRange
  <2>3. \A p : p \in NamesOf(SubSeq(redis, 2, n), "subscribe")
                 <=> \E k \in 2..n : redis[k].cmd = "subscribe" /\ p \in redis[k].pvs
    BY <1>2, <2>1, NamesRange
  <2>4. \A p : p \in unsubs
                 <=> \E k \in 1..n : redis[k].cmd = "unsubscribe" /\ p \in redis[k].pvs
    BY <1>2, <2>1, NamesRange
  <2>5. 1..1 = {1}
    OBVIOUS
  <2> QED
    BY <2>2, <2>3, <2>4, <2>5
<1>5. subs \in SUBSET PVs /\ unsubs \in SUBSET PVs
  <2>1. \A k \in 1..Len(redis) : redis[k].pvs \subseteq PVs
    <3>1. \A k \in 1..Len(redis) : redis[k] \in Command
      BY <1>2
    <3>2. \A c \in Command : c.pvs \subseteq PVs
      BY DEF Command
    <3> QED
      BY <3>1, <3>2
  <2>2. 1 \in 1..Len(redis) /\ \A k \in 1..n : k \in 1..Len(redis)
    BY <1>2
  <2>3. \A k \in 2..n : k \in 1..n
    BY <1>2
  <2> HIDE DEF subs, unsubs
  <2> QED
    BY <1>4, <2>1, <2>2, <2>3
<1>6. /\ rest \in Seq(Command)
      /\ DOMAIN rest = 1..(Len(redis) - n)
      /\ \A k \in 1..(Len(redis) - n) : rest[k] = redis[n + k]
  BY <1>2
<1>7. \A kind, p : p \in NamesOf(redis', kind)
                     <=> \E k \in (n + 1)..Len(redis) : redis[k].cmd = kind /\ p \in redis[k].pvs
  <2>1. n + 1 \in 1..(Len(redis) + 1) /\ Len(redis) \in 0..Len(redis)
    BY <1>2
  <2>2. \A kind, p : p \in NamesOf(SubSeq(redis, n + 1, Len(redis)), kind)
                       <=> \E k \in (n + 1)..Len(redis) :
                              redis[k].cmd = kind /\ p \in redis[k].pvs
    BY <1>2, <2>1, NamesRange
  <2> QED
    BY <1>3, <2>2
<1>8. /\ pv_server_cache' \in [PVs -> IOCs \cup {None}]
      /\ pv_ids' \subseteq PVs /\ lost' \subseteq PVs /\ lost \subseteq lost'
      /\ failed_pvs' \subseteq PVs
      /\ \A p \in PVs \ lost' :
           /\ p \in subs => p \notin unsubs /\ Archived(p)'
           /\ p \notin subs \cup unsubs => (Archived(p)' <=> Archived(p))
           /\ p \in Subscribed' => p \in pv_ids'
  <2> HIDE DEF subs, unsubs
  <2> QED
    BY <1>1, <1>3, <1>5, ApplyEffect
<1> HIDE DEF subs, unsubs, rest
<1>9. Types'
  BY <1>1, <1>3, <1>6, <1>8 DEF Types, db, discover
<1>10. Whole'
  BY <1>8 DEF Whole, Subscribed
<1>11. Ordered'
  <2> SUFFICES ASSUME NEW p \in DOMAIN known, ~(orch.phase = "dead" /\ p \in lost)
               PROVE  /\ p \notin NamesOf(commands, "unsubscribe")
                      /\ \A j \in DOMAIN rest :
                           rest[j].cmd = "unsubscribe" /\ p \in rest[j].pvs
                           => \/ p \in NamesOf(commands, "subscribe")
                              \/ \E k \in DOMAIN rest :
                                    k > j /\ rest[k].cmd = "subscribe" /\ p \in rest[k].pvs
    BY <1>3, <1>8 DEF Ordered, LastIsSubscribe, NamesOf, discover
  <2>1. p \notin NamesOf(commands, "unsubscribe")
    BY <1>1 DEF Ordered, LastIsSubscribe
  <2>2. ASSUME NEW j \in DOMAIN rest,
               rest[j].cmd = "unsubscribe", p \in rest[j].pvs,
               p \notin NamesOf(commands, "subscribe")
        PROVE  \E k \in DOMAIN rest :
                  k > j /\ rest[k].cmd = "subscribe" /\ p \in rest[k].pvs
    <3>1. n + j \in DOMAIN redis /\ redis[n + j] = rest[j]
      BY <1>2, <1>6
    <3>2. PICK k \in DOMAIN redis :
              k > n + j /\ redis[k].cmd = "subscribe" /\ p \in redis[k].pvs
      BY <1>1, <2>2, <3>1 DEF Ordered, LastIsSubscribe
    <3>3. k - n \in DOMAIN rest /\ k - n > j /\ n + (k - n) = k
      BY <1>2, <1>6, <3>2
    <3>4. rest[k - n] = redis[k]
      BY <1>6, <3>3
    <3> QED
      BY <3>2, <3>3, <3>4
  <2> QED
    BY <2>1, <2>2
<1>12. OnItsWay("unsubscribe")' \subseteq OnItsWay("unsubscribe")
  <2>1. OnItsWay("unsubscribe")' = NamesOf(redis', "unsubscribe")
                                     \cup NamesOf(commands, "unsubscribe")
    BY <1>3 DEF OnItsWay, NamesOf, discover
  <2>2. NamesOf(redis', "unsubscribe") \subseteq NamesOf(redis, "unsubscribe")
    <3>1. \A k \in (n + 1)..Len(redis) : k \in DOMAIN redis
      BY <1>2
    <3> QED
      BY <1>7, <3>1, InNames
  <2> QED
    BY <2>1, <2>2 DEF OnItsWay
<1>13. OnItsWay("subscribe")' = NamesOf(redis', "subscribe")
                                  \cup NamesOf(commands, "subscribe")
  BY <1>3 DEF OnItsWay, NamesOf, discover
<1>14. NamesOf(notify, "subscribe")' = NamesOf(notify, "subscribe")
  BY <1>3 DEF NamesOf
<1>15. \A p \in Enabled \ lost' : p \in lost \/ Held(p) => Held(p)'
  <2> SUFFICES ASSUME NEW p \in Enabled \ lost', Held(p) PROVE Held(p)'
    BY <1>8
  <2>1. p \in PVs \ lost'
    BY DEF Enabled
  <2>2. p \notin OnItsWay("unsubscribe")'
    BY <1>12 DEF Held
  <2>3. p \notin unsubs
    <3>1. \A k \in 1..n : k \in DOMAIN redis
      BY <1>2
    <3> QED
      BY <1>4, <3>1, InNames DEF Held, OnItsWay
  <2>4. Archived(p)' \/ p \in NamesOf(notify, "subscribe")'
    BY <1>3, <1>8, <1>14, <2>1, <2>3 DEF Held
  <2> QED
    BY <1>3, <2>2, <2>4 DEF Held
<1>16. ASSUME NEW p \in (Rows \cap DOMAIN known) \ lost'
       PROVE  \/ Archived(p)' \/ p \in OnItsWay("subscribe")'
              \/ p \in NamesOf(notify, "subscribe")'
  <2>1. p \in PVs \ lost' /\ p \notin lost
    BY <1>8 DEF Rows
  <2>2. ASSUME NEW k \in DOMAIN redis, k > n,
               redis[k].cmd = "subscribe", p \in redis[k].pvs
        PROVE  p \in OnItsWay("subscribe")'
    <3>1. k \in (n + 1)..Len(redis)
      BY <1>2, <2>2
    <3> QED
      BY <1>7, <1>13, <2>2, <3>1
  <2>3. ASSUME NEW k \in DOMAIN redis, k > 1, p \notin subs,
               redis[k].cmd = "subscribe", p \in redis[k].pvs
        PROVE  k > n
    <3>1. CASE k <= n
      <4>1. k \in 2..n
        BY <1>2, <2>3, <3>1
      <4> QED
        BY <1>4, <2>3, <4>1
    <3> QED
      BY <1>2, <3>1
  <2>4. CASE p \in subs
    BY <1>8, <2>1, <2>4
  <2>5. CASE p \in unsubs /\ p \notin subs
    <3>1. PICK j \in 1..n : redis[j].cmd = "unsubscribe" /\ p \in redis[j].pvs
      BY <1>4, <2>5
    <3>2. j \in DOMAIN redis
      BY <1>2
    <3>3. CASE p \in NamesOf(commands, "subscribe")
      BY <1>13, <3>3
    <3>4. CASE \E k \in DOMAIN redis :
                  k > j /\ redis[k].cmd = "subscribe" /\ p \in redis[k].pvs
      <4>1. PICK k \in DOMAIN redis :
                  k > j /\ redis[k].cmd = "subscribe" /\ p \in redis[k].pvs
        BY <3>4
      <4>2. k > 1
        BY <1>2, <4>1
      <4> QED
        BY <2>2, <2>3, <2>5, <4>1, <4>2
    <3> QED
      BY <1>1, <1>16, <2>1, <3>1, <3>2, <3>3, <3>4 DEF Ordered, LastIsSubscribe
  <2>6. CASE p \notin subs \cup unsubs
    <3>1. Archived(p)' <=> Archived(p)
      BY <1>8, <2>1, <2>6
    <3>2. CASE Archived(p)
      BY <3>1, <3>2
    <3>3. CASE p \in NamesOf(notify, "subscribe")
      BY <1>14, <3>3
    <3>4. CASE p \in NamesOf(commands, "subscribe")
      BY <1>13, <3>4
    <3>5. CASE p \in NamesOf(redis, "subscribe")
      <4>1. PICK k \in DOMAIN redis : redis[k].cmd = "subscribe" /\ p \in redis[k].pvs
        BY <3>5, InNames
      <4>2. CASE k > 1
        BY <2>2, <2>3, <2>6, <4>1, <4>2
      <4>3. CASE k = 1
        <5>1. p \in Subscribed
          BY <1>4, <2>6, <4>1, <4>3
        <5>2. p \in pv_ids
          BY <1>1, <2>1, <5>1 DEF Whole
        <5> QED
          BY <3>1, <5>1, <5>2 DEF Archived
      <4> QED
        BY <1>2, <4>2, <4>3
    <3> QED
      BY <1>1, <1>3, <1>16, <2>1, <3>2, <3>3, <3>4, <3>5 DEF Cared, OnItsWay
  <2> QED
    BY <2>4, <2>5, <2>6
<1> QED
  BY <1>3, <1>9, <1>10, <1>11, <1>15, <1>16, MainInv

\* A message that is no subscribe is dropped without any name of one.
LEMMA TailKeeps ==
  ASSUME NEW s \in Seq(Command), s # << >>, Head(s).cmd # "subscribe"
  PROVE  /\ Tail(s) \in Seq(Command) /\ Head(s) \in Command
         /\ NamesOf(s, "subscribe") = NamesOf(Tail(s), "subscribe")
<1>1. /\ Tail(s) \in Seq(Command) /\ Head(s) \in Command
      /\ NamesOf(s, "subscribe") =
           (IF Head(s).cmd = "subscribe" THEN Head(s).pvs ELSE {})
             \cup NamesOf(Tail(s), "subscribe")
  BY NamesTail
<1> QED
  BY <1>1

\* Nothing of Redis moves in the NOTIFY arms.
LEMMA RedisSame ==
  ASSUME Inv, UNCHANGED << redis, discover >>,
         \A p \in lost \ lost' : p \notin OnItsWay("unsubscribe")
  PROVE  Ordered' /\ \A kind : OnItsWay(kind)' = OnItsWay(kind)
<1>1. /\ \A kind : OnItsWay(kind)' = OnItsWay(kind)
      /\ \A p : LastIsSubscribe(p)' <=> LastIsSubscribe(p)
      /\ UNCHANGED << orch, known >>
  BY DEF LastIsSubscribe, OnItsWay, NamesOf, discover
<1>2. \A p : p \notin OnItsWay("unsubscribe") => LastIsSubscribe(p)
  BY InNames DEF LastIsSubscribe, OnItsWay
<1> QED
  BY <1>1, <1>2 DEF Inv, Ordered

\* A NOTIFY subscribe with those behind it; the message that ends the drain is
\* dropped, and it is no subscribe.
LEMMA HandleNotifyAddInv ==
  ASSUME Inv, NEW n \in 1..Len(notify), HandleNotifyAdd(n)
  PROVE  Inv'
<1>1. Types /\ Whole /\ Cared
  BY DEF Inv
<1>2. notify \in Seq(Command) /\ Len(notify) \in Nat /\ DOMAIN notify = 1..Len(notify)
  BY <1>1 DEF Types
<1> DEFINE subs == NamesOf(SubSeq(notify, 1, n), "subscribe") \ Subscribed
           from == IF n < Len(notify) /\ notify[n + 1].cmd # "subscribe"
                   THEN n + 2 ELSE n + 1
<1>3. /\ main = "running" /\ Apply(subs, {}) /\ notify' = SubSeq(notify, from, Len(notify))
      /\ UNCHANGED << db, updated, expected, discover, redis, listener, main,
                      name_servers >>
  BY DEF HandleNotifyAdd, stamps
<1>4. /\ from \in {n + 1, n + 2} /\ from \in 1..(Len(notify) + 1)
      /\ from = n + 2 => notify[n + 1].cmd # "subscribe"
  BY <1>2
<1> HIDE DEF from
<1>5. /\ notify' \in Seq(Command)
      /\ \A p : p \in NamesOf(notify', "subscribe")
                  <=> \E k \in from..Len(notify) :
                         notify[k].cmd = "subscribe" /\ p \in notify[k].pvs
  <2>1. from \in 1..(Len(notify) + 1) /\ Len(notify) \in 0..Len(notify)
    BY <1>2, <1>4
  <2>2. /\ SubSeq(notify, from, Len(notify)) \in Seq(Command)
        /\ \A p : p \in NamesOf(SubSeq(notify, from, Len(notify)), "subscribe")
                  <=> \E k \in from..Len(notify) :
                         notify[k].cmd = "subscribe" /\ p \in notify[k].pvs
    BY <1>2, <2>1, NamesRange
  <2> QED
    BY <1>3, <2>2
<1>6. \A p : p \in NamesOf(SubSeq(notify, 1, n), "subscribe")
               <=> \E k \in 1..n : notify[k].cmd = "subscribe" /\ p \in notify[k].pvs
  <2>1. 1 \in 1..(Len(notify) + 1) /\ n \in 0..Len(notify)
    BY <1>2
  <2> QED
    BY <1>2, <2>1, NamesRange
<1>7. SubSeq(notify, 1, n) \in Seq(Command)
  BY <1>2
<1>8. subs \in SUBSET PVs
  BY <1>7, NamesTyped
<1>9. /\ pv_server_cache' \in [PVs -> IOCs \cup {None}]
      /\ pv_ids' \subseteq PVs /\ lost' \subseteq PVs /\ lost \subseteq lost'
      /\ failed_pvs' \subseteq PVs
      /\ \A p \in PVs \ lost' :
           /\ p \in subs => Archived(p)'
           /\ p \notin subs => (Archived(p)' <=> Archived(p))
           /\ p \in Subscribed' => p \in pv_ids'
  <2> HIDE DEF subs
  <2>1. {} \in SUBSET PVs
    OBVIOUS
  <2> QED
    BY <1>1, <1>3, <1>8, <2>1, ApplyEffect
<1>10. ASSUME NEW p \in PVs \ lost',
              Archived(p) \/ p \in NamesOf(notify, "subscribe")
       PROVE  Archived(p)' \/ p \in NamesOf(notify', "subscribe")
  <2>1. CASE p \in subs
    BY <1>9, <2>1
  <2>2. CASE Archived(p) /\ p \notin subs
    BY <1>9, <2>2
  <2>3. CASE p \in NamesOf(notify, "subscribe") /\ p \notin subs
    <3>1. PICK k \in DOMAIN notify : notify[k].cmd = "subscribe" /\ p \in notify[k].pvs
      BY <2>3, InNames
    <3>2. CASE k <= n
      <4>1. k \in 1..n
        BY <1>2, <3>2
      <4>2. p \in Subscribed
        BY <1>6, <2>3, <3>1, <4>1
      <4>3. Archived(p)
        BY <1>1, <1>9, <4>2 DEF Whole, Archived
      <4> QED
        BY <1>9, <2>3, <4>3
    <3>3. CASE k > n
      <4>1. k \in from..Len(notify)
        BY <1>2, <1>4, <3>1, <3>3
      <4> QED
        BY <1>5, <3>1, <4>1
    <3> QED
      BY <1>2, <3>2, <3>3
  <2> QED
    BY <1>10, <2>1, <2>2, <2>3
<1> HIDE DEF subs
<1>11. Types'
  BY <1>1, <1>3, <1>5, <1>9 DEF Types, db, discover
<1>12. Whole'
  BY <1>9 DEF Whole, Subscribed
<1>13. Ordered' /\ \A kind : OnItsWay(kind)' = OnItsWay(kind)
  BY <1>3, <1>9, RedisSame
<1>14. NamesOf(notify, "subscribe")' = NamesOf(notify', "subscribe")
  BY DEF NamesOf
<1>15. \A p \in Enabled \ lost' : p \in lost \/ Held(p) => Held(p)'
  <2> SUFFICES ASSUME NEW p \in Enabled \ lost', Held(p) PROVE Held(p)'
    BY <1>9
  <2>1. p \in PVs \ lost'
    BY DEF Enabled
  <2> QED
    BY <1>3, <1>10, <1>13, <1>14, <2>1 DEF Held
<1>16. ASSUME NEW p \in (Rows \cap DOMAIN known) \ lost'
       PROVE  \/ Archived(p)' \/ p \in OnItsWay("subscribe")'
              \/ p \in NamesOf(notify, "subscribe")'
  <2>1. p \in PVs \ lost' /\ p \notin lost
    BY <1>9 DEF Rows
  <2>2. \/ Archived(p) \/ p \in OnItsWay("subscribe")
        \/ p \in NamesOf(notify, "subscribe")
    BY <1>1, <1>3, <1>16, <2>1 DEF Cared
  <2> QED
    BY <1>10, <1>13, <1>14, <2>1, <2>2
<1> QED
  BY <1>3, <1>11, <1>12, <1>13, <1>15, <1>16, MainInv

\* A delete: who is enabled or known and has no subscribe behind it is lost.
LEMMA HandleNotifyDelInv ==
  ASSUME Inv, HandleNotifyDel
  PROVE  Inv'
<1>1. Types /\ Whole /\ Cared
  BY DEF Inv
<1> DEFINE gone == Head(notify).pvs
           held == Enabled \cup (Rows \cap DOMAIN known)
<1>2. /\ main = "running" /\ notify # << >> /\ Head(notify).cmd = "unsubscribe"
      /\ pv_server_cache' = Uncached(pv_server_cache, gone)
      /\ pv_ids' = pv_ids \ gone
      /\ lost' = lost \cup ((gone \cap held) \ NamesOf(Tail(notify), "subscribe"))
      /\ notify' = Tail(notify)
      /\ UNCHANGED << db, updated, expected, discover, redis, listener, main,
                      name_servers, failed_pvs >>
  BY DEF HandleNotifyDel, stamps
<1>3. /\ notify' \in Seq(Command) /\ Head(notify) \in Command
      /\ NamesOf(notify, "subscribe") = NamesOf(notify', "subscribe")
  <2>1. notify \in Seq(Command)
    BY <1>1 DEF Types
  <2> QED
    BY <1>2, <2>1, TailKeeps
<1>4. held \subseteq PVs /\ gone \subseteq PVs
  BY <1>3 DEF Enabled, Rows, Command
<1> HIDE DEF gone, held
<1>5. /\ pv_server_cache' \in [PVs -> IOCs \cup {None}]
      /\ \A p \in PVs : p \in Subscribed' <=> p \in Subscribed /\ p \notin gone
  BY <1>1, <1>2 DEF Types, Uncached, Subscribed
<1>6. pv_ids' \subseteq PVs /\ lost' \subseteq PVs /\ lost \subseteq lost'
  BY <1>1, <1>2, <1>4 DEF Types
<1>7. Types'
  BY <1>1, <1>2, <1>3, <1>5, <1>6 DEF Types, db, discover
<1>8. Whole'
  BY <1>1, <1>2, <1>5, <1>6 DEF Whole, Subscribed
<1>9. Ordered' /\ \A kind : OnItsWay(kind)' = OnItsWay(kind)
  BY <1>2, <1>6, RedisSame
<1>10. NamesOf(notify, "subscribe")' = NamesOf(notify', "subscribe")
  BY DEF NamesOf
<1>11. ASSUME NEW p \in held \ lost',
              Archived(p) \/ p \in NamesOf(notify, "subscribe")
       PROVE  Archived(p)' \/ p \in NamesOf(notify, "subscribe")'
  <2>1. CASE p \in gone
    BY <1>2, <1>10, <1>11, <2>1
  <2>2. CASE p \notin gone
    BY <1>2, <1>3, <1>4, <1>5, <1>10, <1>11, <2>2 DEF Archived
  <2> QED
    BY <2>1, <2>2
<1>12. \A p \in Enabled \ lost' : p \in lost \/ Held(p) => Held(p)'
  <2> SUFFICES ASSUME NEW p \in Enabled \ lost', Held(p) PROVE Held(p)'
    BY <1>6
  <2>1. p \in held
    BY DEF held
  <2> QED
    BY <1>2, <1>9, <1>11, <2>1 DEF Held
<1>13. ASSUME NEW p \in (Rows \cap DOMAIN known) \ lost'
       PROVE  \/ Archived(p)' \/ p \in OnItsWay("subscribe")'
              \/ p \in NamesOf(notify, "subscribe")'
  <2>1. p \in held /\ p \notin lost
    BY <1>6 DEF held
  <2>2. \/ Archived(p) \/ p \in OnItsWay("subscribe")
        \/ p \in NamesOf(notify, "subscribe")
    BY <1>1, <1>2, <1>13, <2>1 DEF Cared
  <2> QED
    BY <1>9, <1>11, <2>1, <2>2
<1> QED
  BY <1>2, <1>7, <1>8, <1>9, <1>12, <1>13, MainInv

\* A change of ioc_config: who loses its server is lost unless it is found on
\* an added one and registered, and then it is archived.
LEMMA HandleIocChangeInv ==
  ASSUME Inv, HandleIocChange
  PROVE  Inv'
<1>1. Types /\ Whole /\ Cared
  BY DEF Inv
<1>2. /\ main = "running" /\ notify # << >> /\ notify' = Tail(notify)
      /\ Head(notify).cmd = "ioc_change"
      /\ UNCHANGED << db, updated, expected, discover, redis, listener, main >>
  BY DEF HandleIocChange, stamps
<1>3. PICK addrs \in {ioc_config, {}}, added \in SUBSET IOCs, dropped \in SUBSET PVs,
           recovered \in SUBSET PVs, reg \in SUBSET PVs, whole \in SUBSET PVs :
        /\ added = addrs \ name_servers
        /\ dropped = { p \in Subscribed : pv_server_cache[p] \notin addrs }
        /\ recovered \subseteq PVs /\ reg \subseteq recovered
        /\ whole = recovered \cap (pv_ids \cup reg)
        /\ name_servers' = addrs
        /\ \A p \in PVs : pv_server_cache'[p] \in
              IF p \in recovered THEN added
              ELSE IF p \in dropped THEN {None} ELSE {pv_server_cache[p]}
        /\ \E f : pv_server_cache' = [p \in PVs |-> f[p]]
        /\ failed_pvs' = (failed_pvs \cup dropped) \ recovered
        /\ pv_ids' = pv_ids \cup reg
        /\ lost' = (lost \cup dropped \cup (recovered \ whole))
                      \ (whole \ OnItsWay("unsubscribe"))
  <2>1. PICK addrs \in {ioc_config, {}} :
          \E how \in [(addrs \ name_servers) -> Hot] :
          LET added == addrs \ name_servers
              dropped == { p \in Subscribed : pv_server_cache[p] \notin addrs }
              found(i) ==
                   { p \in Serves[i] :
                       /\ how[i] # "refused"
                       /\ \/ p \in failed_pvs \cup dropped
                          \/ how[i] # "blind" /\ p \in Enabled \ Subscribed }
              recovered == UNION { found(i) : i \in added }
              reg == UNION { found(i) : i \in { k \in added : how[k] # "mute" } }
              whole == recovered \cap (pv_ids \cup reg)
          IN  /\ name_servers' = addrs
              /\ pv_server_cache' = [p \in PVs |->
                     IF p \in recovered THEN CHOOSE i \in added : p \in found(i)
                     ELSE IF p \in dropped THEN None ELSE pv_server_cache[p]]
              /\ failed_pvs' = (failed_pvs \cup dropped) \ recovered
              /\ pv_ids' = pv_ids \cup reg
              /\ lost' = (lost \cup dropped \cup (recovered \ whole))
                            \ (whole \ OnItsWay("unsubscribe"))
    BY DEF HandleIocChange
  <2> DEFINE added == addrs \ name_servers
             dropped == { p \in Subscribed : pv_server_cache[p] \notin addrs }
  <2>2. PICK how \in [added -> Hot] :
          LET found(i) ==
                   { p \in Serves[i] :
                       /\ how[i] # "refused"
                       /\ \/ p \in failed_pvs \cup dropped
                          \/ how[i] # "blind" /\ p \in Enabled \ Subscribed }
              recovered == UNION { found(i) : i \in added }
              reg == UNION { found(i) : i \in { k \in added : how[k] # "mute" } }
              whole == recovered \cap (pv_ids \cup reg)
          IN  /\ name_servers' = addrs
              /\ pv_server_cache' = [p \in PVs |->
                     IF p \in recovered THEN CHOOSE i \in added : p \in found(i)
                     ELSE IF p \in dropped THEN None ELSE pv_server_cache[p]]
              /\ failed_pvs' = (failed_pvs \cup dropped) \ recovered
              /\ pv_ids' = pv_ids \cup reg
              /\ lost' = (lost \cup dropped \cup (recovered \ whole))
                            \ (whole \ OnItsWay("unsubscribe"))
    BY <2>1
  <2> DEFINE found(i) ==
                   { p \in Serves[i] :
                       /\ how[i] # "refused"
                       /\ \/ p \in failed_pvs \cup dropped
                          \/ how[i] # "blind" /\ p \in Enabled \ Subscribed }
             recovered == UNION { found(i) : i \in added }
             reg == UNION { found(i) : i \in { k \in added : how[k] # "mute" } }
             whole == recovered \cap (pv_ids \cup reg)
             f == [p \in PVs |->
                     IF p \in recovered THEN CHOOSE i \in added : p \in found(i)
                     ELSE IF p \in dropped THEN None ELSE pv_server_cache[p]]
  <2>3. /\ name_servers' = addrs /\ pv_server_cache' = f
        /\ failed_pvs' = (failed_pvs \cup dropped) \ recovered
        /\ pv_ids' = pv_ids \cup reg
        /\ lost' = (lost \cup dropped \cup (recovered \ whole))
                      \ (whole \ OnItsWay("unsubscribe"))
    BY <2>2
  <2>4. added \subseteq IOCs
    BY <1>1 DEF Types
  <2>5. \A i \in added : found(i) \subseteq PVs
    BY <2>4, DiscoverAssumption
  <2>6. \A p : p \in recovered <=> \E i \in added : p \in found(i)
    OBVIOUS
  <2>7. reg \subseteq recovered
    OBVIOUS
  <2> HIDE DEF found, added, dropped, recovered, reg
  <2>8. recovered \subseteq PVs
    BY <2>5, <2>6
  <2>9. \A p \in recovered : (CHOOSE i \in added : p \in found(i)) \in added
    BY <2>6
  <2>10. \A p \in PVs : f[p] \in
              IF p \in recovered THEN added
              ELSE IF p \in dropped THEN {None} ELSE {pv_server_cache[p]}
    BY <2>9
  <2>11. f = [p \in PVs |-> f[p]]
    OBVIOUS
  <2> HIDE DEF f
  <2>12. /\ addrs \in {ioc_config, {}}
         /\ added = addrs \ name_servers
         /\ dropped = { p \in Subscribed : pv_server_cache[p] \notin addrs }
         /\ whole = recovered \cap (pv_ids \cup reg)
    BY DEF added, dropped
  <2>13. /\ \A p \in PVs : pv_server_cache'[p] \in
              IF p \in recovered THEN added
              ELSE IF p \in dropped THEN {None} ELSE {pv_server_cache[p]}
         /\ \E g : pv_server_cache' = [p \in PVs |-> g[p]]
    BY <2>3, <2>10, <2>11
  <2> HIDE DEF whole
  <2>14. /\ added \in SUBSET IOCs /\ dropped \in SUBSET PVs /\ recovered \in SUBSET PVs
         /\ reg \in SUBSET PVs /\ whole \in SUBSET PVs
    BY <2>4, <2>7, <2>8, <2>12 DEF Subscribed
  <2> QED
    BY <2>3, <2>7, <2>8, <2>12, <2>13, <2>14
<1>4. /\ notify' \in Seq(Command)
      /\ NamesOf(notify, "subscribe") = NamesOf(notify', "subscribe")
  <2>1. notify \in Seq(Command)
    BY <1>1 DEF Types
  <2> QED
    BY <1>2, <2>1, TailKeeps
<1>5. addrs \subseteq IOCs /\ added \subseteq IOCs /\ dropped \subseteq Subscribed
  BY <1>1, <1>3 DEF Types
<1>6. /\ pv_server_cache' \in [PVs -> IOCs \cup {None}]
      /\ \A p \in PVs : p \in Subscribed' <=>
            p \in recovered \/ (p \in Subscribed /\ p \notin dropped)
  <2>1. None \notin IOCs
    BY DiscoverAssumption
  <2>2. \A p \in PVs : pv_server_cache[p] \in IOCs \cup {None}
    BY <1>1 DEF Types
  <2>3. \A p \in PVs : pv_server_cache'[p] \in IOCs \cup {None}
    BY <1>3, <1>5, <2>2
  <2>4. pv_server_cache' \in [PVs -> IOCs \cup {None}]
    BY <1>3, <2>3
  <2>5. \A p \in PVs :
           /\ p \in recovered => pv_server_cache'[p] # None
           /\ p \notin recovered /\ p \in dropped => pv_server_cache'[p] = None
           /\ p \notin recovered /\ p \notin dropped
                => pv_server_cache'[p] = pv_server_cache[p]
    BY <1>3, <1>5, <2>1
  <2>6. \A p \in PVs : (p \in Subscribed' <=> pv_server_cache'[p] # None)
                       /\ (p \in Subscribed <=> pv_server_cache[p] # None)
    BY DEF Subscribed
  <2> QED
    BY <2>4, <2>5, <2>6
<1>7. /\ pv_ids' \subseteq PVs /\ lost' \subseteq PVs /\ failed_pvs' \subseteq PVs
      /\ name_servers' \subseteq IOCs
  BY <1>1, <1>3, <1>5 DEF Types, Subscribed
<1>8. Types'
  BY <1>1, <1>2, <1>4, <1>6, <1>7 DEF Types, db, discover
<1>9. ASSUME NEW p \in PVs \ lost'
      PROVE  /\ p \in Subscribed' => p \in pv_ids'
             /\ p \in Subscribed => Archived(p)'
             /\ p \in lost => p \notin OnItsWay("unsubscribe") /\ Archived(p)'
             /\ ~Archived(p)' => p \notin Subscribed /\ p \notin lost
  <2>1. CASE p \in recovered
    <3>1. p \in whole
      BY <1>3, <1>9, <2>1
    <3>2. p \in pv_ids' /\ p \in Subscribed'
      BY <1>3, <1>6, <2>1, <3>1
    <3> QED
      BY <1>3, <1>9, <3>1, <3>2 DEF Archived
  <2>2. CASE p \notin recovered
    <3>1. p \notin lost /\ p \notin dropped
      BY <1>3, <1>9, <2>2
    <3>2. p \in Subscribed' <=> p \in Subscribed
      BY <1>6, <2>2, <3>1
    <3>3. p \in Subscribed => p \in pv_ids'
      BY <1>1, <1>3, <3>1 DEF Whole
    <3> QED
      BY <3>1, <3>2, <3>3 DEF Archived
  <2> QED
    BY <2>1, <2>2
<1>10. Whole'
  BY <1>9 DEF Whole, Subscribed
<1>11. Ordered' /\ \A kind : OnItsWay(kind)' = OnItsWay(kind)
  <2>1. \A p \in lost \ lost' : p \notin OnItsWay("unsubscribe")
    BY <1>3
  <2> QED
    BY <1>2, <2>1, RedisSame
<1>12. NamesOf(notify, "subscribe")' = NamesOf(notify, "subscribe")
  <2>1. NamesOf(notify, "subscribe")' = NamesOf(notify', "subscribe")
    BY DEF NamesOf
  <2> QED
    BY <1>4, <2>1
<1>13. \A p \in Enabled \ lost' : p \in lost \/ Held(p) => Held(p)'
  <2> SUFFICES ASSUME NEW p \in Enabled \ lost', p \in lost \/ Held(p) PROVE Held(p)'
    OBVIOUS
  <2>1. p \in PVs \ lost'
    BY DEF Enabled
  <2>2. p \notin OnItsWay("unsubscribe")
    BY <1>9, <2>1 DEF Held
  <2>3. Archived(p)' \/ p \in NamesOf(notify, "subscribe")
    BY <1>2, <1>9, <2>1 DEF Held, Archived
  <2> QED
    BY <1>11, <1>12, <2>2, <2>3 DEF Held
<1>14. ASSUME NEW p \in (Rows \cap DOMAIN known) \ lost'
       PROVE  \/ Archived(p)' \/ p \in OnItsWay("subscribe")'
              \/ p \in NamesOf(notify, "subscribe")'
  <2>1. p \in PVs \ lost'
    BY DEF Rows
  <2>2. CASE ~Archived(p)'
    <3>1. p \notin Subscribed /\ p \notin lost
      BY <1>9, <2>1, <2>2
    <3>2. p \in OnItsWay("subscribe") \/ p \in NamesOf(notify, "subscribe")
      BY <1>1, <1>2, <1>14, <3>1 DEF Cared, Archived
    <3> QED
      BY <1>11, <1>12, <3>2
  <2> QED
    BY <2>2
<1> QED
  BY <1>2, <1>8, <1>10, <1>11, <1>13, <1>14, MainInv

LEMMA NextInv == Inv /\ [Next]_vars => Inv'
<1> SUFFICES ASSUME Inv, [Next]_vars PROVE Inv'
  OBVIOUS
<1>1. CASE Operator
  <2>1. CASE \E i \in IOCs : EditIoc(i)
    <3>1. PICK i \in IOCs : EditIoc(i)
      BY <2>1
    <3>2. UNCHANGED << lost, Elsewhere, config, beat, updated, expected >> /\ Notify(IocChange)
          /\ ioc_config' \subseteq ioc_config \cup {i}
      BY <3>1 DEF EditIoc, Elsewhere, stamps
    <3>3. Types /\ IocChange \in Command
      BY DEF Inv, IocChange, Command
    <3>4. /\ notify' \in Seq(Command)
          /\ NamesOf(notify, "subscribe") \subseteq NamesOf(notify, "subscribe")'
      BY <3>2, <3>3, NotifyKeeps
    <3>5. Types'
      BY <3>2, <3>3, <3>4 DEF Types, Elsewhere, discover, ingest
    <3>6. Enabled' = Enabled /\ Rows' = Rows
      BY <3>2 DEF Enabled, Rows
    <3> QED
      BY <3>2, <3>4, <3>5, <3>6, EditInv
  <2> QED
    BY <1>1, <2>1, InsertInv, SetEnabledInv, OtherEditsInv DEF Operator
<1>2. CASE Orchestrator \/ QueryFails \/ FlushFails
  BY <1>2, QueryInv, BootReconcileInv, CycleReconcileInv, FlushInv, FlushFailsInv
     DEF Orchestrator
<1>3. CASE Listen \/ ListenerFails
  BY <1>3, ListenerInv
<1>4. CASE Main
  BY <1>4, ListenerInv, MainStartupInv, HandleRedisInv, HandleNotifyAddInv,
     HandleNotifyDelInv, HandleIocChangeInv DEF Main
<1>5. CASE UNCHANGED vars
  <2>1. /\ Enabled' = Enabled /\ Rows' = Rows /\ Subscribed' = Subscribed
        /\ \A kind : OnItsWay(kind)' = OnItsWay(kind)
        /\ NamesOf(notify, "subscribe")' = NamesOf(notify, "subscribe")
        /\ \A p : Coming(p)' <=> Coming(p)
        /\ UNCHANGED << known, orch, lost, pv_ids, redis, commands, main >>
    BY <1>5 DEF vars, db, stamps, discover, ingest, Enabled, Rows, Subscribed, OnItsWay,
                NamesOf, Coming
  <2>2. Types' /\ Books'
    BY <1>5 DEF Inv, Types, Books, vars, db, stamps, discover, ingest
  <2>4. Ordered'
    BY <2>1 DEF Inv, Ordered, LastIsSubscribe, NamesOf
  <2>3. Noticed' /\ Cared' /\ Whole'
    BY <2>1 DEF Inv, Noticed, Held, Cared, Whole, Archived
  <2> QED
    BY <2>2, <2>3, <2>4 DEF Inv
<1> QED
  BY <1>1, <1>2, <1>3, <1>4, <1>5 DEF Next

----------------------------------------------------------------------------
\* Every variable of the pipeline keeps its type: commands on every queue name
\* PVs, and a cached server is an IOC, whatever edits, faults and crashes of
\* the orchestrator and the listener come in between.
THEOREM DiscoverTypeCorrect == Spec => []TypeOK
<1>1. Inv => TypeOK
  BY DEF Inv, Types, Books, TypeOK, Phases
<1> QED
  BY <1>1, InitInv, NextInv, PTL DEF Spec

\* Whenever the orchestrator is past its boot, what the reconciler resolved is
\* what the poller knows, although they are updated by different calls of a
\* cycle that may fail in between (orchestrator.rs, boot and cycle).
THEOREM DiscoverBooksAgree == Spec => []BooksAgree
<1>1. Inv => BooksAgree
  BY DEF Inv, Books, BooksAgree
<1> QED
  BY <1>1, InitInv, NextInv, PTL DEF Spec

\* Once nothing is on its way, every enabled PV is subscribed and has its id,
\* or was lost in one of the ways that lost names: for any number of edits,
\* failures, PVs and IOCs, however poll, NOTIFY and Redis commands cross, also
\* when a query, a publish, a search or a registration in pv_lookup fails or
\* the orchestrator has ended (main.rs:880-944, orchestrator.rs:164-260).
THEOREM DiscoverEnabledIsArchived == Spec => []EnabledIsArchived
<1>1. ASSUME Inv PROVE EnabledIsArchived
  <2> SUFFICES ASSUME Quiet, NEW p \in Enabled, p \notin lost PROVE Archived(p)
    BY DEF EnabledIsArchived
  <2>1. p \in DOMAIN known \/ Held(p)
    BY <1>1 DEF Inv, Noticed, Coming, Quiet
  <2>2. /\ OnItsWay("subscribe") = {} /\ NamesOf(notify, "subscribe") = {}
    BY <1>1, NamesEmpty DEF Inv, Books, Quiet, OnItsWay
  <2>3. p \in Rows
    BY DEF Enabled, Rows
  <2> QED
    BY <1>1, <2>1, <2>2, <2>3 DEF Inv, Cared, Held, Quiet
<1> QED
  BY <1>1, InitInv, NextInv, PTL DEF Spec
=============================================================================
