------------------------------ MODULE HubProofs -----------------------------
(***************************************************************************)
(* Proofs about ProviderHub for every set of providers and credentials and *)
(* every number of flows and faults: the types, the answers that loading   *)
(* lists wait for, the lists that follow the backend, and the tray.        *)
(***************************************************************************)
EXTENDS ProviderHub, TLAPS

-----------------------------------------------------------------------------
(* Lists and calls *)

LEMMA PartialIs ==
  ASSUME NEW S, NEW T, NEW f
  PROVE  f \in Partial(S, T) <=> f \in [DOMAIN f -> T] /\ DOMAIN f \subseteq S
BY DEF Partial

LEMMA NothingIsPartial ==
  ASSUME NEW S, NEW T
  PROVE  Nothing \in Partial(S, T) /\ DOMAIN Nothing = {}
<1>1. DOMAIN Nothing = {} /\ Nothing \in [{} -> T]
  BY DEF Nothing
<1> QED BY <1>1, PartialIs

LEMMA PutIs ==
  ASSUME NEW S, NEW T, NEW f \in Partial(S, T), NEW x \in S, NEW v \in T
  PROVE  Put(f, x, v) \in Partial(S, T) /\ DOMAIN Put(f, x, v) = DOMAIN f \cup {x}
<1>1. f \in [DOMAIN f -> T] /\ DOMAIN f \subseteq S
  BY PartialIs
<1>2. /\ DOMAIN Put(f, x, v) = DOMAIN f \cup {x}
      /\ Put(f, x, v) \in [DOMAIN f \cup {x} -> T]
  BY <1>1 DEF Put
<1> QED BY <1>1, <1>2, PartialIs

LEMMA DropIs ==
  ASSUME NEW S, NEW T, NEW f \in Partial(S, T), NEW x
  PROVE  Drop(f, x) \in Partial(S, T) /\ DOMAIN Drop(f, x) = DOMAIN f \ {x}
<1>1. f \in [DOMAIN f -> T] /\ DOMAIN f \subseteq S
  BY PartialIs
<1>2. /\ DOMAIN Drop(f, x) = DOMAIN f \ {x}
      /\ Drop(f, x) \in [DOMAIN f \ {x} -> T]
  BY <1>1 DEF Drop
<1> QED BY <1>1, <1>2, PartialIs

\* What a list that is shown looks like.
LEMMA ListShape ==
  ASSUME NEW S, NEW T, NEW v \in Lists(S, T)
  PROVE  /\ v = Answered(v.status, v.list)
         /\ v.list \in Partial(S, T)
         /\ v.status \in {"loading", "failed", "empty", "success"}
         /\ v.status = "success" <=> DOMAIN v.list # {}
<1>1. Nothing \in Partial(S, T) /\ DOMAIN Nothing = {}
  BY NothingIsPartial
<1> HIDE DEF Nothing
<1>2. CASE v \in {Loading, Failed, Answered("empty", Nothing)}
  BY <1>1, <1>2 DEF Loading, Failed, Answered
<1>3. CASE v \in {Answered("success", f) : f \in {g \in Partial(S, T) : DOMAIN g # {}}}
  <2>1. PICK g \in Partial(S, T) : DOMAIN g # {} /\ v = Answered("success", g)
    BY <1>3
  <2> QED BY <2>1 DEF Answered
<1> QED BY <1>2, <1>3 DEF Lists

LEMMA ListedIsList ==
  ASSUME NEW S, NEW T, NEW f \in Partial(S, T)
  PROVE  /\ Listed(f) \in Lists(S, T)
         /\ Loading \in Lists(S, T) /\ Failed \in Lists(S, T) /\ Answered("empty", Nothing) \in Lists(S, T)
         /\ Listed(f).list = f /\ Listed(f).status \in {"empty", "success"}
<1>1. Loading \in Lists(S, T) /\ Failed \in Lists(S, T) /\ Answered("empty", Nothing) \in Lists(S, T)
  BY DEF Lists
<1>2. Listed(f).list = f /\ Listed(f).status \in {"empty", "success"}
  BY DEF Listed, Answered
<1> SUFFICES Listed(f) \in Lists(S, T)
  BY <1>1, <1>2
<1>3. CASE DOMAIN f # {}
  <2>1. Listed(f) = Answered("success", f) /\ f \in {g \in Partial(S, T) : DOMAIN g # {}}
    BY <1>3 DEF Listed
  <2>2. Answered("success", f) \in {Answered("success", g) : g \in {h \in Partial(S, T) : DOMAIN h # {}}}
    BY <2>1
  <2>3. Answered("success", f) \in Lists(S, T)
    BY <2>2 DEF Lists
  <2> QED BY <2>1, <2>3
<1>4. CASE DOMAIN f = {}
  <2>1. f = Nothing
    BY <1>4, PartialIs DEF Nothing
  <2>2. Listed(f) = Answered("empty", f)
    BY <1>4 DEF Listed
  <2> QED BY <1>1, <2>1, <2>2
<1> QED BY <1>3, <1>4

\* A list that claims success is never empty, whatever is marked or taken out of it.
LEMMA MarkIsList ==
  ASSUME view \in Lists(Creds, Health), NEW id, NEW health \in Health
  PROVE  /\ Mark(id, health) \in Lists(Creds, Health)
         /\ Mark(id, health).status = view.status
         /\ DOMAIN Mark(id, health).list = DOMAIN view.list
         /\ \A x \in DOMAIN view.list :
              Mark(id, health).list[x] = IF x = id THEN health ELSE view.list[x]
<1>1. /\ view = Answered(view.status, view.list)
      /\ view.list \in [DOMAIN view.list -> Health] /\ DOMAIN view.list \subseteq Creds
      /\ view.list \in Partial(Creds, Health)
      /\ view.status = "success" <=> DOMAIN view.list # {}
  BY ListShape, PartialIs
<1>2. CASE id \notin DOMAIN view.list
  BY <1>1, <1>2 DEF Mark
<1>3. CASE id \in DOMAIN view.list
  <2> DEFINE g == [view.list EXCEPT ![id] = health]
  <2>1. /\ g \in [DOMAIN view.list -> Health] /\ DOMAIN g = DOMAIN view.list
        /\ \A x \in DOMAIN view.list : g[x] = IF x = id THEN health ELSE view.list[x]
    BY <1>1
  <2>2. view = [status |-> view.status, list |-> view.list]
    BY <1>1 DEF Answered
  <2>3. Mark(id, health) = [status |-> view.status, list |-> g]
    BY <1>3, <2>2 DEF Mark
  <2>4. Mark(id, health) = Listed(g)
    BY <1>1, <1>3, <2>1, <2>3 DEF Listed, Answered
  <2>5. g \in Partial(Creds, Health)
    BY <1>1, <2>1, PartialIs
  <2> HIDE DEF g
  <2> QED BY <2>1, <2>3, <2>4, <2>5, ListedIsList
<1> QED BY <1>2, <1>3

LEMMA UnlistIsList ==
  ASSUME view \in Lists(Creds, Health), NEW id \in Creds
  PROVE  /\ Unlist(id) \in Lists(Creds, Health)
         /\ DOMAIN Unlist(id).list = DOMAIN view.list \ {id}
         /\ Unlist(id).status = "loading" => view.status = "loading"
<1>1. /\ view.list \in Partial(Creds, Health)
      /\ view.status = "success" <=> DOMAIN view.list # {}
  BY ListShape
<1>2. CASE view.status = "success"
  <2> DEFINE f == view.list
  <2>1. Unlist(id) = Listed(Drop(f, id)) /\ f \in Partial(Creds, Health)
    BY <1>1, <1>2 DEF Unlist
  <2>2. DOMAIN f = DOMAIN view.list
    OBVIOUS
  <2> HIDE DEF f
  <2>3. Drop(f, id) \in Partial(Creds, Health) /\ DOMAIN Drop(f, id) = DOMAIN f \ {id}
    BY <2>1, DropIs
  <2> QED BY <2>1, <2>2, <2>3, ListedIsList
<1>3. CASE view.status # "success"
  BY <1>1, <1>3 DEF Unlist
<1> QED BY <1>2, <1>3

-----------------------------------------------------------------------------
(* The calls under way *)

\* What each command is sent with.
GoodCalls ==
  {c \in Calls :
    /\ c.cmd = "configure" => /\ c.p \in Providers /\ c.arg \in Creds \cup {NoCred}
                              /\ c.flow \in {"provider", "remove"}
    /\ c.cmd = "add" => c.p \in Providers \cup {Repo}
    /\ c.cmd = "delete" => c.arg \in Creds /\ (c.flow = "remove" => c.p \in Providers)
    /\ c.cmd = "check" => c.arg \in Creds
    /\ c.cmd = "tray" => c.arg \in {"ok", "degraded", "error"}}

Sent(q) == {q[i] : i \in DOMAIN q}

LEMMA CallIsCall ==
  ASSUME NEW cmd \in Commands, NEW flow \in Flows, NEW p \in Providers \cup {NoProvider, Repo},
         NEW arg \in Creds \cup {NoCred, "ok", "degraded", "error"}, NEW c, c = Call(cmd, flow, p, arg)
  PROVE  c \in Calls /\ c.cmd = cmd /\ c.flow = flow /\ c.p = p /\ c.arg = arg /\ c.todo = {}
BY DEF Call, Calls

\* A check of a health loop, with the ids that are left.
Polled(cmd, flow, arg, todo) == [Call(cmd, flow, NoProvider, arg) EXCEPT !.todo = todo]

LEMMA PolledIsCall ==
  ASSUME NEW cmd \in Commands, NEW flow \in Flows,
         NEW arg \in Creds \cup {NoCred, "ok", "degraded", "error"}, NEW todo \in SUBSET Creds,
         NEW c, c = Polled(cmd, flow, arg, todo)
  PROVE  c \in Calls /\ c.cmd = cmd /\ c.flow = flow /\ c.p = NoProvider /\ c.arg = arg /\ c.todo = todo
<1>1. c = [cmd |-> cmd, flow |-> flow, p |-> NoProvider, arg |-> arg, todo |-> todo]
  BY DEF Polled, Call
<1> QED BY <1>1 DEF Calls

LEMMA Sending ==
  ASSUME NEW q \in Seq(GoodCalls), NEW c \in GoodCalls
  PROVE  /\ Append(q, c) \in Seq(GoodCalls) /\ Append(q, c) = q \o <<c>>
         /\ Sent(Append(q, c)) = Sent(q) \cup {c}
<1>1. /\ Append(q, c) \in Seq(GoodCalls) /\ Append(q, c) = q \o <<c>>
      /\ Len(Append(q, c)) = Len(q) + 1
      /\ \A i \in 1..Len(q) : Append(q, c)[i] = q[i]
      /\ Append(q, c)[Len(q) + 1] = c
      /\ DOMAIN q = 1..Len(q) /\ Len(q) \in Nat /\ DOMAIN Append(q, c) = 1..Len(q) + 1
  OBVIOUS
<1>2. \A i : i \in 1..Len(q) + 1 <=> i \in 1..Len(q) \/ i = Len(q) + 1
  BY <1>1
<1>3. Sent(Append(q, c)) \subseteq Sent(q) \cup {c}
  BY <1>1, <1>2 DEF Sent
<1>4. Sent(q) \subseteq Sent(Append(q, c)) /\ c \in Sent(Append(q, c))
  BY <1>1, <1>2 DEF Sent
<1> QED BY <1>1, <1>3, <1>4

LEMMA Served ==
  ASSUME NEW q \in Seq(GoodCalls), q # <<>>
  PROVE  /\ Head(q) \in GoodCalls /\ Tail(q) \in Seq(GoodCalls)
         /\ Sent(q) = {Head(q)} \cup Sent(Tail(q))
<1>1. /\ Head(q) = q[1] /\ Tail(q) \in Seq(GoodCalls) /\ Head(q) \in GoodCalls
      /\ Len(q) \in Nat \ {0} /\ DOMAIN q = 1..Len(q)
      /\ Len(Tail(q)) = Len(q) - 1 /\ DOMAIN Tail(q) = 1..Len(q) - 1
      /\ \A i \in 1..Len(q) - 1 : Tail(q)[i] = q[i + 1]
  OBVIOUS
<1>2. Sent(q) \subseteq {Head(q)} \cup Sent(Tail(q))
  <2> SUFFICES ASSUME NEW i \in DOMAIN q, i # 1
               PROVE  q[i] \in Sent(Tail(q))
    BY <1>1 DEF Sent
  <2>1. i - 1 \in 1..Len(q) - 1 /\ (i - 1) + 1 = i
    BY <1>1
  <2> QED BY <1>1, <2>1 DEF Sent
<1>3. Head(q) \in Sent(q)
  BY <1>1 DEF Sent
<1>4. Sent(Tail(q)) \subseteq Sent(q)
  <2> SUFFICES ASSUME NEW i \in DOMAIN Tail(q)
               PROVE  Tail(q)[i] \in Sent(q)
    BY DEF Sent
  <2>1. i + 1 \in DOMAIN q /\ Tail(q)[i] = q[i + 1]
    BY <1>1
  <2> QED BY <2>1 DEF Sent
<1> QED BY <1>1, <1>2, <1>3, <1>4

\* The step of a health loop: what it sends, and what it lists as loading.
LEMMA CheckNextSends ==
  ASSUME shown \in Lists(Providers, Config),
         NEW q \in Seq(GoodCalls), NEW flow \in Flows, NEW todo \in SUBSET Creds, NEW list,
         CheckNext(q, flow, todo, list)
  PROVE  /\ queue' \in Seq(GoodCalls) /\ Sent(q) \subseteq Sent(queue')
         /\ shown' \in Lists(Providers, Config)
         /\ shown' = shown \/ (shown' = Loading /\ \E c \in Sent(queue') : c.cmd = "configs")
         /\ flow \in ReloadConfigs =>
              \E c \in Sent(queue') : c.cmd \in {"check", "configs"} /\ c.flow \in ReloadConfigs
<1>1. CASE todo # {}
  <2>1. PICK id \in todo : queue' = Append(q, Polled("check", flow, id, todo \ {id}))
    BY <1>1 DEF CheckNext, Polled
  <2> DEFINE c == Polled("check", flow, id, todo \ {id})
  <2>2. /\ "check" \in Commands /\ id \in Creds
        /\ id \in Creds \cup {NoCred, "ok", "degraded", "error"} /\ todo \ {id} \in SUBSET Creds
    BY DEF Commands
  <2>3. c \in Calls /\ c.cmd = "check" /\ c.arg = id /\ c.flow = flow
    BY <2>2, PolledIsCall
  <2> HIDE DEF c
  <2>4. c \in GoodCalls
    BY <2>2, <2>3 DEF GoodCalls
  <2>5. queue' = Append(q, c)
    BY <2>1 DEF c
  <2>6. queue' \in Seq(GoodCalls) /\ Sent(queue') = Sent(q) \cup {c}
    BY <2>4, <2>5, Sending
  <2>7. shown' = shown
    BY <1>1 DEF CheckNext
  <2> QED BY <2>3, <2>6, <2>7
<1>2. CASE todo = {} /\ flow \in ReloadConfigs
  <2> DEFINE c == Call("configs", flow, NoProvider, NoCred)
  <2>1. "configs" \in Commands /\ {} \in SUBSET Creds
    BY DEF Commands
  <2>2. c \in Calls /\ c.cmd = "configs" /\ c.flow = flow
    BY <2>1, CallIsCall
  <2> HIDE DEF c
  <2>3. c \in GoodCalls
    BY <2>2 DEF GoodCalls
  <2>4. flow # "poll"
    BY <1>2 DEF ReloadConfigs
  <2>5. queue' = q \o <<c>> /\ shown' = Loading
    BY <1>2, <2>4 DEF CheckNext, c
  <2>6. queue' \in Seq(GoodCalls) /\ Sent(queue') = Sent(q) \cup {c}
    BY <2>3, <2>5, Sending
  <2>7. Loading \in Lists(Providers, Config)
    BY DEF Lists
  <2> QED BY <1>2, <2>2, <2>5, <2>6, <2>7
<1>3. CASE todo = {} /\ flow = "poll"
  <2> DEFINE status == Verdict(DOMAIN list, Healthy(list))
             c == Call("tray", flow, NoProvider, status)
  <2>1. "tray" \in Commands /\ NoProvider \in Providers \cup {NoProvider, Repo}
    BY DEF Commands
  <2>2. status \in {"ok", "degraded", "error"} /\ status \in Creds \cup {NoCred, "ok", "degraded", "error"}
    BY DEF Verdict
  <2>4. flow \notin ReloadConfigs
    BY <1>3 DEF ReloadConfigs
  <2>5. queue' = q \o <<c>> /\ shown' = shown
    BY <1>3, <2>4 DEF CheckNext
  <2> HIDE DEF status
  <2>3. c \in Calls /\ c.cmd = "tray" /\ c.arg = status
    BY <2>1, <2>2, CallIsCall
  <2> HIDE DEF c
  <2>6. c \in GoodCalls
    BY <2>2, <2>3 DEF GoodCalls
  <2>7. queue' \in Seq(GoodCalls) /\ Sent(queue') = Sent(q) \cup {c}
    BY <2>5, <2>6, Sending
  <2> QED BY <2>4, <2>5, <2>7
<1>4. CASE todo = {} /\ flow # "poll" /\ flow \notin ReloadConfigs
  <2>1. queue' = q \o <<>> /\ shown' = shown
    BY <1>4 DEF CheckNext
  <2>2. queue' = q
    BY <2>1
  <2> QED BY <1>4, <2>1, <2>2
<1> QED BY <1>1, <1>2, <1>3, <1>4

-----------------------------------------------------------------------------
(* The invariant *)

Types == TypeOK /\ queue \in Seq(GoodCalls)

\* LoadingIsAnswered, said of the calls.
Loads ==
  /\ view.status = "loading" => \E c \in Sent(queue) : c.cmd = "list"
  /\ shown.status = "loading" => \E c \in Sent(queue) : c.cmd = "configs"
  /\ console = "loading" => \E c \in Sent(queue) : c.cmd = "invoke"

\* The configs shown are the gateway's, or a call that ends with a reload is under way.
ConfigsAgree == \A p \in DOMAIN shown.list : p \in DOMAIN config /\ shown.list[p] = config[p]
WillReload == \E c \in Sent(queue) : c.cmd \in {"check", "configs"} /\ c.flow \in ReloadConfigs
ConfigsFollow == "configs" \notin unseen => ConfigsAgree \/ WillReload

\* The credentials listed exist, also while calls are under way.
ListFollows == "credentials" \notin unseen => ListedIsStored

HubInv == Types /\ Loads /\ ConfigsFollow /\ ListFollows

LEMMA SentIsUnderWay ==
  ASSUME NEW cmd
  PROVE  (\E c \in Sent(queue) : c.cmd = cmd) <=> cmd \in {queue[i].cmd : i \in DOMAIN queue}
BY DEF Sent

LEMMA GoodIsCall ==
  ASSUME NEW q \in Seq(GoodCalls)
  PROVE  q \in Seq(Calls)
BY DEF GoodCalls

LEMMA LoadingLists ==
  /\ Loading.status = "loading" /\ DOMAIN Loading.list = {}
  /\ Failed.status = "failed" /\ DOMAIN Failed.list = {}
  /\ Loading \in Lists(Creds, Health) /\ Failed \in Lists(Creds, Health)
  /\ Loading \in Lists(Providers, Config) /\ Failed \in Lists(Providers, Config)
<1>1. DOMAIN Nothing = {}
  BY DEF Nothing
<1>2. Loading.list = Nothing /\ Failed.list = Nothing /\ Loading.status = "loading" /\ Failed.status = "failed"
  BY DEF Loading, Failed, Answered
<1> QED BY <1>1, <1>2 DEF Lists

LEMMA InitInv == Init => HubInv
<1> SUFFICES ASSUME Init
             PROVE  HubInv
  OBVIOUS
<1> DEFINE a == Call("list", "open", NoProvider, NoCred)
           b == Call("list", "surface", NoProvider, NoCred)
           c == Call("list", "poll", NoProvider, NoCred)
<1>1. "list" \in Commands /\ {"open", "surface", "poll"} \subseteq Flows
  BY DEF Commands, Flows
<1>2. /\ a \in Calls /\ a.cmd = "list" /\ b \in Calls /\ b.cmd = "list"
      /\ c \in Calls /\ c.cmd = "list"
  <2> HIDE DEF a, b, c
  <2>1. a \in Calls /\ a.cmd = "list"
    BY <1>1, CallIsCall DEF a
  <2>2. b \in Calls /\ b.cmd = "list"
    BY <1>1, CallIsCall DEF b
  <2>3. c \in Calls /\ c.cmd = "list"
    BY <1>1, CallIsCall DEF c
  <2> QED BY <2>1, <2>2, <2>3
<1>3. queue = <<a, b, c>>
  BY DEF Init
<1> HIDE DEF a, b, c
<1>4. a \in GoodCalls /\ b \in GoodCalls /\ c \in GoodCalls
  BY <1>2 DEF GoodCalls
<1>5. queue \in Seq(GoodCalls) /\ a \in Sent(queue)
  BY <1>3, <1>4 DEF Sent
<1>6. /\ Nothing \in Partial(Providers, Config) /\ DOMAIN Nothing = {}
  BY NothingIsPartial
<1>7. Answered("empty", Nothing) \in Lists(Providers, Config)
  BY DEF Lists
<1>8. Answered("empty", Nothing).status = "empty" /\ Answered("empty", Nothing).list = Nothing
  BY DEF Answered
<1>9. TypeOK
  <2>1. owner \in [Creds -> Providers \cup {NoProvider, Repo}] /\ secrets \subseteq stored
        /\ stored \subseteq {id \in Creds : owner[id] # NoProvider}
    BY DEF Init
  <2>2. view \in Lists(Creds, Health) /\ shown \in Lists(Providers, Config) /\ config \in Partial(Providers, Config)
    BY <1>6, <1>7, LoadingLists DEF Init
  <2>3. form \in [p: Providers, cred: Creds \cup {NoCred}]
    BY DEF Init
  <2>4. started \in 0..MaxFlows /\ faults \in 0..MaxFaults
    BY HubAssumption DEF Init
  <2>5. queue \in Seq(Calls)
    BY <1>5, GoodIsCall
  <2>6. /\ console \in {"empty", "loading", "success", "failed"}
        /\ tray \in {"unset", "ok", "degraded", "error"}
        /\ unseen \subseteq {"credentials", "configs"} /\ calm \in BOOLEAN
    BY DEF Init
  <2> QED BY <2>1, <2>2, <2>3, <2>4, <2>5, <2>6 DEF TypeOK
<1>10. Loads
  BY <1>2, <1>5, <1>8 DEF Init, Loads
<1>11. ConfigsFollow
  BY <1>6, <1>8 DEF Init, ConfigsFollow, ConfigsAgree
<1>12. ListFollows
  BY LoadingLists DEF Init, ListFollows, ListedIsStored
<1> QED BY <1>5, <1>9, <1>10, <1>11, <1>12 DEF HubInv, Types

\* What a flow sends keeps every promise that was given: an answer is taken out
\* of the queue only with what was to follow it.
LEMMA LoopKeeps ==
  ASSUME HubInv,
         NEW q \in Seq(GoodCalls), NEW flow \in Flows, NEW todo \in SUBSET Creds, NEW list,
         CheckNext(q, flow, todo, list),
         \A c \in Sent(queue) \ Sent(q) :
            /\ c.cmd \notin {"configs", "invoke"}
            /\ c.cmd = "list" => view'.status # "loading"
            /\ c.cmd = "check" => c.flow = flow,
         view'.status = "loading" => view.status = "loading",
         config' = config \/ flow \in ReloadConfigs,
         console' = console,
         "configs" \in unseen => "configs" \in unseen'
  PROVE  queue' \in Seq(GoodCalls) /\ shown' \in Lists(Providers, Config) /\ Loads' /\ ConfigsFollow'
<1>0. shown \in Lists(Providers, Config)
  BY DEF HubInv, Types, TypeOK
<1>1. /\ queue' \in Seq(GoodCalls) /\ Sent(q) \subseteq Sent(queue')
      /\ shown' \in Lists(Providers, Config)
      /\ shown' = shown \/ (shown' = Loading /\ \E c \in Sent(queue') : c.cmd = "configs")
      /\ flow \in ReloadConfigs =>
           \E c \in Sent(queue') : c.cmd \in {"check", "configs"} /\ c.flow \in ReloadConfigs
  BY <1>0, CheckNextSends
<1>2. Sent(queue)' = Sent(queue')
  BY DEF Sent
<1>3. Loads'
  <2>1. view'.status = "loading" => \E c \in Sent(queue') : c.cmd = "list"
    BY <1>1 DEF HubInv, Loads
  <2>2. shown'.status = "loading" => \E c \in Sent(queue') : c.cmd = "configs"
    BY <1>1 DEF HubInv, Loads
  <2>3. console' = "loading" => \E c \in Sent(queue') : c.cmd = "invoke"
    BY <1>1 DEF HubInv, Loads
  <2> QED BY <1>2, <2>1, <2>2, <2>3 DEF Loads
<1>4. ConfigsFollow'
  <2> SUFFICES ASSUME "configs" \notin unseen', ~WillReload'
               PROVE  ConfigsAgree'
    BY DEF ConfigsFollow
  <2>1. flow \notin ReloadConfigs
    BY <1>1, <1>2 DEF WillReload
  <2>2. ~WillReload
    BY <1>1, <1>2, <2>1 DEF WillReload
  <2>3. ConfigsAgree /\ config' = config
    BY <2>1, <2>2 DEF HubInv, ConfigsFollow
  <2>4. CASE shown' = shown
    BY <2>3, <2>4 DEF ConfigsAgree
  <2>5. CASE shown' = Loading
    BY <2>5, LoadingLists DEF ConfigsAgree
  <2> QED BY <1>1, <2>4, <2>5
<1> QED BY <1>1, <1>3, <1>4

\* A call sent and nothing else: whoever waits goes on waiting.
LEMMA SendKeeps ==
  ASSUME HubInv, NEW new \in GoodCalls, NEW q \in Seq(GoodCalls), queue' = Append(q, new),
         \A c \in Sent(queue) \ Sent(q) : c.cmd \notin {"configs", "invoke", "list", "check"},
         UNCHANGED <<config, shown>>,
         view'.status = "loading" => view.status = "loading" \/ new.cmd = "list",
         console' = "loading" => console = "loading" \/ new.cmd = "invoke",
         "configs" \in unseen => "configs" \in unseen'
  PROVE  queue' \in Seq(GoodCalls) /\ Loads' /\ ConfigsFollow'
<1>1. queue' \in Seq(GoodCalls) /\ Sent(queue)' = Sent(q) \cup {new}
  BY Sending DEF Sent
<1>2. Loads'
  BY <1>1 DEF HubInv, Loads
<1>3. ConfigsFollow'
  BY <1>1 DEF HubInv, ConfigsFollow, ConfigsAgree, WillReload
<1> QED BY <1>1, <1>2, <1>3

\* A call answered and nothing sent: whoever waited for it waits no longer.
LEMMA EndKeeps ==
  ASSUME HubInv, queue # <<>>, queue' = rest,
         view'.status = "loading" => view.status = "loading" /\ call.cmd # "list",
         shown'.status = "loading" => shown.status = "loading" /\ call.cmd # "configs",
         console' = "loading" => console = "loading" /\ call.cmd # "invoke",
         \/ "configs" \in unseen' \/ ConfigsAgree'
         \/ /\ call.cmd \notin {"check", "configs"}
            /\ UNCHANGED <<config, shown>>
            /\ "configs" \in unseen => "configs" \in unseen'
  PROVE  queue' \in Seq(GoodCalls) /\ Loads' /\ ConfigsFollow'
<1>1. queue \in Seq(GoodCalls)
  BY DEF HubInv, Types
<1>2. rest \in Seq(GoodCalls) /\ Sent(queue) = {call} \cup Sent(rest)
  BY <1>1, Served DEF call, rest
<1>3. Sent(queue)' = Sent(rest)
  BY DEF Sent
<1>4. Loads'
  BY <1>2, <1>3 DEF HubInv, Loads
<1>5. ConfigsFollow'
  BY <1>2, <1>3 DEF HubInv, ConfigsFollow, ConfigsAgree, WillReload
<1> QED BY <1>2, <1>4, <1>5

LEMMA ViewShape ==
  ASSUME HubInv
  PROVE  /\ view \in Lists(Creds, Health) /\ shown \in Lists(Providers, Config)
         /\ view.list \in Partial(Creds, Health) /\ DOMAIN view.list \in SUBSET Creds
         /\ shown.list \in [DOMAIN shown.list -> Config] /\ DOMAIN shown.list \subseteq Providers
         /\ form.p \in Providers /\ form.cred \in Creds \cup {NoCred}
         /\ queue \in Seq(GoodCalls) /\ queue \in Seq(Calls)
<1>1. view \in Lists(Creds, Health) /\ shown \in Lists(Providers, Config)
  BY DEF HubInv, Types, TypeOK
<1>2. view.list \in Partial(Creds, Health) /\ shown.list \in Partial(Providers, Config)
  BY <1>1, ListShape
<1>3. form \in [p: Providers, cred: Creds \cup {NoCred}]
  BY DEF HubInv, Types, TypeOK
<1>4. queue \in Seq(GoodCalls) /\ queue \in Seq(Calls)
  BY DEF HubInv, Types, TypeOK
<1> QED BY <1>1, <1>2, <1>3, <1>4, PartialIs

LEMMA Counts ==
  ASSUME TypeOK
  PROVE  /\ Start => started' \in 0..MaxFlows
         /\ Fault \/ NoFault => faults' \in 0..MaxFaults /\ calm' \in BOOLEAN
<1>1. started \in 0..MaxFlows /\ faults \in 0..MaxFaults /\ MaxFlows \in Nat /\ MaxFaults \in Nat
  BY HubAssumption DEF TypeOK
<1>2. Start => started' \in 0..MaxFlows
  BY <1>1 DEF Start
<1>3. Fault \/ NoFault => faults' \in 0..MaxFaults
  BY <1>1 DEF Fault, NoFault
<1>4. Fault \/ NoFault => calm' \in BOOLEAN
  BY DEF Fault, NoFault, TypeOK
<1> QED BY <1>2, <1>3, <1>4

-----------------------------------------------------------------------------
(* What a flow starts with *)

LEMMA StartRefreshKeeps ==
  ASSUME HubInv, NEW flow \in {"poll", "surface"}, StartRefresh(flow)
  PROVE  HubInv'
<1> DEFINE c == Call("list", flow, NoProvider, NoCred)
<1>1. "list" \in Commands /\ flow \in Flows
  BY DEF Commands, Flows
<1>2. c \in Calls /\ c.cmd = "list"
  BY <1>1, CallIsCall
<1>3. queue' = Append(queue, c) /\ view' = Loading
  BY DEF StartRefresh
<1> HIDE DEF c
<1>4. c \in GoodCalls
  BY <1>2 DEF GoodCalls
<1>5. queue' \in Seq(GoodCalls) /\ Loads' /\ ConfigsFollow'
  BY <1>2, <1>3, <1>4, ViewShape, SendKeeps DEF StartRefresh, backend
<1>6. TypeOK'
  <2>1. queue' \in Seq(Calls) /\ view' \in Lists(Creds, Health)
    BY <1>3, <1>5, GoodIsCall, LoadingLists
  <2> QED BY <2>1, HubAssumption DEF HubInv, Types, TypeOK, StartRefresh, Start, backend
<1>7. ListFollows'
  BY <1>3, LoadingLists DEF ListFollows, ListedIsStored
<1> QED BY <1>5, <1>6, <1>7 DEF HubInv, Types

LEMMA StartChecksKeeps ==
  ASSUME HubInv, NEW flow \in {"health", "configs"}, StartChecks(flow)
  PROVE  HubInv'
<1> DEFINE todo == IF flow = "health" THEN DOMAIN view.list ELSE {}
<1>1. flow \in Flows /\ todo \in SUBSET Creds /\ queue \in Seq(GoodCalls)
  BY ViewShape DEF Flows
<1>2. CheckNext(queue, flow, todo, view.list) /\ UNCHANGED <<config, view, console, unseen>>
  BY DEF StartChecks, backend
<1> HIDE DEF todo
<1>3. queue' \in Seq(GoodCalls) /\ shown' \in Lists(Providers, Config) /\ Loads' /\ ConfigsFollow'
  BY <1>1, <1>2, LoopKeeps
<1>4. TypeOK'
  <2>1. queue' \in Seq(Calls)
    BY <1>3, GoodIsCall
  <2>2. started' \in 0..MaxFlows
    BY Counts DEF StartChecks, HubInv, Types
  <2> QED BY <1>3, <2>1, <2>2 DEF HubInv, Types, TypeOK, StartChecks, backend
<1>5. ListFollows'
  BY DEF HubInv, ListFollows, ListedIsStored, StartChecks, backend
<1> QED BY <1>3, <1>4, <1>5 DEF HubInv, Types

LEMMA StartCallKeeps ==
  ASSUME HubInv, NEW new \in GoodCalls, StartCall(new),
         console' = console \/ (console' = "loading" /\ new.cmd = "invoke")
  PROVE  HubInv'
<1>1. queue \in Seq(GoodCalls) /\ queue' = Append(queue, new)
  BY ViewShape DEF StartCall
<1>2. queue' \in Seq(GoodCalls) /\ Loads' /\ ConfigsFollow'
  BY <1>1, SendKeeps DEF StartCall, backend
<1>3. TypeOK'
  <2>1. queue' \in Seq(Calls)
    BY <1>2, GoodIsCall
  <2>2. started' \in 0..MaxFlows
    BY Counts DEF StartCall, HubInv, Types
  <2>3. console' \in {"empty", "loading", "success", "failed"}
    BY DEF HubInv, Types, TypeOK
  <2> QED BY <2>1, <2>2, <2>3 DEF HubInv, Types, TypeOK, StartCall, backend
<1>4. ListFollows'
  BY DEF HubInv, ListFollows, ListedIsStored, StartCall, backend
<1> QED BY <1>2, <1>3, <1>4 DEF HubInv, Types

\* The calls the buttons send are sent with what their handlers take.
LEMMA ButtonsSend ==
  ASSUME HubInv
  PROVE  /\ \A flow \in {"provider", "credential", "repo"} : Call("url", flow, NoProvider, NoCred) \in GoodCalls
         /\ SendSave("provider") \in GoodCalls /\ SendSave("provider").cmd = "configure"
         /\ \A flow \in Flows : SendAdd(flow) \in GoodCalls /\ SendAdd(flow).cmd = "add"
         /\ \A p \in Providers : /\ Call("invoke", "preview", p, NoCred) \in GoodCalls
                                 /\ Call("invoke", "preview", p, NoCred).cmd = "invoke"
                                 /\ Call("configure", "remove", p, NoCred) \in GoodCalls
                                 /\ Call("configure", "remove", p, NoCred).cmd = "configure"
                                 /\ \A id \in Creds : Call("delete", "remove", p, id) \in GoodCalls
         /\ \A id \in Creds : Call("delete", "forget", NoProvider, id) \in GoodCalls
<1>1. form.p \in Providers /\ form.cred \in Creds \cup {NoCred}
  BY ViewShape
<1>2. ASSUME NEW flow \in {"provider", "credential", "repo"}
      PROVE  Call("url", flow, NoProvider, NoCred) \in GoodCalls
  BY <1>2 DEF Call, Calls, GoodCalls, Commands, Flows
<1>3. SendSave("provider") \in GoodCalls /\ SendSave("provider").cmd = "configure"
  BY <1>1 DEF SendSave, Call, Calls, GoodCalls, Commands, Flows
<1>4. ASSUME NEW flow \in Flows
      PROVE  SendAdd(flow) \in GoodCalls /\ SendAdd(flow).cmd = "add"
  BY <1>1 DEF SendAdd, Call, Calls, GoodCalls, Commands, Flows
<1>5. ASSUME NEW p \in Providers
      PROVE  /\ Call("invoke", "preview", p, NoCred) \in GoodCalls
             /\ Call("invoke", "preview", p, NoCred).cmd = "invoke"
             /\ Call("configure", "remove", p, NoCred) \in GoodCalls
             /\ Call("configure", "remove", p, NoCred).cmd = "configure"
             /\ \A id \in Creds : Call("delete", "remove", p, id) \in GoodCalls
  BY DEF Call, Calls, GoodCalls, Commands, Flows
<1>6. ASSUME NEW id \in Creds
      PROVE  Call("delete", "forget", NoProvider, id) \in GoodCalls
  BY DEF Call, Calls, GoodCalls, Commands, Flows
<1> QED BY <1>2, <1>3, <1>4, <1>5, <1>6

LEMMA ButtonsKeep ==
  ASSUME HubInv,
         \/ SaveProvider \/ SaveCredential \/ SaveRepo
         \/ \E p \in Providers : RemoveProvider(p) \/ Preview(p)
         \/ \E id \in Creds : ForgetRepo(id)
  PROVE  HubInv'
<1>1. CASE SaveProvider
  <2>1. StartCall(Call("url", "provider", NoProvider, NoCred)) \/ StartCall(SendSave("provider"))
    BY <1>1 DEF SaveProvider
  <2>2. console' = console
    BY <1>1 DEF SaveProvider
  <2> QED BY <2>1, <2>2, ButtonsSend, StartCallKeeps
<1>2. CASE SaveCredential
  <2>1. StartCall(Call("url", "credential", NoProvider, NoCred)) \/ StartCall(SendAdd("credential"))
    BY <1>2 DEF SaveCredential
  <2>2. console' = console /\ "credential" \in Flows
    BY <1>2 DEF SaveCredential, Flows
  <2> QED BY <2>1, <2>2, ButtonsSend, StartCallKeeps
<1>3. CASE SaveRepo
  <2>1. StartCall(Call("url", "repo", NoProvider, NoCred)) /\ console' = console
    BY <1>3 DEF SaveRepo
  <2> QED BY <2>1, ButtonsSend, StartCallKeeps
<1>4. ASSUME NEW p \in Providers, RemoveProvider(p)
      PROVE  HubInv'
  <2>1. shown.list[p] \in Config /\ console' = console
    BY <1>4, ViewShape DEF RemoveProvider
  <2>2. CASE shown.list[p].cred # NoCred
    <3>1. shown.list[p].cred \in Creds
      BY <2>1, <2>2 DEF Config
    <3>2. StartCall(Call("delete", "remove", p, shown.list[p].cred))
      BY <1>4, <2>2 DEF RemoveProvider
    <3> QED BY <2>1, <3>1, <3>2, ButtonsSend, StartCallKeeps
  <2>3. CASE shown.list[p].cred = NoCred
    <3>1. StartCall(Call("configure", "remove", p, NoCred))
      BY <1>4, <2>3 DEF RemoveProvider
    <3> QED BY <2>1, <3>1, ButtonsSend, StartCallKeeps
  <2> QED BY <2>2, <2>3
<1>5. ASSUME NEW p \in Providers, Preview(p)
      PROVE  HubInv'
  <2>1. StartCall(Call("invoke", "preview", p, NoCred)) /\ console' = "loading"
    BY <1>5 DEF Preview
  <2> QED BY <2>1, ButtonsSend, StartCallKeeps
<1>6. ASSUME NEW id \in Creds, ForgetRepo(id)
      PROVE  HubInv'
  <2>1. StartCall(Call("delete", "forget", NoProvider, id)) /\ console' = console
    BY <1>6 DEF ForgetRepo
  <2> QED BY <2>1, ButtonsSend, StartCallKeeps
<1> QED BY <1>1, <1>2, <1>3, <1>4, <1>5, <1>6

LEMMA OutsideKeeps ==
  ASSUME HubInv, EditForm \/ \E id \in Creds : LoseSecret(id)
  PROVE  HubInv'
<1>1. CASE EditForm
  <2>1. UNCHANGED <<backend, view, shown, console, tray, queue, started, faults, unseen, calm>>
    BY <1>1 DEF EditForm
  <2>2. form' \in [p: Providers, cred: Creds \cup {NoCred}]
    <3>1. {NoCred, form.cred} \cup LlmIds \subseteq Creds \cup {NoCred}
      BY ViewShape DEF LlmIds
    <3> QED BY <1>1, <3>1 DEF EditForm
  <2>3. Types'
    BY <2>1, <2>2 DEF HubInv, Types, TypeOK, backend
  <2> QED BY <2>1, <2>3 DEF HubInv, Loads, Sent, ConfigsFollow, ConfigsAgree, WillReload, ListFollows,
                            ListedIsStored, backend
<1>2. ASSUME NEW id \in Creds, LoseSecret(id)
      PROVE  HubInv'
  <2>1. faults' \in 0..MaxFaults /\ calm' \in BOOLEAN
    BY <1>2, Counts DEF LoseSecret, HubInv, Types
  <2>2. Types'
    BY <1>2, <2>1 DEF LoseSecret, HubInv, Types, TypeOK
  <2> QED BY <1>2, <2>2 DEF LoseSecret, HubInv, Loads, Sent, ConfigsFollow, ConfigsAgree, WillReload,
                            ListFollows, ListedIsStored
<1> QED BY <1>1, <1>2

-----------------------------------------------------------------------------
(* What an answer is followed by *)

LEMMA CallIsGood ==
  ASSUME HubInv, queue # <<>>
  PROVE  /\ call \in GoodCalls /\ rest \in Seq(GoodCalls)
         /\ Sent(queue) = {call} \cup Sent(rest) /\ Sent(queue) \ Sent(rest) \subseteq {call}
         /\ call.flow \in Flows /\ call.todo \in SUBSET Creds /\ call.p \in Providers \cup {NoProvider, Repo}
         /\ call.cmd \in Commands
<1>1. queue \in Seq(GoodCalls)
  BY ViewShape
<1>2. /\ call \in GoodCalls /\ rest \in Seq(GoodCalls) /\ Sent(queue) = {call} \cup Sent(rest)
  BY <1>1, Served DEF call, rest
<1>3. call \in [cmd: Commands, flow: Flows, p: Providers \cup {NoProvider, Repo},
                arg: Creds \cup {NoCred, "ok", "degraded", "error"}, todo: SUBSET Creds]
  BY <1>2 DEF GoodCalls, Calls
<1> QED BY <1>2, <1>3

LEMMA UrlKeeps ==
  ASSUME HubInv, AnswerUrl
  PROVE  HubInv'
<1>1. queue # <<>> /\ call.cmd = "url" /\ UNCHANGED <<backend, view, shown, form, console, tray, started, faults, unseen, calm>>
  BY DEF AnswerUrl, Serving
<1>2. queue' \in Seq(GoodCalls) /\ Loads' /\ ConfigsFollow'
  <2>1. CASE queue' = rest
    BY <1>1, <2>1, EndKeeps DEF backend
  <2>2. CASE queue' = Append(rest, SendSave("provider"))
    <3>1. SendSave("provider") \in GoodCalls /\ rest \in Seq(GoodCalls)
          /\ \A c \in Sent(queue) \ Sent(rest) : c.cmd = "url"
      BY <1>1, ButtonsSend, CallIsGood
    <3> QED BY <1>1, <2>2, <3>1, SendKeeps DEF backend
  <2>3. CASE queue' = Append(rest, SendAdd(call.flow))
    <3>1. SendAdd(call.flow) \in GoodCalls /\ rest \in Seq(GoodCalls)
          /\ \A c \in Sent(queue) \ Sent(rest) : c.cmd = "url"
      BY <1>1, ButtonsSend, CallIsGood
    <3> QED BY <1>1, <2>3, <3>1, SendKeeps DEF backend
  <2>4. \/ queue' = rest \/ queue' = Append(rest, SendSave("provider"))
        \/ queue' = Append(rest, SendAdd(call.flow))
    BY DEF AnswerUrl
  <2> QED BY <2>1, <2>2, <2>3, <2>4
<1>3. TypeOK'
  BY <1>1, <1>2, GoodIsCall DEF HubInv, Types, TypeOK, backend
<1>4. ListFollows'
  BY <1>1 DEF HubInv, ListFollows, ListedIsStored, backend
<1> QED BY <1>2, <1>3, <1>4 DEF HubInv, Types

LEMMA RefusedKeeps ==
  ASSUME HubInv, AnswerRefused
  PROVE  HubInv'
<1>1. /\ queue # <<>> /\ call.cmd \in {"add", "delete", "configure"} /\ queue' = rest
      /\ UNCHANGED <<backend, view, shown, form, console, tray, started, unseen>>
      /\ Fault \/ NoFault
  BY DEF AnswerRefused
<1>2. queue' \in Seq(GoodCalls) /\ Loads' /\ ConfigsFollow'
  BY <1>1, EndKeeps DEF backend
<1>3. TypeOK'
  <2>1. faults' \in 0..MaxFaults /\ calm' \in BOOLEAN /\ queue' \in Seq(Calls)
    BY <1>1, <1>2, Counts, GoodIsCall DEF HubInv, Types
  <2> QED BY <1>1, <2>1 DEF HubInv, Types, TypeOK, backend
<1>4. ListFollows'
  BY <1>1 DEF HubInv, ListFollows, ListedIsStored, backend
<1> QED BY <1>2, <1>3, <1>4 DEF HubInv, Types

\* What the backend does, and what its stores then hold.
LEMMA BackendIsTyped ==
  ASSUME HubInv, queue # <<>>
  PROVE  /\ \A id \in Creds : call.cmd = "add" /\ DoAdd(id) =>
              /\ owner' \in [Creds -> Providers \cup {NoProvider, Repo}] /\ secrets' \subseteq stored'
              /\ stored' \subseteq {x \in Creds : owner'[x] # NoProvider}
              /\ config' \in Partial(Providers, Config) /\ config' = config
              /\ stored' = stored \cup {id}
         /\ DoDelete =>
              /\ owner' \in [Creds -> Providers \cup {NoProvider, Repo}] /\ secrets' \subseteq stored'
              /\ stored' \subseteq {x \in Creds : owner'[x] # NoProvider}
              /\ config' \in Partial(Providers, Config) /\ config' = config
              /\ call.arg \in Creds /\ stored' = stored \ {call.arg}
         /\ call.cmd = "configure" /\ DoConfigure =>
              /\ owner' \in [Creds -> Providers \cup {NoProvider, Repo}] /\ secrets' \subseteq stored'
              /\ stored' \subseteq {x \in Creds : owner'[x] # NoProvider}
              /\ config' \in Partial(Providers, Config) /\ call.flow \in {"provider", "remove"}
              /\ stored' = stored
<1>1. /\ owner \in [Creds -> Providers \cup {NoProvider, Repo}] /\ secrets \subseteq stored
      /\ stored \subseteq {x \in Creds : owner[x] # NoProvider} /\ config \in Partial(Providers, Config)
  BY DEF HubInv, Types, TypeOK
<1>2. call \in GoodCalls
  BY CallIsGood
<1>3. ASSUME NEW id \in Creds, call.cmd = "add", DoAdd(id)
      PROVE  /\ owner' \in [Creds -> Providers \cup {NoProvider, Repo}] /\ secrets' \subseteq stored'
             /\ stored' \subseteq {x \in Creds : owner'[x] # NoProvider}
             /\ config' \in Partial(Providers, Config) /\ config' = config
             /\ stored' = stored \cup {id}
  <2>1. call.p \in Providers \cup {NoProvider, Repo} /\ call.p # NoProvider
    BY <1>2, <1>3, HubAssumption DEF GoodCalls
  <2>2. /\ owner' = [owner EXCEPT ![id] = call.p] /\ stored' = stored \cup {id}
        /\ secrets' = secrets \cup {id} /\ config' = config
    BY <1>3 DEF DoAdd
  <2> QED BY <1>1, <2>1, <2>2
<1>4. ASSUME DoDelete
      PROVE  /\ owner' \in [Creds -> Providers \cup {NoProvider, Repo}] /\ secrets' \subseteq stored'
             /\ stored' \subseteq {x \in Creds : owner'[x] # NoProvider}
             /\ config' \in Partial(Providers, Config) /\ config' = config
             /\ call.arg \in Creds /\ stored' = stored \ {call.arg}
  <2>1. /\ call.arg \in stored /\ stored' = stored \ {call.arg} /\ secrets' = secrets \ {call.arg}
        /\ owner' = owner /\ config' = config
    BY <1>4 DEF DoDelete
  <2> QED BY <1>1, <2>1
<1>5. ASSUME call.cmd = "configure", DoConfigure
      PROVE  /\ owner' \in [Creds -> Providers \cup {NoProvider, Repo}] /\ secrets' \subseteq stored'
             /\ stored' \subseteq {x \in Creds : owner'[x] # NoProvider}
             /\ config' \in Partial(Providers, Config) /\ call.flow \in {"provider", "remove"}
             /\ stored' = stored
  <2>1. /\ call.p \in Providers /\ call.arg \in Creds \cup {NoCred} /\ call.flow \in {"provider", "remove"}
    BY <1>2, <1>5 DEF GoodCalls
  <2> DEFINE v == [on |-> call.flow = "provider", cred |-> call.arg]
  <2>2. v \in Config
    BY <2>1 DEF Config
  <2>3. /\ config' = Put(config, call.p, v) /\ owner' = owner /\ stored' = stored /\ secrets' = secrets
    BY <1>5 DEF DoConfigure
  <2> HIDE DEF v
  <2>4. config' \in Partial(Providers, Config)
    BY <1>1, <2>1, <2>2, <2>3, PutIs
  <2> QED BY <1>1, <2>1, <2>3, <2>4
<1> QED BY <1>3, <1>4, <1>5

LEMMA UnauditedKeeps ==
  ASSUME HubInv,
         \/ AnswerUnaudited("credentials", "add") /\ \E id \in Creds : DoAdd(id)
         \/ AnswerUnaudited("credentials", "delete") /\ DoDelete
         \/ AnswerUnaudited("configs", "configure") /\ DoConfigure
  PROVE  HubInv'
<1>1. /\ queue # <<>> /\ call.cmd \in {"add", "delete", "configure"} /\ queue' = rest
      /\ UNCHANGED <<view, shown, form, console, tray, started>>
      /\ Fault /\ unseen \subseteq unseen' /\ unseen' \subseteq unseen \cup {"credentials", "configs"}
  BY DEF AnswerUnaudited, Serving
<1>2. /\ owner' \in [Creds -> Providers \cup {NoProvider, Repo}] /\ secrets' \subseteq stored'
      /\ stored' \subseteq {x \in Creds : owner'[x] # NoProvider}
      /\ config' \in Partial(Providers, Config)
      /\ config' = config \/ "configs" \in unseen'
      /\ stored \subseteq stored' \/ "credentials" \in unseen'
  <2>1. CASE AnswerUnaudited("credentials", "add") /\ \E id \in Creds : DoAdd(id)
    <3>1. call.cmd = "add" /\ unseen' = unseen \cup {"credentials"}
      BY <2>1 DEF AnswerUnaudited, Serving
    <3> QED BY <1>1, <2>1, <3>1, BackendIsTyped
  <2>2. CASE AnswerUnaudited("credentials", "delete") /\ DoDelete
    <3>1. unseen' = unseen \cup {"credentials"}
      BY <2>2 DEF AnswerUnaudited, Serving
    <3> QED BY <1>1, <2>2, <3>1, BackendIsTyped
  <2>3. CASE AnswerUnaudited("configs", "configure") /\ DoConfigure
    <3>1. call.cmd = "configure" /\ unseen' = unseen \cup {"configs"}
      BY <2>3 DEF AnswerUnaudited, Serving
    <3> QED BY <1>1, <2>3, <3>1, BackendIsTyped
  <2> QED BY <2>1, <2>2, <2>3
<1>3. queue' \in Seq(GoodCalls) /\ Loads' /\ ConfigsFollow'
  BY <1>1, <1>2, EndKeeps
<1>4. TypeOK'
  <2>1. faults' \in 0..MaxFaults /\ calm' \in BOOLEAN /\ queue' \in Seq(Calls)
    BY <1>1, <1>3, Counts, GoodIsCall DEF HubInv, Types
  <2>2. unseen' \subseteq {"credentials", "configs"}
    BY <1>1 DEF HubInv, Types, TypeOK
  <2> QED BY <1>1, <1>2, <2>1, <2>2 DEF HubInv, Types, TypeOK
<1>5. ListFollows'
  BY <1>1, <1>2 DEF HubInv, ListFollows, ListedIsStored
<1> QED BY <1>3, <1>4, <1>5 DEF HubInv, Types

LEMMA AddKeeps ==
  ASSUME HubInv, NEW id \in Creds, AnswerAdd(id)
  PROVE  HubInv'
<1> DEFINE put == Put(view.list, id, "unchecked")
           c == Call("list", "repo", NoProvider, NoCred)
<1>1. /\ queue # <<>> /\ call.cmd = "add" /\ DoAdd(id) /\ NoFault
      /\ UNCHANGED <<console, tray, started, unseen>>
      /\ \/ /\ view' = Loading /\ queue' = Append(rest, c) /\ UNCHANGED <<shown, form>>
         \/ /\ view' = Listed(put) /\ form' = [form EXCEPT !.cred = id]
            /\ CheckNext(rest, call.flow, DOMAIN Listed(put).list, Listed(put).list)
  BY DEF AnswerAdd, Serving
<1>2. /\ owner' \in [Creds -> Providers \cup {NoProvider, Repo}] /\ secrets' \subseteq stored'
      /\ stored' \subseteq {x \in Creds : owner'[x] # NoProvider}
      /\ config' \in Partial(Providers, Config) /\ config' = config /\ stored' = stored \cup {id}
  BY <1>1, BackendIsTyped
<1>3. put \in Partial(Creds, Health) /\ DOMAIN put = DOMAIN view.list \cup {id}
  <2> DEFINE f == view.list
             v == "unchecked"
  <2>1. f \in Partial(Creds, Health) /\ DOMAIN f = DOMAIN view.list
    BY ViewShape
  <2>2. v \in Health
    BY DEF Health
  <2> HIDE DEF f, v
  <2>3. Put(f, id, v) \in Partial(Creds, Health) /\ DOMAIN Put(f, id, v) = DOMAIN f \cup {id}
    BY <2>1, <2>2, PutIs
  <2> QED BY <2>1, <2>3 DEF f, v
<1> HIDE DEF put
<1>4. Listed(put) \in Lists(Creds, Health) /\ Listed(put).list = put /\ Listed(put).status # "loading"
  BY <1>3, ListedIsList
<1>5. DOMAIN view'.list \subseteq DOMAIN view.list \cup {id}
  BY <1>1, <1>3, <1>4, LoadingLists
<1>6. c \in GoodCalls /\ c.cmd = "list"
  BY DEF Call, Calls, GoodCalls, Commands, Flows
<1> HIDE DEF c
<1>7. queue' \in Seq(GoodCalls) /\ shown' \in Lists(Providers, Config) /\ Loads' /\ ConfigsFollow'
  <2>1. /\ rest \in Seq(GoodCalls) /\ call.flow \in Flows
        /\ \A x \in Sent(queue) \ Sent(rest) : x.cmd = "add"
    BY <1>1, CallIsGood
  <2>2. CASE view' = Loading /\ queue' = Append(rest, c) /\ UNCHANGED <<shown, form>>
    <3>1. queue' \in Seq(GoodCalls) /\ Loads' /\ ConfigsFollow'
      BY <1>1, <1>2, <1>6, <2>1, <2>2, SendKeeps
    <3> QED BY <2>2, <3>1, ViewShape
  <2>3. CASE /\ view' = Listed(put)
             /\ CheckNext(rest, call.flow, DOMAIN Listed(put).list, Listed(put).list)
    <3>1. DOMAIN Listed(put).list \in SUBSET Creds
      BY <1>3, <1>4, PartialIs
    <3> QED BY <1>1, <1>2, <1>4, <2>1, <2>3, <3>1, LoopKeeps
  <2> QED BY <1>1, <2>2, <2>3
<1>8. TypeOK'
  <2>1. faults' \in 0..MaxFaults /\ calm' \in BOOLEAN /\ queue' \in Seq(Calls)
    BY <1>1, <1>7, Counts, GoodIsCall DEF HubInv, Types
  <2>2. view' \in Lists(Creds, Health)
    BY <1>1, <1>4, LoadingLists
  <2>3. form' \in [p: Providers, cred: Creds \cup {NoCred}]
    BY <1>1 DEF HubInv, Types, TypeOK
  <2> QED BY <1>1, <1>2, <1>7, <2>1, <2>2, <2>3 DEF HubInv, Types, TypeOK
<1>9. ListFollows'
  BY <1>1, <1>2, <1>5 DEF HubInv, ListFollows, ListedIsStored
<1> QED BY <1>7, <1>8, <1>9 DEF HubInv, Types

LEMMA DeleteKeeps ==
  ASSUME HubInv, AnswerDelete
  PROVE  HubInv'
<1> DEFINE c == Call("configure", "remove", call.p, NoCred)
<1>1. /\ queue # <<>> /\ call.cmd = "delete" /\ DoDelete /\ NoFault
      /\ view' = Unlist(call.arg)
      /\ UNCHANGED <<shown, form, console, tray, started, unseen>>
      /\ queue' = rest \o IF call.flow = "remove" THEN <<c>> ELSE <<>>
  BY DEF AnswerDelete, Serving
<1>2. /\ owner' \in [Creds -> Providers \cup {NoProvider, Repo}] /\ secrets' \subseteq stored'
      /\ stored' \subseteq {x \in Creds : owner'[x] # NoProvider}
      /\ config' \in Partial(Providers, Config) /\ config' = config
      /\ call.arg \in Creds /\ stored' = stored \ {call.arg}
  BY <1>1, BackendIsTyped
<1>3. /\ view' \in Lists(Creds, Health) /\ DOMAIN view'.list = DOMAIN view.list \ {call.arg}
      /\ view'.status = "loading" => view.status = "loading"
  BY <1>1, <1>2, ViewShape, UnlistIsList
<1>4. /\ rest \in Seq(GoodCalls) /\ call \in GoodCalls
      /\ \A x \in Sent(queue) \ Sent(rest) : x.cmd = "delete"
  BY <1>1, CallIsGood
<1>5. queue' \in Seq(GoodCalls) /\ Loads' /\ ConfigsFollow'
  <2>1. CASE call.flow = "remove"
    <3>1. c \in GoodCalls
      <4>1. call.p \in Providers
        BY <1>1, <1>4, <2>1 DEF GoodCalls
      <4> QED BY <4>1, ButtonsSend
    <3> HIDE DEF c
    <3>2. queue' = Append(rest, c)
      BY <1>1, <1>4, <2>1, <3>1, Sending
    <3> QED BY <1>1, <1>2, <1>3, <1>4, <3>1, <3>2, SendKeeps
  <2>2. CASE call.flow # "remove"
    <3> HIDE DEF c
    <3>1. queue' = rest
      BY <1>1, <1>4, <2>2
    <3> QED BY <1>1, <1>2, <1>3, <3>1, EndKeeps
  <2> QED BY <2>1, <2>2
<1> HIDE DEF c
<1>6. TypeOK'
  <2>1. faults' \in 0..MaxFaults /\ calm' \in BOOLEAN /\ queue' \in Seq(Calls)
    BY <1>1, <1>5, Counts, GoodIsCall DEF HubInv, Types
  <2> QED BY <1>1, <1>2, <1>3, <2>1 DEF HubInv, Types, TypeOK
<1>7. ListFollows'
  BY <1>1, <1>2, <1>3 DEF HubInv, ListFollows, ListedIsStored
<1> QED BY <1>5, <1>6, <1>7 DEF HubInv, Types

LEMMA ConfigureKeeps ==
  ASSUME HubInv, AnswerConfigure
  PROVE  HubInv'
<1>1. /\ queue # <<>> /\ call.cmd = "configure" /\ DoConfigure /\ NoFault
      /\ form' = IF call.flow = "provider" THEN [form EXCEPT !.cred = NoCred] ELSE form
      /\ CheckNext(rest, call.flow, DOMAIN view.list, view.list)
      /\ UNCHANGED <<view, console, tray, started, unseen>>
  BY DEF AnswerConfigure, Serving
<1>2. /\ owner' \in [Creds -> Providers \cup {NoProvider, Repo}] /\ secrets' \subseteq stored'
      /\ stored' \subseteq {x \in Creds : owner'[x] # NoProvider}
      /\ config' \in Partial(Providers, Config) /\ call.flow \in {"provider", "remove"} /\ stored' = stored
  BY <1>1, BackendIsTyped
<1>3. queue' \in Seq(GoodCalls) /\ shown' \in Lists(Providers, Config) /\ Loads' /\ ConfigsFollow'
  <2>1. /\ rest \in Seq(GoodCalls) /\ call.flow \in Flows /\ DOMAIN view.list \in SUBSET Creds
        /\ \A x \in Sent(queue) \ Sent(rest) : x.cmd = "configure"
    BY <1>1, CallIsGood, ViewShape
  <2>2. call.flow \in ReloadConfigs
    BY <1>2 DEF ReloadConfigs
  <2> QED BY <1>1, <2>1, <2>2, LoopKeeps
<1>4. TypeOK'
  <2>1. faults' \in 0..MaxFaults /\ calm' \in BOOLEAN /\ queue' \in Seq(Calls)
    BY <1>1, <1>3, Counts, GoodIsCall DEF HubInv, Types
  <2>2. form' \in [p: Providers, cred: Creds \cup {NoCred}]
    BY <1>1 DEF HubInv, Types, TypeOK
  <2> QED BY <1>1, <1>2, <1>3, <2>1, <2>2 DEF HubInv, Types, TypeOK
<1>5. ListFollows'
  BY <1>1, <1>2 DEF HubInv, ListFollows, ListedIsStored
<1> QED BY <1>3, <1>4, <1>5 DEF HubInv, Types

LEMMA CheckKeeps ==
  ASSUME HubInv, AnswerCheck
  PROVE  HubInv'
<1>1. /\ queue # <<>> /\ call.cmd = "check" /\ (Fault \/ NoFault)
      /\ view' = view \/ \E health \in Health : view' = Mark(call.arg, health)
      /\ CheckNext(rest, call.flow, call.todo, view'.list)
      /\ UNCHANGED <<backend, form, console, tray, started, unseen>>
  BY DEF AnswerCheck, Serving, Health
<1>2. /\ view' \in Lists(Creds, Health) /\ view'.status = view.status
      /\ DOMAIN view'.list = DOMAIN view.list
  BY <1>1, ViewShape, MarkIsList
<1>3. queue' \in Seq(GoodCalls) /\ shown' \in Lists(Providers, Config) /\ Loads' /\ ConfigsFollow'
  <2>1. /\ rest \in Seq(GoodCalls) /\ call.flow \in Flows /\ call.todo \in SUBSET Creds
        /\ \A x \in Sent(queue) \ Sent(rest) : x.cmd = "check" /\ x.flow = call.flow
    BY <1>1, CallIsGood
  <2> QED BY <1>1, <1>2, <2>1, LoopKeeps DEF backend
<1>4. TypeOK'
  <2>1. faults' \in 0..MaxFaults /\ calm' \in BOOLEAN /\ queue' \in Seq(Calls)
    BY <1>1, <1>3, Counts, GoodIsCall DEF HubInv, Types
  <2> QED BY <1>1, <1>2, <1>3, <2>1 DEF HubInv, Types, TypeOK, backend
<1>5. ListFollows'
  BY <1>1, <1>2 DEF HubInv, ListFollows, ListedIsStored, backend
<1> QED BY <1>3, <1>4, <1>5 DEF HubInv, Types

LEMMA StoredIsListed ==
  ASSUME HubInv
  PROVE  /\ ListCredentials \in Lists(Creds, Health) /\ ListCredentials.status # "loading"
         /\ DOMAIN ListCredentials.list = stored
<1> DEFINE f == [id \in stored |-> "unchecked"]
<1>1. f \in Partial(Creds, Health) /\ DOMAIN f = stored
  BY PartialIs DEF HubInv, Types, TypeOK, Health
<1>2. ListCredentials = Listed(f)
  BY DEF ListCredentials
<1> HIDE DEF f
<1> QED BY <1>1, <1>2, ListedIsList

LEMMA ListKeeps ==
  ASSUME HubInv, AnswerList
  PROVE  HubInv'
<1>1. /\ queue # <<>> /\ call.cmd = "list" /\ (Fault \/ NoFault)
      /\ \/ view' = ListCredentials /\ unseen' = unseen \ {"credentials"}
         \/ view' = Failed /\ unseen' = unseen
      /\ \/ queue' = rest /\ UNCHANGED shown
         \/ CheckNext(rest, call.flow, DOMAIN view'.list, view'.list)
      /\ UNCHANGED <<backend, form, console, tray, started>>
  BY DEF AnswerList, Serving
<1>2. /\ view' \in Lists(Creds, Health) /\ view'.status # "loading" /\ DOMAIN view'.list \subseteq stored
  BY <1>1, StoredIsListed, LoadingLists
<1>3. queue' \in Seq(GoodCalls) /\ shown' \in Lists(Providers, Config) /\ Loads' /\ ConfigsFollow'
  <2>1. CASE queue' = rest /\ UNCHANGED shown
    <3>1. queue' \in Seq(GoodCalls) /\ Loads' /\ ConfigsFollow'
      BY <1>1, <1>2, <2>1, EndKeeps DEF backend
    <3> QED BY <2>1, <3>1, ViewShape
  <2>2. CASE CheckNext(rest, call.flow, DOMAIN view'.list, view'.list)
    <3>1. /\ rest \in Seq(GoodCalls) /\ call.flow \in Flows
          /\ \A x \in Sent(queue) \ Sent(rest) : x.cmd = "list"
      BY <1>1, CallIsGood
    <3>2. DOMAIN view'.list \in SUBSET Creds
      BY <1>2 DEF HubInv, Types, TypeOK
    <3> QED BY <1>1, <1>2, <2>2, <3>1, <3>2, LoopKeeps DEF backend
  <2> QED BY <1>1, <2>1, <2>2
<1>4. TypeOK'
  <2>1. faults' \in 0..MaxFaults /\ calm' \in BOOLEAN /\ queue' \in Seq(Calls)
    BY <1>1, <1>3, Counts, GoodIsCall DEF HubInv, Types
  <2>2. unseen' \subseteq {"credentials", "configs"}
    BY <1>1 DEF HubInv, Types, TypeOK
  <2> QED BY <1>1, <1>2, <1>3, <2>1, <2>2 DEF HubInv, Types, TypeOK, backend
<1>5. ListFollows'
  BY <1>1, <1>2 DEF ListFollows, ListedIsStored, backend
<1> QED BY <1>3, <1>4, <1>5 DEF HubInv, Types

LEMMA ConfigsKeeps ==
  ASSUME HubInv, AnswerConfigs
  PROVE  HubInv'
<1>1. /\ queue # <<>> /\ call.cmd = "configs" /\ (Fault \/ NoFault) /\ queue' = rest
      /\ \/ shown' = Listed(config) /\ unseen' = unseen \ {"configs"}
         \/ shown' = Failed /\ unseen' = unseen
      /\ UNCHANGED <<backend, view, form, console, tray, started>>
  BY DEF AnswerConfigs, Serving, ListProviderConfigs
<1>2. config \in Partial(Providers, Config)
  BY DEF HubInv, Types, TypeOK
<1>3. /\ shown' \in Lists(Providers, Config) /\ shown'.status # "loading"
      /\ shown'.list = config \/ DOMAIN shown'.list = {}
  BY <1>1, <1>2, ListedIsList, LoadingLists
<1>4. queue' \in Seq(GoodCalls) /\ Loads' /\ ConfigsFollow'
  <2>1. ConfigsAgree'
    BY <1>1, <1>3 DEF ConfigsAgree, backend
  <2> QED BY <1>1, <1>3, <2>1, EndKeeps
<1>5. TypeOK'
  <2>1. faults' \in 0..MaxFaults /\ calm' \in BOOLEAN /\ queue' \in Seq(Calls)
    BY <1>1, <1>4, Counts, GoodIsCall DEF HubInv, Types
  <2>2. unseen' \subseteq {"credentials", "configs"}
    BY <1>1 DEF HubInv, Types, TypeOK
  <2> QED BY <1>1, <1>3, <2>1, <2>2 DEF HubInv, Types, TypeOK, backend
<1>6. ListFollows'
  BY <1>1 DEF HubInv, ListFollows, ListedIsStored, backend
<1> QED BY <1>4, <1>5, <1>6 DEF HubInv, Types

LEMMA InvokeAndTrayKeep ==
  ASSUME HubInv, AnswerInvoke \/ AnswerTray
  PROVE  HubInv'
<1>1. /\ queue # <<>> /\ call.cmd \in {"invoke", "tray"} /\ queue' = rest
      /\ UNCHANGED <<backend, view, shown, form, started, unseen>>
      /\ console' \in {"success", "failed"} \/ (console' = console /\ call.cmd = "tray")
      /\ tray' = tray \/ (tray' = call.arg /\ call.cmd = "tray")
      /\ (UNCHANGED faults /\ UNCHANGED calm) \/ Fault \/ NoFault
  BY DEF AnswerInvoke, AnswerTray, Serving, NoFault
<1>2. queue' \in Seq(GoodCalls) /\ Loads' /\ ConfigsFollow'
  BY <1>1, EndKeeps DEF backend
<1>3. TypeOK'
  <2>1. faults' \in 0..MaxFaults /\ calm' \in BOOLEAN /\ queue' \in Seq(Calls)
    BY <1>1, <1>2, Counts, GoodIsCall DEF HubInv, Types, TypeOK
  <2>2. console' \in {"empty", "loading", "success", "failed"}
    BY <1>1 DEF HubInv, Types, TypeOK
  <2>3. tray' \in {"unset", "ok", "degraded", "error"}
    BY <1>1, CallIsGood DEF HubInv, Types, TypeOK, GoodCalls
  <2> QED BY <1>1, <2>1, <2>2, <2>3 DEF HubInv, Types, TypeOK, backend
<1>4. ListFollows'
  BY <1>1 DEF HubInv, ListFollows, ListedIsStored, backend
<1> QED BY <1>2, <1>3, <1>4 DEF HubInv, Types

LEMMA StepKeeps == HubInv /\ [Next]_vars => HubInv'
<1> SUFFICES ASSUME HubInv, [Next]_vars
             PROVE  HubInv'
  OBVIOUS
<1>1. CASE UNCHANGED vars
  BY <1>1 DEF vars, backend, HubInv, Types, TypeOK, Loads, Sent, ConfigsFollow, ConfigsAgree, WillReload,
              ListFollows, ListedIsStored
<1>2. CASE \/ \E flow \in {"poll", "surface"} : StartRefresh(flow)
           \/ \E flow \in {"health", "configs"} : StartChecks(flow)
  BY <1>2, StartRefreshKeeps, StartChecksKeeps
<1>3. CASE \/ SaveProvider \/ SaveCredential \/ SaveRepo
           \/ \E p \in Providers : RemoveProvider(p) \/ Preview(p)
           \/ \E id \in Creds : ForgetRepo(id)
  BY <1>3, ButtonsKeep
<1>4. CASE EditForm \/ \E id \in Creds : LoseSecret(id)
  BY <1>4, OutsideKeeps
<1>5. CASE Answer
  BY <1>5, UrlKeeps, RefusedKeeps, UnauditedKeeps, AddKeeps, DeleteKeeps, ConfigureKeeps, CheckKeeps,
     ListKeeps, ConfigsKeeps, InvokeAndTrayKeep DEF Answer
<1> QED BY <1>1, <1>2, <1>3, <1>4, <1>5 DEF Next

-----------------------------------------------------------------------------
(* Types, answers and the backend *)

LEMMA SpecKeeps == Spec => []HubInv
<1>1. Init => HubInv
  BY InitInv
<1>2. HubInv /\ [Next]_vars => HubInv'
  BY StepKeeps
<1> QED BY <1>1, <1>2, PTL DEF Spec

\* Every variable of the hub, the layout and the gateway is of its type, and a
\* list that claims success is not empty, after every interleaving of the flows.
THEOREM HubTypes == Spec => []TypeOK
<1>1. HubInv => TypeOK
  BY DEF HubInv, Types
<1> QED BY <1>1, SpecKeeps, PTL

\* Whatever is shown as loading waits for a call that is under way: no order in
\* which answers, errors and buttons meet leaves a list or the preview waiting for
\* nobody (credentials.ts, IntegrationHub.svelte).
THEOREM LoadingEnds == Spec => []LoadingIsAnswered
<1>1. HubInv => LoadingIsAnswered
  BY SentIsUnderWay DEF HubInv, Loads, LoadingIsAnswered
<1> QED BY <1>1, SpecKeeps, PTL

\* With nothing under way, what the hub calls configured is enabled in the gateway
\* with a credential that exists, and what it lists is stored.
LEMMA QuietAgrees == HubInv => HubMatchesBackend
<1> SUFFICES ASSUME HubInv, Quiet
             PROVE  /\ unseen = {} => ConfiguredIsUsable
                    /\ "credentials" \notin unseen => ListedIsStored
  BY DEF HubMatchesBackend
<1>1. "credentials" \notin unseen => ListedIsStored
  BY DEF HubInv, ListFollows
<1>2. ASSUME unseen = {}, NEW p \in Providers, Configured(p)
      PROVE  /\ p \in DOMAIN config /\ config[p].on
             /\ config[p].cred = NoCred \/ config[p].cred \in stored
  <2>1. ~WillReload
    BY DEF Quiet, WillReload, Sent
  <2>2. p \in DOMAIN shown.list /\ p \in DOMAIN config /\ shown.list[p] = config[p]
    BY <1>2, <2>1 DEF HubInv, ConfigsFollow, ConfigsAgree, Configured
  <2>3. ConnectionStatus(config[p]) = "configured"
    BY <1>2, <2>2 DEF Configured
  <2>4. config[p].on /\ (config[p].cred = NoCred \/ config[p].cred \in LlmIds)
    BY <2>3 DEF ConnectionStatus
  <2>5. LlmIds \subseteq stored
    BY <1>1, <1>2 DEF LlmIds, ListedIsStored
  <2> QED BY <2>2, <2>4, <2>5
<1> QED BY <1>1, <1>2 DEF ConfiguredIsUsable

\* Whatever saves, removals, polls and reloads overlapped before, and wherever one
\* of them failed, once no call is under way a provider shown as configured can be
\* used (llmConnectionStatus, removeLlmProvider, addLlmProvider, deleteCredential).
THEOREM HubFollowsBackend == Spec => []HubMatchesBackend
BY QuietAgrees, SpecKeeps, PTL

-----------------------------------------------------------------------------
(* The poll that runs alone *)

\* Where a poll is that began with nothing under way and met nothing since: at
\* its refresh, at the check of an id with every other one marked or to come, at
\* the tray, or done.
PollIsOn ==
  calm =>
    \/ queue = <<Polled("list", "poll", NoCred, {})>>
    \/ \E id \in stored : \E todo \in SUBSET (stored \ {id}) :
         /\ queue = <<Polled("check", "poll", id, todo)>>
         /\ DOMAIN view.list = stored
         /\ \A x \in stored \ (todo \cup {id}) : view.list[x] = "healthy" <=> x \in secrets
    \/ queue = <<Polled("tray", "poll", Verdict(stored, secrets), {})>>
    \/ queue = <<>> /\ tray = Verdict(stored, secrets)

LEMMA PolledFields ==
  ASSUME NEW cmd, NEW arg, NEW todo
  PROVE  /\ Polled(cmd, "poll", arg, todo).cmd = cmd /\ Polled(cmd, "poll", arg, todo).flow = "poll"
         /\ Polled(cmd, "poll", arg, todo).arg = arg /\ Polled(cmd, "poll", arg, todo).todo = todo
         /\ Call(cmd, "poll", NoProvider, arg) = Polled(cmd, "poll", arg, {})
         /\ Head(<<Polled(cmd, "poll", arg, todo)>>) = Polled(cmd, "poll", arg, todo)
         /\ Tail(<<Polled(cmd, "poll", arg, todo)>>) = <<>>
         /\ <<Polled(cmd, "poll", arg, todo)>> # <<>>
<1>1. Polled(cmd, "poll", arg, todo) = [cmd |-> cmd, flow |-> "poll", p |-> NoProvider, arg |-> arg, todo |-> todo]
  BY DEF Polled, Call
<1>2. Polled(cmd, "poll", arg, {}) = Call(cmd, "poll", NoProvider, arg)
  BY DEF Polled, Call
<1> HIDE DEF Polled
<1> QED BY <1>1, <1>2

\* What a poll sends after one of its answers, when every id not left is marked.
LEMMA PollGoesOn ==
  ASSUME HubInv, NEW todo \in SUBSET stored, UNCHANGED <<stored, secrets>>,
         CheckNext(<<>>, "poll", todo, view'.list),
         DOMAIN view'.list = stored, view' \in Lists(Creds, Health),
         \A x \in stored \ todo : view'.list[x] = "healthy" <=> x \in secrets
  PROVE  PollIsOn'
<1>1. secrets \subseteq stored
  BY DEF HubInv, Types, TypeOK
<1>2. CASE todo # {}
  <2>1. PICK id \in todo : queue' = Append(<<>>, Polled("check", "poll", id, todo \ {id}))
    BY <1>2 DEF CheckNext, Polled
  <2>2. queue' = <<Polled("check", "poll", id, todo \ {id})>>
    BY <2>1
  <2>3. todo \ {id} \in SUBSET (stored \ {id}) /\ id \in stored
    OBVIOUS
  <2>4. \A x \in stored \ ((todo \ {id}) \cup {id}) : view'.list[x] = "healthy" <=> x \in secrets
    OBVIOUS
  <2> QED BY <2>2, <2>3, <2>4 DEF PollIsOn
<1>3. CASE todo = {}
  <2>1. Healthy(view'.list) = secrets
    BY <1>1, <1>3 DEF Healthy
  <2>2. queue' = <<>> \o <<Call("tray", "poll", NoProvider, Verdict(DOMAIN view'.list, Healthy(view'.list)))>>
    BY <1>3 DEF CheckNext, ReloadConfigs
  <2>3. queue' = <<Polled("tray", "poll", Verdict(stored, secrets), {})>>
    BY <2>1, <2>2, PolledFields
  <2> QED BY <2>3 DEF PollIsOn
<1> QED BY <1>2, <1>3

LEMMA CalmStep == HubInv /\ PollIsOn /\ [Next]_vars => PollIsOn'
<1> SUFFICES ASSUME HubInv, PollIsOn, [Next]_vars, calm'
             PROVE  PollIsOn'
  BY DEF PollIsOn
<1>1. CASE UNCHANGED vars \/ EditForm
  <2>1. UNCHANGED <<stored, secrets, view, tray, queue, calm>>
    BY <1>1 DEF EditForm, vars, backend
  <2> QED BY <2>1 DEF PollIsOn
<1>2. ASSUME NEW flow \in {"poll", "surface"}, StartRefresh(flow)
      PROVE  PollIsOn'
  <2>1. flow = "poll" /\ queue = <<>> /\ queue' = Append(queue, Call("list", flow, NoProvider, NoCred))
    BY <1>2 DEF StartRefresh
  <2>2. queue' = <<Polled("list", "poll", NoCred, {})>>
    BY <2>1, PolledFields
  <2> QED BY <2>2 DEF PollIsOn
<1>3. CASE \/ \E flow \in {"health", "configs"} : StartChecks(flow)
           \/ SaveProvider \/ SaveCredential \/ SaveRepo
           \/ \E p \in Providers : RemoveProvider(p) \/ Preview(p)
           \/ \E id \in Creds : ForgetRepo(id) \/ LoseSecret(id)
  BY <1>3 DEF StartChecks, SaveProvider, SaveCredential, SaveRepo, RemoveProvider, Preview, ForgetRepo,
              LoseSecret, StartCall, Fault
<1>4. CASE Answer
  <2>1. calm /\ queue # <<>> /\ UNCHANGED faults
    BY <1>4 DEF Answer, AnswerUrl, AnswerRefused, AnswerAdd, AnswerDelete, AnswerConfigure, AnswerUnaudited,
                AnswerCheck, AnswerList, AnswerConfigs, AnswerInvoke, AnswerTray, Serving, Fault, NoFault
  <2>2. CASE queue = <<Polled("list", "poll", NoCred, {})>>
    <3>1. call.cmd = "list" /\ call.flow = "poll" /\ rest = <<>>
      BY <2>2, PolledFields DEF call, rest
    <3>2. AnswerList
      BY <1>4, <3>1 DEF Answer, AnswerUrl, AnswerRefused, AnswerAdd, AnswerDelete, AnswerConfigure, AnswerUnaudited,
                        AnswerCheck, AnswerConfigs, AnswerInvoke, AnswerTray, Serving
    <3>3. /\ view' = ListCredentials /\ UNCHANGED backend
          /\ CheckNext(<<>>, "poll", DOMAIN view'.list, view'.list)
      BY <2>1, <3>1, <3>2 DEF AnswerList, Fault
    <3>4. DOMAIN view'.list = stored /\ view' \in Lists(Creds, Health)
      BY <3>3, StoredIsListed
    <3> QED BY <3>3, <3>4, PollGoesOn DEF backend
  <2>3. ASSUME NEW id \in stored, NEW todo \in SUBSET (stored \ {id}),
               queue = <<Polled("check", "poll", id, todo)>>, DOMAIN view.list = stored,
               \A x \in stored \ (todo \cup {id}) : view.list[x] = "healthy" <=> x \in secrets
        PROVE  PollIsOn'
    <3>1. call.cmd = "check" /\ call.flow = "poll" /\ call.arg = id /\ call.todo = todo /\ rest = <<>>
      BY <2>3, PolledFields DEF call, rest
    <3>2. AnswerCheck
      BY <1>4, <3>1 DEF Answer, AnswerUrl, AnswerRefused, AnswerAdd, AnswerDelete, AnswerConfigure, AnswerUnaudited,
                        AnswerList, AnswerConfigs, AnswerInvoke, AnswerTray, Serving
    <3> DEFINE health == IF id \in secrets THEN "healthy" ELSE "invalid"
    <3>3. /\ view' = Mark(id, health) /\ UNCHANGED backend
          /\ CheckNext(<<>>, "poll", todo, view'.list)
      BY <2>1, <3>1, <3>2 DEF AnswerCheck, Fault
    <3>4. health \in Health /\ (health = "healthy" <=> id \in secrets)
      BY DEF Health
    <3> HIDE DEF health
    <3>5. /\ view' \in Lists(Creds, Health) /\ DOMAIN view'.list = stored
          /\ \A x \in stored : view'.list[x] = IF x = id THEN health ELSE view.list[x]
      BY <2>3, <3>3, <3>4, ViewShape, MarkIsList
    <3>6. \A x \in stored \ todo : view'.list[x] = "healthy" <=> x \in secrets
      BY <2>3, <3>4, <3>5
    <3> QED BY <3>3, <3>5, <3>6, PollGoesOn DEF backend
  <2>4. CASE queue = <<Polled("tray", "poll", Verdict(stored, secrets), {})>>
    <3>1. call.cmd = "tray" /\ call.arg = Verdict(stored, secrets) /\ rest = <<>>
      BY <2>4, PolledFields DEF call, rest
    <3>2. AnswerTray
      BY <1>4, <3>1 DEF Answer, AnswerUrl, AnswerRefused, AnswerAdd, AnswerDelete, AnswerConfigure, AnswerUnaudited,
                        AnswerCheck, AnswerList, AnswerConfigs, AnswerInvoke, Serving
    <3>3. queue' = <<>> /\ tray' = Verdict(stored, secrets) /\ UNCHANGED backend
      BY <3>1, <3>2 DEF AnswerTray
    <3> QED BY <3>3 DEF PollIsOn, backend
  <2> QED BY <2>1, <2>2, <2>3, <2>4 DEF PollIsOn
<1> QED BY <1>1, <1>2, <1>3, <1>4 DEF Next

\* The verdict is of all secrets at one moment, although every one of them is read
\* by a call of its own: a poll that ran alone and without a failed call, over any
\* number of credentials, leaves in the tray what the keychain holds (pollHealth).
THEOREM TrayTellsTheTruth == Spec => []TrayIsTrue
<1>1. Init => PollIsOn
  BY DEF Init, PollIsOn
<1>2. HubInv /\ PollIsOn /\ [Next]_vars => PollIsOn'
  BY CalmStep
<1>3. HubInv /\ PollIsOn => TrayIsTrue
  <2> SUFFICES ASSUME HubInv, PollIsOn, calm, queue = <<>>
               PROVE  /\ tray = "ok" <=> secrets = stored
                      /\ tray = "error" <=> secrets = {} /\ stored # {}
    BY DEF TrayIsTrue, Quiet
  <2>1. tray = Verdict(stored, secrets)
    BY PolledFields DEF PollIsOn
  <2> QED BY <2>1 DEF Verdict
<1> QED BY <1>1, <1>2, <1>3, SpecKeeps, PTL DEF Spec
=============================================================================
