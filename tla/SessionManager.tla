--------------------------- MODULE SessionManager ---------------------------
(***************************************************************************)
(* SessionManager (core/src/session-manager/session-manager.ts), with the   *)
(* connect lock of the ConnectorManager it delegates to and the record that *)
(* SessionPersistence keeps in localStorage, over the WalletConnect         *)
(* connector.  Calls of the app interleave with what the wallet does at     *)
(* every await; a page reload loses everything but the stored record.  A    *)
(* save is one setItem and so one step (no encryptionKey).                  *)
(***************************************************************************)
EXTENDS WalletConnect, Sequences, SequencesExt

CONSTANTS
  Calls,       \* calls of the app that await something, each made once per page
  MaxSessions, \* config.maxActiveSessions
  MaxReloads   \* bound: page reloads

ASSUME BoundsAssumption == MaxSessions \in Nat \ {0} /\ MaxReloads \in Nat

\* ActiveSessionBundle: scope stands for walletSession.namespaces.
\* PersistedSessionData holds the same fields.  Any session may have an expiry,
\* and it may have passed by the time the record is read.
Bundle == [session: Sessions, scope: SUBSET Chains, chains: SUBSET Chains,
           active: Chains]

ASSUME NoneAssumption == None \notin Sessions \cup Chains \cup Bundles /\ None \notin Bundle

VARIABLES
  bundles,        \* bundles[s]: the bundle under the id of session s
  heap,           \* what each bundle object holds
  activeBundleId, \* it may name a session that is not in bundles any more
  byAge,          \* sessions in bundles, by lastActiveAt, the oldest first
  registered,     \* the page has registered the connector (registerConnector())
  unheard,        \* history: the bundles restored before that
  connecting,     \* ConnectorManager._connecting
  stored,         \* the persisted record
  pc,             \* the await each call is at
  target,         \* the bundle or chain the call has in hand
  chain,          \* the chain the call asks for
  read,           \* restoreFromPersistence(): the record it loaded
  overtaken,      \* history: the record was last written or left by a call that
                  \* had lost the active session
  reloads         \* pages loaded so far

managerVars == <<bundles, heap, activeBundleId, byAge>>
callVars == <<pc, target, chain, read>>
pageVars == <<registered, unheard, connecting>>
vars == <<connectorVars, managerVars, pageVars, stored, callVars, overtaken, reloads>>

Live(b) == \E s \in Sessions : bundles[s] = b

TypeOK ==
  /\ ConnectorTypeOK
  /\ bundles \in [Sessions -> Bundles \cup {None}]
  /\ heap \in [Bundles -> Bundle \cup {None}]
  /\ activeBundleId \in Sessions \cup {None}
  /\ byAge \in Seq(Sessions) /\ IsInjective(byAge)
  /\ ToSet(byAge) = {s \in Sessions : bundles[s] # None}
  /\ Len(byAge) <= IF reloads = 0 THEN MaxSessions ELSE MaxSessions + 1
  /\ registered \in BOOLEAN /\ connecting \in BOOLEAN
  /\ unheard \subseteq Bundles
  /\ stored \in Bundle \cup {None}
  /\ pc \in [Calls -> {"idle", "prompt", "switching", "fees", "disconnecting",
                       "revoking", "loading", "done"}]
  /\ target \in [Calls -> Bundles \cup {None}]
  /\ chain \in [Calls -> Chains \cup {None}]
  /\ read \in [Calls -> Bundle \cup {None}]
  /\ overtaken \in BOOLEAN
  /\ reloads \in 0 .. MaxReloads

Init ==
  /\ ConnectorInit
  /\ bundles = [s \in Sessions |-> None]
  /\ heap = [b \in Bundles |-> None]
  /\ activeBundleId = None /\ byAge = <<>>
  /\ registered = FALSE /\ connecting = FALSE
  /\ unheard = {}
  /\ stored = None
  /\ pc = [c \in Calls |-> "idle"]
  /\ target = [c \in Calls |-> None]
  /\ chain = [c \in Calls |-> None]
  /\ read = [c \in Calls |-> None]
  /\ overtaken = FALSE /\ reloads = 0

-----------------------------------------------------------------------------
(* Calls, bundles and the record. *)

ActiveBundle == IF activeBundleId = None THEN None ELSE bundles[activeBundleId]

Begins(c, step, b, ch) ==
  /\ pc[c] = "idle"
  /\ pc' = [pc EXCEPT ![c] = step]
  /\ target' = [target EXCEPT ![c] = b]
  /\ chain' = [chain EXCEPT ![c] = ch]
  /\ UNCHANGED read

At(c, step) == pc[c] = step

Ends(c) ==
  /\ pc' = [pc EXCEPT ![c] = "done"]
  /\ target' = [target EXCEPT ![c] = None]
  /\ chain' = [chain EXCEPT ![c] = None]
  /\ read' = [read EXCEPT ![c] = None]

\* An object nothing refers to any more.
Fresh(b) == ~Live(b) /\ b \notin subscribers /\ \A c \in Calls : target[c] # b

\* byAge as it is when the sessions K are gone.
Without(K) == FoldLeft(LAMBDA q, s : IF s \in K THEN q ELSE Append(q, s), <<>>, byAge)
Touched(s) == IF bundles[s] = None THEN byAge ELSE Append(Without({s}), s)

Keeps(data) == stored' = data /\ overtaken' = FALSE
Clears == stored' = None /\ overtaken' = FALSE

\* persistBundle() by a call that awaited: the bundle may not be active, or not
\* even in bundles, any more.
KeepsLate(b) == stored' = heap[b] /\ overtaken' = (b # ActiveBundle)

-----------------------------------------------------------------------------
(* connect() and attach() *)

\* The full house loses its oldest member, which may be the active one, before
\* the wallet is asked, and even if another connect() is already under way or the
\* connector is not there.
Connect(c, ch) ==
  LET evicts == Cardinality(ToSet(byAge)) >= MaxSessions
      oldest == Head(byAge)
  IN  /\ pc[c] = "idle"
      /\ IF evicts
         THEN /\ bundles' = [bundles EXCEPT ![oldest] = None]
              /\ subscribers' = subscribers \ {bundles[oldest]}
              /\ byAge' = Tail(byAge)
              /\ overtaken' = (overtaken \/ oldest = activeBundleId)
         ELSE UNCHANGED <<bundles, subscribers, byAge, overtaken>>
      /\ IF connecting \/ ~registered
         THEN Ends(c) /\ UNCHANGED connecting
         ELSE connecting' = TRUE /\ Begins(c, "prompt", None, ch)
      /\ UNCHANGED <<sessionVars, heap, activeBundleId, registered, unheard, stored, reloads>>

\* buildBundle(): the chain asked for is active whether it was granted or not.
Built(s, scope, ch) ==
  [session |-> s, scope |-> scope, chains |-> scope \cup {ch}, active |-> ch]

\* Mutant of Attach: there is room for one session more.
Bad_Attach(s, b, data) ==
  LET full == bundles[s] = None /\ Len(byAge) > MaxSessions
      dropped == IF full THEN {Head(byAge)} ELSE {}
  IN  /\ Fresh(b)
      /\ heap' = [heap EXCEPT ![b] = data]
      /\ bundles' = [t \in Sessions |->
           IF t = s THEN b ELSE IF t \in dropped THEN None ELSE bundles[t]]
      /\ subscribers' = (subscribers \ {bundles[t] : t \in dropped \cup {s}}) \cup {b}
      /\ unheard' = unheard \ {b}
      /\ byAge' = Append(Without(dropped \cup {s}), s)
      /\ activeBundleId' = s
      /\ Keeps(data)

\* A new bundle for session s: in place of the one it has, or else of the oldest
\* if there is no room.  Its connector is registered, or it would not be adopted.
Attach(s, b, data) ==
  LET full == bundles[s] = None /\ Len(byAge) >= MaxSessions
      dropped == IF full THEN {Head(byAge)} ELSE {}
  IN  /\ Fresh(b)
      /\ heap' = [heap EXCEPT ![b] = data]
      /\ bundles' = [t \in Sessions |->
           IF t = s THEN b ELSE IF t \in dropped THEN None ELSE bundles[t]]
      /\ subscribers' = (subscribers \ {bundles[t] : t \in dropped \cup {s}}) \cup {b}
      /\ unheard' = unheard \ {b}
      /\ byAge' = Append(Without(dropped \cup {s}), s)
      /\ activeBundleId' = s
      /\ Keeps(data)

Connected(c) ==
  /\ At(c, "prompt")
  /\ connecting' = FALSE
  /\ \E s \in Sessions, scope \in SUBSET Chains \ {{}}, b \in Bundles :
       /\ Approve(s, scope, b)
       /\ Attach(s, b, Built(s, scope, chain[c]))
  /\ Ends(c)
  /\ UNCHANGED <<registered, reloads>>

ConnectRefused(c) ==
  /\ At(c, "prompt")
  /\ connecting' = FALSE
  /\ Ends(c)
  /\ UNCHANGED <<connectorVars, managerVars, registered, unheard, stored, overtaken, reloads>>

\* The UI layer paired with a wallet and attaches the session it got.
AttachPaired(ch) ==
  /\ registered
  /\ \E s \in Sessions, scope \in SUBSET Chains \ {{}}, b \in Bundles :
       Approve(s, scope, b) /\ Attach(s, b, Built(s, scope, ch))
  /\ UNCHANGED <<registered, connecting, callVars, reloads>>

\* After a reload the UI layer attaches the session the connector reconnected,
\* with all the chains it has by now: a new bundle under an id that may be in use.
AttachAgain(s, ch) ==
  /\ \E scope \in SUBSET Chains \ {{}}, b \in Bundles :
       HandOver(s, scope, b) /\ Attach(s, b, Built(s, scope, ch))
  /\ UNCHANGED <<registered, connecting, callVars, reloads>>

-----------------------------------------------------------------------------
(* switchChain(), syncExternalChain(), disconnectChain() *)

Switched(b, ch) ==
  [heap[b] EXCEPT !.chains = @ \cup {ch}, !.scope = @ \cup {ch}, !.active = ch]

SwitchChain(c, ch) ==
  /\ registered
  /\ ActiveBundle # None
  /\ heap[ActiveBundle].active # ch
  /\ Begins(c, "switching", ActiveBundle, ch)
  /\ UNCHANGED <<connectorVars, managerVars, pageVars, stored, overtaken, reloads>>

\* refreshFees() looks up the bundle that is active by now; with no such chain
\* in it there is nothing to wait for.
SwitchAnswered(c) ==
  LET b == target[c]
      ch == chain[c]
  IN  /\ At(c, "switching")
      /\ wallet[heap[b].session] = "live"
      /\ heap' = [heap EXCEPT ![b] = Switched(b, ch)]
      /\ byAge' = IF Live(b) THEN Touched(heap[b].session) ELSE byAge
      /\ granted' = [granted EXCEPT ![heap[b].session] = @ \cup {ch}]
      /\ IF ActiveBundle # None /\ ch \in heap'[ActiveBundle].chains
         THEN /\ pc' = [pc EXCEPT ![c] = "fees"]
              /\ UNCHANGED <<target, chain, read, stored, overtaken>>
         ELSE /\ Ends(c)
              /\ stored' = heap'[b]
              /\ overtaken' = (b # ActiveBundle)
      /\ UNCHANGED <<wallet, taken, follows, subscribers, bundles, activeBundleId, pageVars,
                     reloads>>

SwitchFails(c) ==
  /\ At(c, "switching")
  /\ Ends(c)
  /\ UNCHANGED <<connectorVars, managerVars, pageVars, stored, overtaken, reloads>>

FeesRefreshed(c) ==
  /\ At(c, "fees")
  /\ KeepsLate(target[c])
  /\ Ends(c)
  /\ UNCHANGED <<connectorVars, managerVars, pageVars, reloads>>

\* Of what has no await before it is persisted.
ActiveBecomes(data) ==
  /\ heap' = [heap EXCEPT ![ActiveBundle] = data]
  /\ Keeps(data)
  /\ UNCHANGED <<bundles, activeBundleId, pageVars, callVars, reloads>>

\* The app passes on a chain the wallet has switched to, asked for or not.
SyncExternalChain(ch) ==
  /\ ActiveBundle # None
  /\ heap[ActiveBundle].active # ch
  /\ ActiveBecomes(Switched(ActiveBundle, ch))
  /\ byAge' = Touched(activeBundleId)
  /\ Takes(activeBundleId, {ch} \ heap[ActiveBundle].scope)
  /\ UNCHANGED <<wallet, granted, follows, subscribers>>

\* With the last chain session gone, the active chain stays as it was.
DisconnectChain(ch) ==
  /\ ActiveBundle # None
  /\ ch \in heap[ActiveBundle].chains
  /\ LET data == heap[ActiveBundle]
         left == data.chains \ {ch}
     IN  \E next \in IF data.active = ch /\ left # {} THEN left ELSE {data.active} :
           ActiveBecomes([data EXCEPT !.chains = left, !.active = next])
  /\ UNCHANGED <<connectorVars, byAge>>

-----------------------------------------------------------------------------
(* disconnect(), revokeSession() and what the wallet does *)

\* Mutant of TearDown: the record survives the session it was saved for.
Bad_TearDown(T) ==
  /\ bundles' = [s \in Sessions |-> IF bundles[s] \in T THEN None ELSE bundles[s]]
  /\ subscribers' = subscribers \ T
  /\ byAge' = Without({s \in Sessions : bundles[s] \in T})
  /\ activeBundleId' = IF ActiveBundle \in T THEN None ELSE activeBundleId
  /\ UNCHANGED <<stored, overtaken>>

\* teardownRevoked() of each bundle of T: the record goes with the active one.
TearDown(T) ==
  /\ bundles' = [s \in Sessions |-> IF bundles[s] \in T THEN None ELSE bundles[s]]
  /\ subscribers' = subscribers \ T
  /\ byAge' = Without({s \in Sessions : bundles[s] \in T})
  /\ IF ActiveBundle \in T
     THEN activeBundleId' = None /\ Clears
     ELSE UNCHANGED <<activeBundleId, stored, overtaken>>

Disconnect(c) ==
  /\ registered
  /\ ActiveBundle # None
  /\ Begins(c, "disconnecting", ActiveBundle, None)
  /\ UNCHANGED <<connectorVars, managerVars, pageVars, stored, overtaken, reloads>>

\* activeBundleId is read after the await: what goes is the session that is
\* active by then, be it another one than the wallet was told about.
Disconnected(c) ==
  /\ At(c, "disconnecting")
  /\ EndOrFail(heap[target[c]].session)
  /\ IF ActiveBundle = None
     THEN /\ activeBundleId' = None
          /\ Clears
          /\ UNCHANGED <<bundles, subscribers, byAge>>
     ELSE TearDown({ActiveBundle})
  /\ Ends(c)
  /\ UNCHANGED <<heap, pageVars, reloads>>

RevokeSession(c, s) ==
  /\ registered
  /\ bundles[s] # None
  /\ Begins(c, "revoking", bundles[s], None)
  /\ UNCHANGED <<connectorVars, managerVars, pageVars, stored, overtaken, reloads>>

\* revokeSession() with no connector to ask: the bundle goes at once.
RevokeUnasked(c, s) ==
  /\ ~registered
  /\ pc[c] = "idle"
  /\ bundles[s] # None
  /\ TearDown({bundles[s]})
  /\ Ends(c)
  /\ UNCHANGED <<sessionVars, heap, pageVars, reloads>>

Revoked(c) ==
  /\ At(c, "revoking")
  /\ EndOrFail(heap[target[c]].session)
  /\ TearDown({b \in {target[c]} : Live(b)})
  /\ Ends(c)
  /\ UNCHANGED <<heap, pageVars, reloads>>

\* The handlers whose bundle is still the one under its id.
Handlers(s) == {b \in Told(s) : Live(b)}

WalletRevokes(s) ==
  /\ WalletEnds(s)
  /\ TearDown(Handlers(s))
  /\ UNCHANGED <<heap, pageVars, callVars, reloads>>

\* session_event chainChanged: the chain goes into the bundle that has the
\* connector's session object, and is not persisted.
WalletChangesChain(s, ch) ==
  /\ ChainChanged(s, ch)
  /\ ch \notin heap[holder].scope
  /\ heap' = [heap EXCEPT ![holder].scope = @ \cup {ch}]
  /\ UNCHANGED <<subscribers, bundles, activeBundleId, byAge, pageVars, stored, callVars,
                 overtaken, reloads>>

\* session_extend: the expiry of an inactive bundle changes too, but is not kept.
WalletExtends(s) ==
  /\ wallet[s] = "live"
  /\ ActiveBundle \in Handlers(s)
  /\ Keeps(heap[ActiveBundle])
  /\ UNCHANGED <<connectorVars, managerVars, pageVars, callVars, reloads>>

\* Mutant of Narrowed: the wallet's scope is taken as it comes.
Bad_Narrowed(data, offered, next) ==
  [data EXCEPT !.scope = offered, !.chains = @ \cap offered,
               !.active = IF data.active \in offered THEN data.active ELSE next]

\* Mutant of Narrowed: the active chain stays although it was dropped.
Bad_NarrowedStays(data, offered, next) ==
  [data EXCEPT !.scope = @ \cap offered, !.chains = @ \cap data.scope \cap offered]

\* narrowNamespaces(), and the chain sessions that follow it.  If the active
\* chain was dropped, the first one left takes its place.
Narrowed(data, offered, next) ==
  LET kept == data.scope \cap offered
      left == data.chains \cap kept
  IN  IF data.active \in kept
      THEN [data EXCEPT !.scope = kept, !.chains = left]
      ELSE [data EXCEPT !.scope = kept, !.chains = left \cup {next}, !.active = next]

Successors(data, offered) ==
  LET kept == data.scope \cap offered
  IN  IF data.chains \cap kept # {} THEN data.chains \cap kept ELSE kept

\* session_update: a scope that keeps nothing is a revocation.
WalletUpdates(s, offered) ==
  LET H == Handlers(s)
      emptied == {b \in H : heap[b].scope \cap offered = {}}
      kept == H \ emptied
  IN  /\ wallet[s] = "live"
      /\ H # {}
      /\ \E next \in [kept -> Chains] :
           /\ \A b \in kept : next[b] \in Successors(heap[b], offered)
           /\ heap' = [b \in Bundles |-> IF b \in kept
                THEN Narrowed(heap[b], offered, next[b]) ELSE heap[b]]
      /\ bundles' = [t \in Sessions |-> IF bundles[t] \in emptied THEN None ELSE bundles[t]]
      /\ subscribers' = subscribers \ emptied
      /\ byAge' = Without({t \in Sessions : bundles[t] \in H})
                    \o Without({t \in Sessions : bundles[t] \notin kept})
      /\ IF ActiveBundle \in emptied
         THEN activeBundleId' = None /\ Clears
         ELSE IF ActiveBundle \in kept
              THEN Keeps(heap'[ActiveBundle]) /\ UNCHANGED <<activeBundleId>>
              ELSE UNCHANGED <<stored, overtaken, activeBundleId>>
      /\ UNCHANGED <<sessionVars, pageVars, callVars, reloads>>

-----------------------------------------------------------------------------
(* Reloading the page, restoreFromPersistence() and reconnect() *)

\* The app starts by restoring what is stored: c is that call.
Reload(c) ==
  /\ reloads < MaxReloads
  /\ reloads' = reloads + 1
  /\ bundles' = [s \in Sessions |-> None]
  /\ heap' = [b \in Bundles |-> None]
  /\ activeBundleId' = None /\ byAge' = <<>>
  /\ registered' = FALSE /\ connecting' = FALSE /\ unheard' = {}
  /\ lastSession' = None /\ holder' = None /\ subscribers' = {}
  /\ LET rest == [d \in Calls |-> None]
     IN  /\ pc' = [d \in Calls |-> IF d = c /\ stored # None THEN "loading" ELSE "idle"]
         /\ target' = rest /\ chain' = rest
         /\ read' = [rest EXCEPT ![c] = stored]
  /\ overtaken' = (stored # None)
  /\ UNCHANGED <<wallet, granted, taken, stored>>

\* registerConnector(): what is there already is left as it is.
RegisterConnector ==
  /\ ~registered
  /\ registered' = TRUE
  /\ UNCHANGED <<connectorVars, managerVars, unheard, connecting, stored, callVars, overtaken,
                 reloads>>

RestoreExpired(c) ==
  /\ At(c, "loading")
  /\ stored' = None
  /\ overtaken' = (ActiveBundle # None)
  /\ Ends(c)
  /\ UNCHANGED <<connectorVars, managerVars, pageVars, reloads>>

\* Mutant of Restored: the bundle that was there keeps its handler.
Bad_Restored(c) ==
  LET data == read[c]
      s == data.session
  IN  /\ At(c, "loading")
      /\ \E b \in Bundles :
           /\ Fresh(b) /\ b # holder
           /\ heap' = [heap EXCEPT ![b] = data]
           /\ bundles' = [bundles EXCEPT ![s] = b]
           /\ subscribers' = subscribers \cup IF registered THEN {b} ELSE {}
           /\ unheard' = IF registered THEN unheard \ {b} ELSE unheard \cup {b}
      /\ byAge' = <<s>> \o Without({s})
      /\ activeBundleId' = s
      /\ overtaken' = (stored # data)
      /\ Ends(c)
      /\ UNCHANGED <<sessionVars, registered, connecting, stored, reloads>>

\* The restored bundle is active from now on, whatever was connected meanwhile,
\* and has room however many there are.  It listens to the wallet if the connector is
\* registered by now; nothing makes up for it later.
Restored(c) ==
  LET data == read[c]
      s == data.session
  IN  /\ At(c, "loading")
      /\ \E b \in Bundles :
           /\ Fresh(b) /\ b # holder
           /\ heap' = [heap EXCEPT ![b] = data]
           /\ bundles' = [bundles EXCEPT ![s] = b]
           /\ subscribers' = (subscribers \ {bundles[s]}) \cup IF registered THEN {b} ELSE {}
           /\ unheard' = IF registered THEN unheard \ {b} ELSE unheard \cup {b}
      /\ byAge' = <<s>> \o Without({s})
      /\ activeBundleId' = s
      /\ overtaken' = (stored # data)
      /\ Ends(c)
      /\ UNCHANGED <<sessionVars, registered, connecting, stored, reloads>>

\* ConnectorManager.reconnect() after a reload, of the session that is stored.
Reconnect(s) ==
  /\ registered /\ reloads > 0 /\ stored # None /\ s = stored.session
  /\ ~connecting
  /\ Resume(s)
  /\ UNCHANGED <<subscribers, managerVars, pageVars, stored, callVars, overtaken, reloads>>

-----------------------------------------------------------------------------
CallStep(c) ==
  \/ \E ch \in Chains : Connect(c, ch) \/ SwitchChain(c, ch)
  \/ Connected(c) \/ ConnectRefused(c)
  \/ SwitchAnswered(c) \/ SwitchFails(c) \/ FeesRefreshed(c)
  \/ Disconnect(c) \/ Disconnected(c)
  \/ \E s \in Sessions : RevokeSession(c, s) \/ RevokeUnasked(c, s)
  \/ Revoked(c)
  \/ Reload(c) \/ RestoreExpired(c) \/ Restored(c)

WalletStep(s) ==
  \/ WalletRevokes(s) \/ WalletExtends(s)
  \/ \E offered \in SUBSET Chains : WalletUpdates(s, offered)
  \/ \E ch \in Chains : WalletChangesChain(s, ch)

Next ==
  \/ \E c \in Calls : CallStep(c)
  \/ \E ch \in Chains : AttachPaired(ch) \/ SyncExternalChain(ch) \/ DisconnectChain(ch)
  \/ \E s \in Sessions : WalletStep(s) \/ \E ch \in Chains : AttachAgain(s, ch)
  \/ \E s \in Sessions : Reconnect(s)
  \/ RegisterConnector

Spec == Init /\ [][Next]_vars

-----------------------------------------------------------------------------
(* Properties *)

(* Exactly the bundles in bundles are subscribed, but for those that were restored
   before their connector was registered: no other session in use misses what the
   wallet does, and no replaced, evicted or ended one leaves its handler behind,
   whichever call, event or restoration replaced it. *)
SubscriptionsMatch == subscribers = {b \in Bundles : Live(b) /\ b \notin unheard}

(* "the wallet may revoke or narrow it after reload, and that must still reach the
   manager" (session-manager.ts:734-735): every bundle in use is subscribed.  The
   code does not keep this, and no configuration checks it. *)
RestoredIsHeard == \A b \in Bundles : Live(b) => b \in subscribers

(* The active chain of a bundle has a chain session, unless the app has
   disconnected them all: no narrowed scope, switch or removal of a chain leaves
   getActiveChainSession() with nothing to return. *)
ActiveChainHasSession ==
  \A s \in Sessions : bundles[s] # None =>
    LET data == heap[bundles[s]] IN data.chains # {} => data.active \in data.chains

\* The record holds data, but for chains the wallet has put into it on its own.
Saved(data) ==
  /\ stored = [data EXCEPT !.scope = stored.scope]
  /\ stored.scope \subseteq data.scope
  /\ data.scope \ stored.scope \subseteq taken[data.session]

(* "Persistence holds the active session only" (session-manager.ts:510): a
   reload restores the active session as it is, or nothing if there is none,
   except after a call that lost the active session while it was waiting, until a
   switch of chain that still reads its fees has ended, and but for the chains of
   the wallet's chainChanged events. *)
PersistedIsActive ==
  \/ overtaken
  \/ ActiveBundle = None /\ stored = None
  \/ /\ ActiveBundle # None /\ stored # None
     /\ stored.session = activeBundleId
     /\ (\A c \in Calls : ~(At(c, "fees") /\ target[c] = ActiveBundle))
          => Saved(heap[ActiveBundle])

(* Chains a session holds, stored or not, were approved with it, asked for by the
   app (switchChain()), or put in by the wallet along one of three ways that are not
   narrowed: a chainChanged event, what the app passes to syncExternalChain(), and
   the namespaces reconnect() finds.  A session_update, a restoration, a late call or
   the record of another session adds none. *)
ScopeJustified ==
  \A s \in Sessions :
    /\ bundles[s] # None => heap[bundles[s]].scope \subseteq granted[s] \cup taken[s]
    /\ stored # None =>
         (stored.session = s => stored.scope \subseteq granted[s] \cup taken[s])

(* "a session cannot grow permissions because a wallet event said so"
   (session-manager.ts:108-109): without the three ways.  The code does not keep
   this, and no configuration checks it. *)
ScopeOnlyAsked == \A s \in Sessions : bundles[s] # None => heap[bundles[s]].scope \subseteq granted[s]

(* "revoked always clears persistence" (docs/design/caip25-session.md:109): a
   session that has ended is not stored any more, unless the manager was not
   told and still has it as the active one. *)
EndedIsNotStored ==
  [][stored' # stored /\ stored' # None /\ wallet[stored'.session] = "ended"
       => bundles'[stored'.session] # None]_vars
=============================================================================
