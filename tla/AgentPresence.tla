--------------------------- MODULE AgentPresence ---------------------------
(***************************************************************************)
(* How the server knows that one agent is online, and tells the owner when *)
(* it is not.  An agent holds a WebSocket, or polls over HTTP, or both;     *)
(* every connection and every polling session has an id.  The handlers      *)
(* (web/api/client/report_v2.go, presence.go) keep the registry of          *)
(* connections (web/agent/connections.go) and call OnlineNotification and   *)
(* OfflineNotification (utils/notifier/offline.go), each in a goroutine of  *)
(* its own, so the calls for two ids, or for one id, run in any order.      *)
(*                                                                         *)
(* Time is two facts: `fresh' says that the last poll is younger than       *)
(* postPresenceTTL, and a grace period ends whenever its goroutine wakes.   *)
(* The registry, the polling sessions and the notification states are maps  *)
(* keyed by the agent, so agents are independent and one is modelled.       *)
(***************************************************************************)
EXTENDS Integers, FiniteSets

CONSTANTS
  Conns,      \* WebSocket connections the agent opens, each once
  Sessions,   \* ids of polling sessions
  None,       \* no connection, no session
  MaxRefresh, \* bound: refreshes of one polling session
  MaxToggles  \* bound: how often notifications are switched on or off

Ids == Conns \cup Sessions

ASSUME PresenceAssumption ==
  /\ Conns \cap Sessions = {} /\ None \notin Ids
  /\ MaxRefresh \in Nat /\ MaxToggles \in Nat

VARIABLES
  client,     \* the agent's row: "known", "deleted", then "forgotten" by the registry
  enabled,    \* notifications are enabled, for all agents and for this one
  toggles,    \* bound: switches so far
  conn,       \* where the handler of each connection is
  registered, \* connectedClients
  marked,     \* v2Clients
  latest,     \* history: the connection that registered last
  entry,      \* postPresenceStates: the polling session
  generation, \* its generation
  armed,      \* its timer is set
  fired,      \* expiry callbacks that run: session and generation
  clearing,   \* sessions whose callback has removed the entry
  presence,   \* presenceOnly: the id it shows
  fresh,      \* presenceOnly.expire lies ahead
  current, pending, first, exist, \* notificationState: connectionID,
              \* pendingOfflineSince is set, isFirstConnection, isConnExist
  online,     \* OnlineNotification of each id
  offline     \* OfflineNotification of each id

settings == <<client, enabled, toggles>>
registry == <<conn, registered, latest>>
session  == <<entry, generation, armed, fired, clearing, presence, fresh>>
notice   == <<current, pending, first, exist>>
vars == <<settings, registry, marked, session, notice, online, offline>>

Init ==
  /\ client = "known" /\ enabled = TRUE /\ toggles = 0
  /\ conn = [c \in Conns |-> "new"]
  /\ registered = None /\ marked = FALSE /\ latest = None
  /\ entry = None /\ generation = 0 /\ armed = FALSE
  /\ fired = {} /\ clearing = {} /\ presence = None /\ fresh = FALSE
  /\ current = None /\ pending = FALSE /\ first = TRUE /\ exist = FALSE
  /\ online = [i \in Ids |-> "none"] /\ offline = [i \in Ids |-> "none"]

-----------------------------------------------------------------------------
(* A WebSocket connection. *)

\* The upgrade and the token check.
Accept(c) ==
  /\ client = "known"
  /\ conn[c] = "new"
  /\ conn' = [conn EXCEPT ![c] = "accepted"]
  /\ UNCHANGED <<settings, registered, latest, marked, session, notice, online, offline>>

\* The predecessor that the handler sees in the registry, if any, is closed
\* by a goroutine of its own: see Leave.
Register(c) ==
  /\ conn[c] = "accepted"
  /\ conn' = [conn EXCEPT ![c] = "registered"]
  /\ registered' = c /\ latest' = c
  /\ UNCHANGED <<settings, marked, session, notice, online, offline>>

Mark(c) ==
  /\ conn[c] = "registered"
  /\ conn' = [conn EXCEPT ![c] = "serving"]
  /\ marked' = TRUE
  /\ online' = [online EXCEPT ![c] = "due"]
  /\ UNCHANGED <<settings, registered, latest, session, notice, offline>>

\* Faulty variant of Leave: the registration goes whoever holds it.
LeaveAnyway(c) ==
  /\ conn[c] = "serving"
  /\ conn' = [conn EXCEPT ![c] = "left"]
  /\ registered' = None /\ marked' = FALSE
  /\ offline' = [offline EXCEPT ![c] = "due"]
  /\ UNCHANGED <<settings, latest, session, notice, online>>

\* The socket fails: the peer went away, nothing was read for readWait, an
\* event or an answer could not be written, or a successor closed it, which
\* may be long after that one registered.  DeleteClientConditionally, then
\* the call of OfflineNotification.
Leave(c) ==
  /\ conn[c] = "serving"
  /\ conn' = [conn EXCEPT ![c] = "left"]
  /\ registered' = IF registered = c THEN None ELSE registered
  /\ marked' = (marked /\ registered # c)
  /\ offline' = [offline EXCEPT ![c] = "due"]
  /\ UNCHANGED <<settings, latest, session, notice, online>>

-----------------------------------------------------------------------------
(* A polling session: refreshPostPresence and postPresenceExpired. *)

\* A known session is prolonged: whatever timer is set, or has just fired,
\* belongs to an older generation.
Prolong ==
  /\ entry # None
  /\ generation < MaxRefresh
  /\ generation' = generation + 1
  /\ presence' = entry
  /\ UNCHANGED <<entry, online>>

Begin(s) ==
  /\ entry = None
  /\ online[s] = "none"
  /\ entry' = s /\ generation' = 0
  /\ presence' = s
  /\ online' = [online EXCEPT ![s] = "due"]

RefreshPostPresence ==
  /\ Prolong \/ \E s \in Sessions : Begin(s)
  /\ armed' = TRUE /\ fresh' = TRUE
  /\ marked' = TRUE
  /\ UNCHANGED <<settings, registry, fired, clearing, notice, offline>>

\* A request over HTTP carries the token; a report over a WebSocket does
\* not, and refreshes the polling session as well.
Poll == client = "known" /\ RefreshPostPresence
ReportOverSocket == (\E c \in Conns : conn[c] = "serving") /\ RefreshPostPresence

Lapse ==
  /\ fresh
  /\ fresh' = FALSE
  /\ UNCHANGED <<settings, registry, marked, entry, generation, armed, fired, clearing,
                 presence, notice, online, offline>>

TimerFires ==
  /\ armed /\ ~fresh
  /\ armed' = FALSE
  /\ fired' = fired \cup {<<entry, generation>>}
  /\ UNCHANGED <<settings, registry, marked, entry, generation, clearing, presence, fresh,
                 notice, online, offline>>

\* Faulty variant of RemoveEntry: the generation of the timer is not compared.
RemoveYounger(s, g) ==
  /\ <<s, g>> \in fired
  /\ fired' = fired \ {<<s, g>>}
  /\ IF entry = s
     THEN entry' = None /\ clearing' = clearing \cup {s} /\ armed' = FALSE
     ELSE UNCHANGED <<entry, clearing, armed>>
  /\ UNCHANGED <<settings, registry, marked, generation, presence, fresh, notice, online, offline>>

\* The part of postPresenceExpired under the lock.
RemoveEntry(s, g) ==
  /\ <<s, g>> \in fired
  /\ fired' = fired \ {<<s, g>>}
  /\ IF entry = s /\ generation = g
     THEN entry' = None /\ clearing' = clearing \cup {s} /\ armed' = FALSE
     ELSE UNCHANGED <<entry, clearing, armed>>
  /\ UNCHANGED <<settings, registry, marked, generation, presence, fresh, notice, online, offline>>

\* SetPresence(false), then the call of OfflineNotification.
ClearPresence(s) ==
  /\ s \in clearing
  /\ clearing' = clearing \ {s}
  /\ presence' = IF presence = s THEN None ELSE presence
  /\ offline' = [offline EXCEPT ![s] = "due"]
  /\ UNCHANGED <<settings, registry, marked, entry, generation, armed, fired, fresh, notice, online>>

-----------------------------------------------------------------------------
(* OnlineNotification. *)

OnlineChecks(i) ==
  /\ online[i] = "due"
  /\ online' = [online EXCEPT ![i] = IF client = "known" THEN "checked" ELSE "silent"]
  /\ UNCHANGED <<settings, registry, marked, session, notice, offline>>

\* Faulty variants of UpdateOnlineState: without rule 3; the pending state stays set.
UpdateTwice(i) ==
  /\ online[i] = "checked"
  /\ online' = [online EXCEPT ![i] = IF first \/ pending THEN "silent" ELSE "announcing"]
  /\ current' = i /\ first' = FALSE /\ pending' = FALSE
  /\ exist' = IF first \/ ~pending THEN TRUE ELSE exist
  /\ UNCHANGED <<settings, registry, marked, session, offline>>
UpdateKeepsPending(i) ==
  /\ online[i] = "checked"
  /\ online' = [online EXCEPT ![i] =
                  IF first \/ pending \/ exist THEN "silent" ELSE "announcing"]
  /\ current' = i /\ first' = FALSE
  /\ exist' = IF first \/ ~pending THEN TRUE ELSE exist
  /\ UNCHANGED <<settings, registry, marked, session, pending, offline>>

\* updateOnlineState: the first connection, a return within the grace period
\* and a second connection are not to be notified.
UpdateOnlineState(i) ==
  /\ online[i] = "checked"
  /\ online' = [online EXCEPT ![i] =
                  IF first \/ pending \/ exist THEN "silent" ELSE "announcing"]
  /\ current' = i
  /\ first' = FALSE
  /\ pending' = FALSE
  /\ exist' = IF first \/ ~pending THEN TRUE ELSE exist
  /\ UNCHANGED <<settings, registry, marked, session, offline>>

\* Only now getNotificationConfig: with notifications off, the state has changed
\* and nobody is told.
AnnounceReturn(i) ==
  /\ online[i] = "announcing"
  /\ online' = [online EXCEPT ![i] = IF enabled THEN "announced" ELSE "muted"]
  /\ UNCHANGED <<settings, registry, marked, session, notice, offline>>

(* OfflineNotification. *)

OfflineChecks(i) ==
  /\ offline[i] = "due"
  /\ offline' = [offline EXCEPT ![i] = IF client = "known" /\ enabled THEN "checked" ELSE "skipped"]
  /\ UNCHANGED <<settings, registry, marked, session, notice, online>>

\* Faulty variant of MarkPending: the loss of any id counts.
MarkAnyPending(i) ==
  /\ offline[i] = "checked"
  /\ IF ~pending
     THEN pending' = TRUE /\ offline' = [offline EXCEPT ![i] = "waiting"]
     ELSE UNCHANGED pending /\ offline' = [offline EXCEPT ![i] = "over"]
  /\ UNCHANGED <<settings, registry, marked, session, current, first, exist, online>>

MarkPending(i) ==
  /\ offline[i] = "checked"
  /\ IF ~pending /\ current = i
     THEN pending' = TRUE /\ offline' = [offline EXCEPT ![i] = "waiting"]
     ELSE UNCHANGED pending /\ offline' = [offline EXCEPT ![i] = "over"]
  /\ UNCHANGED <<settings, registry, marked, session, current, first, exist, online>>

\* The goroutine after the grace period.
GraceEnds(i) ==
  /\ offline[i] = "waiting"
  /\ IF pending /\ current = i
     THEN /\ pending' = FALSE /\ exist' = FALSE
          /\ offline' = [offline EXCEPT ![i] = "told"]
     ELSE /\ offline' = [offline EXCEPT ![i] = "over"]
          /\ UNCHANGED <<pending, exist>>
  /\ UNCHANGED <<settings, registry, marked, session, current, first, online>>

-----------------------------------------------------------------------------
(* The administrator. *)

Toggle ==
  /\ toggles < MaxToggles
  /\ toggles' = toggles + 1
  /\ enabled' = ~enabled
  /\ UNCHANGED <<client, registry, marked, session, notice, online, offline>>

\* adminRemoveClient: the row, then the registry.  No socket is closed.
DeleteRow ==
  /\ client = "known"
  /\ client' = "deleted"
  /\ UNCHANGED <<enabled, toggles, registry, marked, session, notice, online, offline>>

DeleteConnected ==
  /\ client = "deleted"
  /\ client' = "forgotten"
  /\ registered' = None /\ latest' = None
  /\ marked' = FALSE
  /\ UNCHANGED <<enabled, toggles, conn, session, notice, online, offline>>

-----------------------------------------------------------------------------
Socket(c) == Accept(c) \/ Register(c) \/ Mark(c) \/ Leave(c)
Expiry == Lapse \/ TimerFires \/ (\E f \in fired : RemoveEntry(f[1], f[2]))
            \/ \E s \in Sessions : ClearPresence(s)
Notify(i) == OnlineChecks(i) \/ UpdateOnlineState(i) \/ AnnounceReturn(i)
               \/ OfflineChecks(i) \/ MarkPending(i) \/ GraceEnds(i)
Admin == Toggle \/ DeleteRow \/ DeleteConnected

Next ==
  \/ \E c \in Conns : Socket(c)
  \/ Poll \/ ReportOverSocket
  \/ Expiry
  \/ \E i \in Ids : Notify(i)
  \/ Admin

Spec == Init /\ [][Next]_vars

\* Goroutines are scheduled and sleeps end; agents, sockets and the
\* administrator do as they please.  Every call of the notifier takes few
\* steps, so that fairness to all calls together starves none.
FairSpec == Spec /\ WF_vars(\E i \in Ids : Notify(i))

-----------------------------------------------------------------------------
TypeOK ==
  /\ client \in {"known", "deleted", "forgotten"}
  /\ enabled \in BOOLEAN /\ toggles \in 0..MaxToggles
  /\ conn \in [Conns -> {"new", "accepted", "registered", "serving", "left"}]
  /\ registered \in Conns \cup {None} /\ latest \in Conns \cup {None}
  /\ marked \in BOOLEAN
  /\ entry \in Sessions \cup {None} /\ presence \in Sessions \cup {None}
  /\ generation \in 0..MaxRefresh
  /\ armed \in BOOLEAN /\ fresh \in BOOLEAN
  /\ fired \subseteq Sessions \X (0..MaxRefresh) /\ clearing \subseteq Sessions
  /\ current \in Ids \cup {None}
  /\ pending \in BOOLEAN /\ first \in BOOLEAN /\ exist \in BOOLEAN
  /\ online \in [Ids -> {"none", "due", "checked", "silent", "announcing",
                         "announced", "muted"}]
  /\ offline \in [Ids -> {"none", "due", "checked", "skipped", "over", "waiting",
                          "told"}]

\* Whatever order connections replace each other in, the registry holds the
\* one that registered last until that one ends, and while it serves the
\* agent can be sent v2 events (connections.go: DeleteClientConditionally).
LatestServed ==
  /\ registered = IF latest # None /\ conn[latest] # "left" THEN latest ELSE None
  /\ latest # None /\ conn[latest] = "serving" => marked

\* An agent that polled within the last 35 seconds is shown as online, under
\* the id of its session, although timers of earlier polls may be firing
\* (presence.go: the generation; connections.go: SetPresence compares ids).
PolledIsShown == fresh => presence = entry /\ entry # None

\* The losses the owner was told of; the returns from them, which were announced,
\* are about to be, or were muted because notifications were off.
Losses  == {i \in Ids : offline[i] = "told"}
Returns == {i \in Ids : online[i] \in {"announcing", "announced", "muted"}}

\* However the calls interleave, the owner is told of a loss only while the agent
\* counts as present and of a return only after a loss, and one return belongs to
\* each (offline.go: isConnExist, which stands in for a lock held over the grace
\* period).  So a second offline notice in a row means that the notice of a return
\* was muted by the setting or is still on its way, and no more returns than losses
\* are ever announced.
NoticesAlternate ==
  Cardinality(Losses) = Cardinality(Returns) + (IF first \/ exist THEN 0 ELSE 1)

\* An agent that goes on polling within the grace period is not reported: no
\* offline notice is decided while its session, long since recorded, is kept
\* alive (GraceEnds; web/theme/komari-deer/src/i18n/locales/en.json:428).
ReturnIsNoticed ==
  [][\A i \in Ids : offline[i] # "told" /\ offline'[i] = "told" /\ client = "known" =>
       ~(fresh /\ online[entry] \notin {"none", "due", "checked"})]_vars

\* A pending offline state belongs to the current id and to a goroutine that
\* will end it: it is never left set, which would silence every later loss.
PendingHasWaiter == pending => current # None /\ offline[current] = "waiting"

\* The loss of the current id is reported, unless notifications are off, the
\* agent was removed or another id took its place meanwhile.
LostIsReported ==
  \A i \in Ids :
    current = i /\ offline[i] = "due" ~> current # i \/ offline[i] \in {"skipped", "told"}
=============================================================================
