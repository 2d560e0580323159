---------------------------- MODULE BrowserShares ----------------------------
(***************************************************************************)
(* A serial port of one browser shared with others through the server      *)
(* (serial/browser_serial_share_service.cpp and its WebSocket controller). *)
(* The owner's browser publishes the port and sends what it reads; viewers *)
(* subscribe, receive it and may write to it if the owner allows that.     *)
(*                                                                         *)
(* There is one share id: shares meet only in the mutex.  A period starts  *)
(* when a port is published, or becomes visible again, and a piece of data *)
(* is known by the period it was read in.  A connection                    *)
(* takes one role once, so it also names its subscription and its plugin   *)
(* session.  Messages that only inform the user are left out.              *)
(***************************************************************************)
EXTENDS Naturals, FiniteSets

CONSTANTS
  Browsers,    \* WebSocket connections
  Nobody,
  MaxPeriods   \* bound: periods

ASSUME PeriodsAssumption == MaxPeriods \in Nat

VARIABLES
  share,       \* shares_[id], or Nobody
  subscribed,  \* the connections with an entry in subscriptions_
  role,        \* ConnectionState::role
  link,        \* a connection: open, closing (lost, not yet handled) or gone
  doing,       \* where the handler of a connection is
  job,         \* the data or plugin session a handler has in hand, and for whom
  stale,       \* plugin sessions ListShares is about to unregister
  plugins,     \* the sessions known to the plugin service
  period,      \* the number of the current period
  joined,      \* the period a viewer subscribed in
  received,    \* the periods of the pieces a viewer was sent
  permitted,   \* owners that have allowed writing at some time
  heard        \* owners that were sent the input of a viewer

shareVars == <<share, subscribed, role, link, doing, job, stale, plugins,
               period, joined, received, permitted, heard>>
watchVars == <<joined, received, permitted, heard>>

NoJob == [of |-> {}, to |-> {}]

SharesInit ==
  /\ share = Nobody /\ subscribed = {} /\ stale = {} /\ plugins = {}
  /\ role = [c \in Browsers |-> "none"]
  /\ link = [c \in Browsers |-> "open"]
  /\ doing = [c \in Browsers |-> "idle"]
  /\ job = [c \in Browsers |-> NoJob]
  /\ period = 0
  /\ joined = [c \in Browsers |-> 0]
  /\ received = [c \in Browsers |-> {}]
  /\ permitted = {} /\ heard = {}

Online(c) == link[c] = "open"
Ready(c) == Online(c) /\ doing[c] = "idle"
Published == share # Nobody
Owns(c) == Published /\ share.owner = c

\* A handler goes on to its next part with this in hand.
Goes(c, next, of, to) ==
  /\ doing' = [doing EXCEPT ![c] = next]
  /\ job' = [job EXCEPT ![c] = [of |-> of, to |-> to]]
Done(c) == Goes(c, "idle", {}, {})

-----------------------------------------------------------------------------
(* The owner.                                                              *)

\* The role is taken before Publish can fail, so a refused owner keeps it.
\* The share of an owner that is gone is replaced, and its viewers' entries
\* in subscriptions_ stay.
Publish(c, visible, writable) ==
  /\ Ready(c) /\ role[c] = "none" /\ period < MaxPeriods
  /\ role' = [role EXCEPT ![c] = "owner"]
  /\ \/ /\ Published
        /\ Online(share.owner)
        /\ UNCHANGED <<share, doing, job, period, permitted>>
     \/ /\ ~(Published /\ Online(share.owner))
        /\ share' = [owner |-> c, visible |-> visible, writable |-> writable,
                     viewers |-> {}, backlog |-> {}]
        /\ Goes(c, "registering", IF Published THEN {share.owner} ELSE {}, {})
        /\ period' = period + 1
        /\ permitted' = IF writable THEN permitted \cup {c} ELSE permitted
  /\ UNCHANGED <<subscribed, link, stale, plugins, joined, received, heard>>

\* After the unlock the plugin service learns of the change.
RegisterShare(c) ==
  /\ doing[c] = "registering"
  /\ plugins' = (plugins \ job[c].of) \cup {c}
  /\ Done(c)
  /\ UNCHANGED <<share, subscribed, role, link, stale, period, watchVars>>

\* Mutant: the backlog outlives the end of the sharing.
KeptBacklog == share.backlog
\* What is left of the backlog when a share becomes private.
BacklogWhenPrivate == {}

\* Becoming private drops the viewers.
Update(c, visible, writable) ==
  LET hides == share.visible /\ ~visible
      shows == ~share.visible /\ visible
  IN
  /\ Ready(c) /\ role[c] = "owner" /\ Owns(c)
  /\ shows => period < MaxPeriods
  /\ share' = [share EXCEPT !.visible = visible, !.writable = writable,
                 !.viewers = IF hides THEN {} ELSE @,
                 !.backlog = IF hides THEN BacklogWhenPrivate ELSE @]
  /\ subscribed' = IF hides THEN subscribed \ share.viewers ELSE subscribed
  /\ period' = IF shows THEN period + 1 ELSE period
  /\ permitted' = IF writable THEN permitted \cup {c} ELSE permitted
  /\ UNCHANGED <<role, link, doing, job, stale, plugins, joined, received, heard>>

\* Data go to the backlog and to the viewers that are still connected.
OwnerData(c) ==
  LET there == {v \in share.viewers : Online(v)} IN
  /\ Ready(c) /\ role[c] = "owner" /\ Owns(c)
  /\ share.visible
  /\ share' = [share EXCEPT !.backlog = @ \cup {period}, !.viewers = there]
  /\ subscribed' = subscribed \ (share.viewers \ there)
  /\ Goes(c, "sending", {period}, there)
  /\ UNCHANGED <<role, link, stale, plugins, period, watchVars>>

\* They are sent after the unlock.
SendData(c) ==
  /\ doing[c] = "sending"
  /\ received' = [v \in Browsers |->
       IF v \in job[c].to /\ Online(v) THEN received[v] \cup job[c].of ELSE received[v]]
  /\ Done(c)
  /\ UNCHANGED <<share, subscribed, role, link, stale, plugins, period,
                 joined, permitted, heard>>

-----------------------------------------------------------------------------
(* The viewers.                                                            *)

\* A refused viewer keeps its role, too.
Subscribe(c) ==
  /\ Ready(c) /\ role[c] = "none"
  /\ role' = [role EXCEPT ![c] = "subscriber"]
  /\ \/ /\ ~(Published /\ share.visible /\ Online(share.owner))
        /\ UNCHANGED <<share, subscribed, doing, job, joined>>
     \/ /\ Published /\ share.visible /\ Online(share.owner)
        /\ share' = [share EXCEPT !.viewers = @ \cup {c}]
        /\ subscribed' = subscribed \cup {c}
        /\ joined' = [joined EXCEPT ![c] = period]
        /\ Goes(c, "answering", share.backlog, {c})
  /\ UNCHANGED <<link, stale, plugins, period, received, permitted, heard>>

\* "subscribed" and the backlog are sent after the unlock.
AnswerViewer(c) ==
  /\ doing[c] = "answering"
  /\ received' = [received EXCEPT ![c] = IF Online(c) THEN @ \cup job[c].of ELSE @]
  /\ Done(c)
  /\ UNCHANGED <<share, subscribed, role, link, stale, plugins, period,
                 joined, permitted, heard>>

\* The settings are tested, and the owner looked up, in one critical section.
SubscriberWrite(c) ==
  /\ Ready(c) /\ role[c] = "subscriber" /\ c \in subscribed
  /\ Published /\ share.visible /\ share.writable
  /\ Goes(c, "forwarding", {}, {share.owner})
  /\ UNCHANGED <<share, subscribed, role, link, stale, plugins, period, watchVars>>

\* Mutant: the owner is looked up when the data are sent.
CurrentOwner(c) == IF Published THEN {share.owner} ELSE {}
\* The owner a write goes to.
Addressee(c) == job[c].to

Forward(c) ==
  /\ doing[c] = "forwarding"
  /\ heard' = heard \cup {o \in Addressee(c) : Online(o)}
  /\ Done(c)
  /\ UNCHANGED <<share, subscribed, role, link, stale, plugins, period,
                 joined, received, permitted>>

-----------------------------------------------------------------------------
(* The end of a connection, and the list of the shares.                    *)

LoseBrowser(c) ==
  /\ Online(c)
  /\ link' = [link EXCEPT ![c] = "closing"]
  /\ UNCHANGED <<share, subscribed, role, doing, job, stale, plugins, period, watchVars>>

\* Unpublish: the share of this owner goes with its viewers' entries.
Unpublish(c) ==
  /\ share' = Nobody
  /\ subscribed' = subscribed \ share.viewers
  /\ Goes(c, "unregistering", {c}, {})
  /\ UNCHANGED link

\* Detach: the viewer leaves the share of its id, whoever owns it now.
DetachBrowser(c) ==
  /\ share' = IF Published THEN [share EXCEPT !.viewers = @ \ {c}] ELSE share
  /\ subscribed' = subscribed \ {c}
  /\ link' = [link EXCEPT ![c] = "gone"]
  /\ UNCHANGED <<doing, job>>

HandleLost(c) ==
  /\ link[c] = "closing" /\ doing[c] = "idle"
  /\ \/ role[c] = "owner" /\ Owns(c) /\ Unpublish(c)
     \/ /\ ~(role[c] = "owner" /\ Owns(c))
        /\ DetachBrowser(c)
  /\ UNCHANGED <<role, stale, plugins, period, watchVars>>

\* After the unlock the plugin session goes.
Unregister(c) ==
  /\ doing[c] = "unregistering"
  /\ plugins' = plugins \ job[c].of
  /\ Done(c)
  /\ UNCHANGED <<share, subscribed, role, link, stale, period, watchVars>>

\* ListShares drops a share whose owner is no longer connected ...
ListShares ==
  /\ Published /\ ~Online(share.owner)
  /\ share' = Nobody
  /\ subscribed' = subscribed \ share.viewers
  /\ stale' = stale \cup {share.owner}
  /\ UNCHANGED <<role, link, doing, job, plugins, period, watchVars>>

\* ... and its plugin session after the unlock.
UnregisterStale ==
  /\ stale # {}
  /\ plugins' = plugins \ stale
  /\ stale' = {}
  /\ UNCHANGED <<share, subscribed, role, link, doing, job, period, watchVars>>

-----------------------------------------------------------------------------
SharesNext ==
  \/ \E c \in Browsers, visible, writable \in BOOLEAN :
       Publish(c, visible, writable) \/ Update(c, visible, writable)
  \/ \E c \in Browsers :
       \/ RegisterShare(c) \/ OwnerData(c) \/ SendData(c)
       \/ Subscribe(c) \/ AnswerViewer(c) \/ SubscriberWrite(c) \/ Forward(c)
       \/ LoseBrowser(c) \/ HandleLost(c) \/ Unregister(c)
  \/ ListShares
  \/ UnregisterStale

SharesSpec == SharesInit /\ [][SharesNext]_shareVars

-----------------------------------------------------------------------------
Share == [owner : Browsers, visible : BOOLEAN, writable : BOOLEAN,
          viewers : SUBSET Browsers, backlog : SUBSET (0 .. MaxPeriods)]

SharesTypeOK ==
  /\ share \in Share \cup {Nobody}
  /\ {subscribed, stale, plugins, permitted, heard} \subseteq SUBSET Browsers
  /\ role \in [Browsers -> {"none", "owner", "subscriber"}]
  /\ link \in [Browsers -> {"open", "closing", "gone"}]
  /\ doing \in [Browsers -> {"idle", "registering", "sending", "answering",
                             "forwarding", "unregistering"}]
  /\ \A c \in Browsers : job[c].to \subseteq Browsers
  /\ period \in 0 .. MaxPeriods
  /\ joined \in [Browsers -> 0 .. MaxPeriods]
  /\ received \in [Browsers -> SUBSET (0 .. MaxPeriods)]
  /\ Published => \A v \in share.viewers : v \in subscribed

\* A viewer receives only what was read in the period it subscribed in:
\* nothing of a time when the owner did not share, of an earlier sharing, or
\* of another owner of the same id, however late its data are sent.
OnePeriodPerViewer == \A c \in Browsers : received[c] \subseteq {joined[c]}

\* An owner that has never allowed writing is sent no viewer's input, even
\* by a viewer of an earlier owner of the same id.
ReadOnlyOwnerHearsNothing == heard \subseteq permitted

\* The plugins see the share: its session is registered once Publish is over.
ShareKnownToPlugins ==
  (Published /\ doing[share.owner] # "registering") => share.owner \in plugins

\* What keeps one sharing, owner and viewer apart from another, together.
SharesAreKeptApart == OnePeriodPerViewer /\ ReadOnlyOwnerHearsNothing /\ ShareKnownToPlugins
=============================================================================
