------------------------------ MODULE DataProofs ------------------------------
(***************************************************************************)
(* Theorems about machines of MCData, each for any number of those who     *)
(* take part: browsers that share a port, clients of the transfer server,  *)
(* requests on one SFTP connection, uploads, downloads, forwarded ports.   *)
(***************************************************************************)
EXTENDS MCData, TelnetProofs, FiniteSetTheorems

-----------------------------------------------------------------------------
(* Sharing a serial port of a browser                                      *)
(*                                                                         *)
(* What keeps one sharing apart from another.  All sending happens after   *)
(* the unlock, so the invariant speaks of what the handlers have in hand.  *)
(* It rests on two facts about roles, which a connection takes once: a     *)
(* viewer stays in the period it subscribed in, and an owner that lost its *)
(* share never owns one again.                                             *)

ShareRecord == [owner : Browsers, visible : BOOLEAN, writable : BOOLEAN,
                viewers : SUBSET Browsers, backlog : SUBSET Nat]
PlacesOfBrowser == {"idle", "registering", "sending", "answering", "forwarding", "unregistering"}
Jobs == [of : SUBSET (Browsers \cup Nat), to : SUBSET Browsers]

SharesTyped ==
  /\ share \in ShareRecord \cup {Nobody}
  /\ role \in [Browsers -> {"none", "owner", "subscriber"}]
  /\ link \in [Browsers -> {"open", "closing", "gone"}]
  /\ doing \in [Browsers -> PlacesOfBrowser]
  /\ job \in [Browsers -> Jobs]
  /\ stale \subseteq Browsers
  /\ period \in Nat
  /\ joined \in [Browsers -> Nat]
  /\ received \in [Browsers -> SUBSET (Browsers \cup Nat)]

\* A viewer and what is on its way to it are of one period.
DeliversShare(c) == doing[c] \in {"sending", "answering"}

Addressed == \A c \in Browsers : doing[c] = "answering" => job[c].to = {c}

SharePeriods ==
  /\ Addressed
  /\ Published =>
       /\ share.backlog \subseteq {period}
       /\ \A v \in share.viewers : joined[v] = period /\ role[v] = "subscriber"
       /\ ~share.visible => share.backlog = {} /\ share.viewers = {}
  /\ \A c \in Browsers : DeliversShare(c) =>
       \A v \in job[c].to : job[c].of \subseteq {joined[v]} /\ role[v] = "subscriber"
  /\ \A c \in Browsers :
       received[c] \subseteq {joined[c]} /\ (role[c] = "none" => received[c] = {})

\* Whom a write goes to has allowed writing.
ShareWrites ==
  /\ Published /\ share.writable => share.owner \in permitted
  /\ \A c \in Browsers : doing[c] = "forwarding" => job[c].to \subseteq permitted
  /\ heard \subseteq permitted

\* A former owner, whose plugin session may go.
Former(b) == role[b] = "owner" /\ ~Owns(b)
Unregisters(c) == doing[c] \in {"registering", "unregistering"}

ShareSessions ==
  /\ Published => role[share.owner] = "owner"
  /\ \A b \in stale : Former(b)
  /\ \A c \in Browsers : Unregisters(c) => \A b \in job[c].of : Former(b)
  /\ Published /\ doing[share.owner] # "registering" => share.owner \in plugins

BInv == SharesTyped /\ SharePeriods /\ ShareWrites /\ ShareSessions

-----------------------------------------------------------------------------
\* The first state: nothing is shared.
LEMMA SharesStart == SharesInit => BInv
BY DEF SharesInit, BInv, SharesTyped, SharePeriods, Addressed, ShareWrites, ShareSessions, Published, NoJob, Jobs, PlacesOfBrowser,
  DeliversShare, Unregisters

\* A handler that goes on has what it was given; the others are not touched.
LEMMA GoesOn ==
  ASSUME SharesTyped, NEW c \in Browsers, NEW next, NEW of, NEW to, Goes(c, next, of, to)
  PROVE  /\ doing'[c] = next /\ job'[c].of = of /\ job'[c].to = to
         /\ \A d \in Browsers : d # c => doing'[d] = doing[d] /\ job'[d] = job[d]
BY DEF SharesTyped, Goes

\* The types of what it goes on with.
LEMMA GoesTyped ==
  ASSUME SharesTyped, NEW c \in Browsers, NEW next, NEW of, NEW to, Goes(c, next, of, to),
         next \in PlacesOfBrowser, of \subseteq Browsers \cup Nat, to \subseteq Browsers
  PROVE  doing' \in [Browsers -> PlacesOfBrowser] /\ job' \in [Browsers -> Jobs]
<1>1. [of |-> of, to |-> to] \in Jobs
  BY DEF Jobs
<1> QED
  BY <1>1 DEF SharesTyped, Goes

\* What Unpublish and DetachBrowser make of the share.
LEMMA LostShare ==
  ASSUME SharesTyped, NEW c \in Browsers, HandleLost(c)
  PROVE  /\ \/ Owns(c) /\ share' = Nobody /\ Goes(c, "unregistering", {c}, {}) /\ role[c] = "owner"
            \/ ~(role[c] = "owner" /\ Owns(c)) /\ ~Published /\ share' = share /\ doing' = doing /\ job' = job
            \/ /\ ~(role[c] = "owner" /\ Owns(c)) /\ Published /\ doing' = doing /\ job' = job
               /\ share \in ShareRecord /\ share' = [share EXCEPT !.viewers = @ \ {c}]
               /\ share' \in ShareRecord
         /\ link' \in [Browsers -> {"open", "closing", "gone"}]
         /\ UNCHANGED <<role, stale, plugins, period, watchVars>>
<1>1. CASE role[c] = "owner" /\ Owns(c)
  BY <1>1 DEF SharesTyped, HandleLost, Unpublish
<1>2. CASE ~(role[c] = "owner" /\ Owns(c)) /\ ~Published
  BY <1>2 DEF SharesTyped, HandleLost, DetachBrowser
<1>3. CASE ~(role[c] = "owner" /\ Owns(c)) /\ Published
  BY <1>3 DEF SharesTyped, HandleLost, DetachBrowser, Published, ShareRecord
<1> QED
  BY <1>1, <1>2, <1>3

\* Every step keeps the types.
LEMMA TypesKept ==
  ASSUME SharesTyped, [SharesNext]_shareVars
  PROVE  SharesTyped'
<1>1. ASSUME NEW c \in Browsers, NEW visible \in BOOLEAN, NEW writable \in BOOLEAN, Publish(c, visible, writable) PROVE SharesTyped'
  <2>1. CASE UNCHANGED <<share, doing, job, period, permitted>>
    BY <1>1, <2>1 DEF SharesTyped, Publish
  <2>2. CASE Goes(c, "registering", IF Published THEN {share.owner} ELSE {}, {})
             /\ share' = [owner |-> c, visible |-> visible, writable |-> writable,
                          viewers |-> {}, backlog |-> {}]
             /\ period' = period + 1
    <3>1. (IF Published THEN {share.owner} ELSE {}) \in SUBSET (Browsers \cup Nat)
      BY DEF SharesTyped, Published, ShareRecord
    <3>2. doing' \in [Browsers -> PlacesOfBrowser] /\ job' \in [Browsers -> Jobs]
      <4>1. "registering" \in PlacesOfBrowser /\ {} \subseteq Browsers
        BY DEF PlacesOfBrowser
      <4> QED
        BY <2>2, <3>1, <4>1, GoesTyped
    <3>3. share' \in ShareRecord
      BY <2>2 DEF ShareRecord
    <3>4. role' \in [Browsers -> {"none", "owner", "subscriber"}]
          /\ UNCHANGED <<link, stale, joined, received>>
      BY <1>1 DEF SharesTyped, Publish
    <3>5. period' \in Nat
      BY <2>2 DEF SharesTyped
    <3> QED
      BY <3>2, <3>3, <3>4, <3>5 DEF SharesTyped
  <2> QED
    BY <1>1, <2>1, <2>2 DEF Publish
<1>2. ASSUME NEW c \in Browsers, NEW visible \in BOOLEAN, NEW writable \in BOOLEAN, Update(c, visible, writable) PROVE SharesTyped'
  <2>1. share \in ShareRecord
    BY <1>2 DEF SharesTyped, Update, Owns, Published
  <2>2. share' \in ShareRecord
    BY <1>2, <2>1 DEF Update, ShareRecord, BacklogWhenPrivate
  <2> QED
    BY <1>2, <2>2 DEF SharesTyped, Update
<1>3. ASSUME NEW c \in Browsers, RegisterShare(c) PROVE SharesTyped'
  BY <1>3 DEF SharesTyped, PlacesOfBrowser, Jobs, ShareRecord, Published, Owns, Online, Ready, RegisterShare, Done, Goes, watchVars
<1>4. ASSUME NEW c \in Browsers, OwnerData(c) PROVE SharesTyped'
  BY <1>4 DEF SharesTyped, PlacesOfBrowser, Jobs, ShareRecord, Published, Owns, Online, Ready, OwnerData, Goes, watchVars
<1>5. ASSUME NEW c \in Browsers, SendData(c) PROVE SharesTyped'
  <2>1. doing' \in [Browsers -> PlacesOfBrowser] /\ job' \in [Browsers -> Jobs]
    <3>1. Goes(c, "idle", {}, {})
      BY <1>5 DEF SendData, Done
    <3>2. "idle" \in PlacesOfBrowser /\ {} \subseteq Browsers /\ {} \subseteq Browsers \cup Nat
      BY DEF PlacesOfBrowser
    <3> QED
      BY <3>1, <3>2, GoesTyped
  <2>2. job[c].of \subseteq Browsers \cup Nat
    BY DEF SharesTyped, Jobs
  <2>3. received' \in [Browsers -> SUBSET (Browsers \cup Nat)]
    BY <1>5, <2>2 DEF SharesTyped, SendData
  <2> QED
    BY <1>5, <2>1, <2>3 DEF SharesTyped, SendData
<1>6. ASSUME NEW c \in Browsers, Subscribe(c) PROVE SharesTyped'
  <2>1. CASE UNCHANGED <<share, subscribed, doing, job, joined>>
    BY <1>6, <2>1 DEF SharesTyped, Subscribe
  <2>2. CASE /\ Published /\ share' = [share EXCEPT !.viewers = @ \cup {c}]
             /\ joined' = [joined EXCEPT ![c] = period]
             /\ Goes(c, "answering", share.backlog, {c})
    <3>1. share \in ShareRecord
      BY <2>2 DEF SharesTyped, Published
    <3>2. share' \in ShareRecord
      BY <2>2, <3>1 DEF ShareRecord
    <3>3. share.backlog \in SUBSET (Browsers \cup Nat)
      BY <3>1 DEF ShareRecord
    <3>4. doing' \in [Browsers -> PlacesOfBrowser] /\ job' \in [Browsers -> Jobs]
      <4>1. "answering" \in PlacesOfBrowser /\ {c} \subseteq Browsers
        BY DEF PlacesOfBrowser
      <4> QED
        BY <2>2, <3>3, <4>1, GoesTyped
    <3> QED
      BY <1>6, <2>2, <3>2, <3>4 DEF SharesTyped, Subscribe
  <2> QED
    BY <1>6, <2>1, <2>2 DEF Subscribe
<1>7. ASSUME NEW c \in Browsers, AnswerViewer(c) PROVE SharesTyped'
  <2>1. doing' \in [Browsers -> PlacesOfBrowser] /\ job' \in [Browsers -> Jobs]
    <3>1. Goes(c, "idle", {}, {})
      BY <1>7 DEF AnswerViewer, Done
    <3>2. "idle" \in PlacesOfBrowser /\ {} \subseteq Browsers /\ {} \subseteq Browsers \cup Nat
      BY DEF PlacesOfBrowser
    <3> QED
      BY <3>1, <3>2, GoesTyped
  <2>2. job[c].of \subseteq Browsers \cup Nat
    BY DEF SharesTyped, Jobs
  <2>3. received' \in [Browsers -> SUBSET (Browsers \cup Nat)]
    BY <1>7, <2>2 DEF SharesTyped, AnswerViewer
  <2> QED
    BY <1>7, <2>1, <2>3 DEF SharesTyped, AnswerViewer
<1>8. ASSUME NEW c \in Browsers, SubscriberWrite(c) PROVE SharesTyped'
  BY <1>8 DEF SharesTyped, PlacesOfBrowser, Jobs, ShareRecord, Published, Owns, Online, Ready, SubscriberWrite, Goes, watchVars
<1>9. ASSUME NEW c \in Browsers, Forward(c) PROVE SharesTyped'
  BY <1>9 DEF SharesTyped, PlacesOfBrowser, Jobs, ShareRecord, Published, Owns, Online, Ready, Forward, Addressee, Done, Goes
<1>10. ASSUME NEW c \in Browsers, LoseBrowser(c) PROVE SharesTyped'
  BY <1>10 DEF SharesTyped, PlacesOfBrowser, Jobs, ShareRecord, Published, Owns, Online, Ready, LoseBrowser, watchVars
<1>11. ASSUME NEW c \in Browsers, HandleLost(c) PROVE SharesTyped'
  <2>1. share' \in ShareRecord \cup {Nobody}
    BY <1>11, LostShare DEF SharesTyped
  <2>2. doing' \in [Browsers -> PlacesOfBrowser] /\ job' \in [Browsers -> Jobs]
    <3>1. "unregistering" \in PlacesOfBrowser /\ {} \subseteq Browsers /\ {c} \subseteq Browsers \cup Nat
      BY DEF PlacesOfBrowser
    <3>2. CASE Goes(c, "unregistering", {c}, {})
      BY <3>1, <3>2, GoesTyped
    <3>3. CASE doing' = doing /\ job' = job
      BY <3>3 DEF SharesTyped
    <3> QED
      BY <1>11, <3>2, <3>3, LostShare
  <2> QED
    BY <1>11, <2>1, <2>2, LostShare DEF SharesTyped, watchVars
<1>12. ASSUME NEW c \in Browsers, Unregister(c) PROVE SharesTyped'
  BY <1>12 DEF SharesTyped, PlacesOfBrowser, Jobs, ShareRecord, Published, Owns, Online, Ready, Unregister, Done, Goes, watchVars
<1>13. CASE ListShares
  BY <1>13 DEF SharesTyped, PlacesOfBrowser, Jobs, ShareRecord, Published, Owns, Online, Ready, ListShares, watchVars
<1>14. CASE UnregisterStale
  BY <1>14 DEF SharesTyped, PlacesOfBrowser, Jobs, ShareRecord, Published, Owns, Online, Ready, UnregisterStale, watchVars
<1>15. CASE UNCHANGED shareVars
  BY <1>15 DEF SharesTyped, PlacesOfBrowser, Jobs, ShareRecord, Published, Owns, Online, Ready, shareVars
<1> QED
  BY <1>1, <1>2, <1>3, <1>4, <1>5, <1>6, <1>7, <1>8, <1>9, <1>10, <1>11, <1>12, <1>13, <1>14, <1>15 DEF SharesNext

\* Every step keeps the viewers and their data in one period.
LEMMA PeriodsKept ==
  ASSUME SharesTyped, SharePeriods, ShareSessions, [SharesNext]_shareVars
  PROVE  SharePeriods'
<1>1. ASSUME NEW c \in Browsers, NEW visible \in BOOLEAN, NEW writable \in BOOLEAN, Publish(c, visible, writable) PROVE SharePeriods'
  <2>1. UNCHANGED <<joined, received>> /\ role[c] = "none"
        /\ \A d \in Browsers : role'[d] = role[d] \/ (d = c /\ role'[d] = "owner")
    BY <1>1 DEF SharesTyped, Publish
  <2>2. /\ \A d \in Browsers : DeliversShare(d) => job[d].to \subseteq Browsers
        /\ Published => share.viewers \subseteq Browsers
    BY DEF SharesTyped, Jobs, Published, ShareRecord
  <2>3. CASE UNCHANGED <<share, doing, job, period, permitted>>
    <3>1. share' = share /\ doing' = doing /\ job' = job /\ period' = period
          /\ \A d : DeliversShare(d)' <=> DeliversShare(d)
      BY <2>3 DEF DeliversShare
    <3> QED
      BY <2>1, <2>2, <3>1 DEF SharePeriods, Addressed, Published
  <2>4. CASE Goes(c, "registering", IF Published THEN {share.owner} ELSE {}, {})
             /\ share' = [owner |-> c, visible |-> visible, writable |-> writable,
                          viewers |-> {}, backlog |-> {}]
    <3>1. /\ doing'[c] = "registering"
          /\ \A d \in Browsers : d # c => doing'[d] = doing[d] /\ job'[d] = job[d]
      BY <2>4, GoesOn
    <3>2. \A d \in Browsers : DeliversShare(d)' => DeliversShare(d) /\ job'[d] = job[d]
      BY <3>1 DEF DeliversShare
    <3>3. share'.viewers = {} /\ share'.backlog = {}
      BY <2>4
    <3>4. Addressed'
      BY <3>1 DEF SharePeriods, Addressed
    <3> QED
      BY <2>1, <2>2, <3>2, <3>3, <3>4 DEF SharePeriods
  <2> QED
    BY <1>1, <2>3, <2>4 DEF Publish
<1>2. ASSUME NEW c \in Browsers, NEW visible \in BOOLEAN, NEW writable \in BOOLEAN, Update(c, visible, writable) PROVE SharePeriods'
  BY <1>2 DEF SharesTyped, SharePeriods, Addressed, DeliversShare, PlacesOfBrowser, Jobs, ShareRecord, Published, Owns, Online, Ready, Update, BacklogWhenPrivate
<1>3. ASSUME NEW c \in Browsers, RegisterShare(c) PROVE SharePeriods'
  BY <1>3 DEF SharesTyped, SharePeriods, Addressed, DeliversShare, PlacesOfBrowser, Jobs, ShareRecord, Published, Owns, Online, Ready, RegisterShare, Done, Goes, watchVars
<1>4. ASSUME NEW c \in Browsers, OwnerData(c) PROVE SharePeriods'
  BY <1>4 DEF SharesTyped, SharePeriods, Addressed, DeliversShare, PlacesOfBrowser, Jobs, ShareRecord, Published, Owns, Online, Ready, OwnerData, Goes, watchVars
<1>5. ASSUME NEW c \in Browsers, SendData(c) PROVE SharePeriods'
  BY <1>5 DEF SharesTyped, SharePeriods, Addressed, DeliversShare, PlacesOfBrowser, Jobs, ShareRecord, Published, Owns, Online, Ready, SendData, Done, Goes
<1>6. ASSUME NEW c \in Browsers, Subscribe(c) PROVE SharePeriods'
  <2>1. CASE UNCHANGED <<share, subscribed, doing, job, joined>>
    <3>1. UNCHANGED <<period, received>> /\ role[c] = "none"
          /\ \A d \in Browsers : role'[d] = role[d] \/ (d = c /\ role'[d] = "subscriber")
      BY <1>6 DEF SharesTyped, Subscribe
    <3>2. share' = share /\ doing' = doing /\ job' = job /\ joined' = joined
      BY <2>1
    <3>3. \A d : DeliversShare(d)' <=> DeliversShare(d)
      BY <3>2 DEF DeliversShare
    <3>4. \A d \in Browsers : DeliversShare(d) => job[d].to \subseteq Browsers
      BY DEF SharesTyped, Jobs
    <3>5. Published => share.viewers \subseteq Browsers
      BY DEF SharesTyped, Published, ShareRecord
    <3> QED
      BY <3>1, <3>2, <3>3, <3>4, <3>5 DEF SharePeriods, Addressed, Published
  <2>2. CASE /\ Published /\ share.visible /\ share' = [share EXCEPT !.viewers = @ \cup {c}]
             /\ joined' = [joined EXCEPT ![c] = period]
             /\ Goes(c, "answering", share.backlog, {c})
    <3>1. share \in ShareRecord /\ role[c] = "none" /\ period' = period /\ received' = received
      BY <1>6, <2>2 DEF SharesTyped, Published, Subscribe
    <3>2. share'.backlog = share.backlog /\ share'.visible = share.visible
          /\ share'.viewers = share.viewers \cup {c} /\ share.viewers \subseteq Browsers
      BY <2>2, <3>1 DEF ShareRecord
    <3>3. /\ doing'[c] = "answering" /\ job'[c].of = share.backlog /\ job'[c].to = {c}
          /\ \A d \in Browsers : d # c => doing'[d] = doing[d] /\ job'[d] = job[d]
      BY <2>2, GoesOn
    <3>4. /\ joined'[c] = period /\ role'[c] = "subscriber"
          /\ \A d \in Browsers : d # c => joined'[d] = joined[d] /\ role'[d] = role[d]
      BY <1>6, <2>2 DEF SharesTyped, Subscribe
    <3>5. Published /\ share.backlog \subseteq {period}
          /\ \A v \in share.viewers : joined[v] = period /\ role[v] = "subscriber"
      BY <2>2 DEF SharePeriods
    <3>6. Published' =>
            /\ share'.backlog \subseteq {period'}
            /\ \A v \in share'.viewers : joined'[v] = period' /\ role'[v] = "subscriber"
            /\ ~share'.visible => share'.backlog = {} /\ share'.viewers = {}
      BY <2>2, <3>1, <3>2, <3>4, <3>5
    <3>7. ASSUME NEW d \in Browsers, DeliversShare(d)'
          PROVE  \A v \in job'[d].to : job'[d].of \subseteq {joined'[v]} /\ role'[v] = "subscriber"
      <4>1. CASE d = c
        BY <4>1, <3>3, <3>4, <3>5
      <4>2. CASE d # c
        <5>1. DeliversShare(d) /\ job'[d] = job[d] /\ job[d].to \subseteq Browsers
          BY <3>3, <3>7, <4>2 DEF DeliversShare, SharesTyped, Jobs
        <5>2. \A v \in job[d].to :
                job[d].of \subseteq {joined[v]} /\ role[v] = "subscriber" /\ v \in Browsers /\ v # c
          BY <3>1, <5>1 DEF SharePeriods
        <5> QED
          BY <3>4, <5>1, <5>2
      <4> QED
        BY <4>1, <4>2
    <3>8. \A d \in Browsers :
            received'[d] \subseteq {joined'[d]} /\ (role'[d] = "none" => received'[d] = {})
      BY <3>1, <3>4 DEF SharePeriods
    <3>9. Addressed'
      BY <3>3 DEF SharePeriods, Addressed
    <3> QED
      BY <3>6, <3>7, <3>8, <3>9 DEF SharePeriods
  <2> QED
    BY <1>6, <2>1, <2>2 DEF Subscribe
<1>7. ASSUME NEW c \in Browsers, AnswerViewer(c) PROVE SharePeriods'
  <2>1. /\ doing'[c] = "idle"
        /\ \A d \in Browsers : d # c => doing'[d] = doing[d] /\ job'[d] = job[d]
    <3>1. Goes(c, "idle", {}, {})
      BY <1>7 DEF AnswerViewer, Done
    <3> QED
      BY <3>1, GoesOn
  <2>2. UNCHANGED <<share, role, period, joined>> /\ DeliversShare(c)
    BY <1>7 DEF AnswerViewer, DeliversShare
  <2>3. \A d \in Browsers : received'[d] = received[d] \/ (d = c /\ received'[d] = received[d] \cup job[c].of)
    BY <1>7 DEF AnswerViewer, SharesTyped
  <2>4. job[c].of \subseteq {joined[c]} /\ role[c] = "subscriber"
    BY <1>7, <2>2 DEF SharePeriods, Addressed, AnswerViewer
  <2> QED
    BY <2>1, <2>2, <2>3, <2>4 DEF SharePeriods, Addressed, DeliversShare, Published
<1>8. ASSUME NEW c \in Browsers, SubscriberWrite(c) PROVE SharePeriods'
  BY <1>8 DEF SharesTyped, SharePeriods, Addressed, DeliversShare, PlacesOfBrowser, Jobs, ShareRecord, Published, Owns, Online, Ready, SubscriberWrite, Goes, watchVars
<1>9. ASSUME NEW c \in Browsers, Forward(c) PROVE SharePeriods'
  BY <1>9 DEF SharesTyped, SharePeriods, Addressed, DeliversShare, PlacesOfBrowser, Jobs, ShareRecord, Published, Owns, Online, Ready, Forward, Addressee, Done, Goes
<1>10. ASSUME NEW c \in Browsers, LoseBrowser(c) PROVE SharePeriods'
  BY <1>10 DEF SharesTyped, SharePeriods, Addressed, DeliversShare, PlacesOfBrowser, Jobs, ShareRecord, Published, Owns, Online, Ready, LoseBrowser, watchVars
<1>11. ASSUME NEW c \in Browsers, HandleLost(c) PROVE SharePeriods'
  <2>1. UNCHANGED <<role, period, joined, received>>
    BY <1>11, LostShare DEF watchVars
  <2>2. \A d \in Browsers : DeliversShare(d)' => DeliversShare(d) /\ job'[d] = job[d]
    <3>1. CASE Goes(c, "unregistering", {c}, {})
      BY <3>1, GoesOn DEF DeliversShare
    <3>2. CASE doing' = doing /\ job' = job
      BY <3>2 DEF DeliversShare
    <3> QED
      BY <1>11, <3>1, <3>2, LostShare
  <2>3. Published' =>
          /\ Published /\ share'.backlog = share.backlog /\ share'.visible = share.visible
          /\ share'.viewers \subseteq share.viewers
    BY <1>11, LostShare DEF Published, ShareRecord
  <2>4. Addressed'
    <3>1. CASE Goes(c, "unregistering", {c}, {})
      BY <3>1, GoesOn DEF SharePeriods, Addressed
    <3>2. CASE doing' = doing /\ job' = job
      BY <3>2 DEF SharePeriods, Addressed
    <3> QED
      BY <1>11, <3>1, <3>2, LostShare
  <2> QED
    BY <2>1, <2>2, <2>3, <2>4 DEF SharePeriods
<1>12. ASSUME NEW c \in Browsers, Unregister(c) PROVE SharePeriods'
  BY <1>12 DEF SharesTyped, SharePeriods, Addressed, DeliversShare, PlacesOfBrowser, Jobs, ShareRecord, Published, Owns, Online, Ready, Unregister, Done, Goes, watchVars
<1>13. CASE ListShares
  BY <1>13 DEF SharesTyped, SharePeriods, Addressed, DeliversShare, PlacesOfBrowser, Jobs, ShareRecord, Published, Owns, Online, Ready, ListShares, watchVars
<1>14. CASE UnregisterStale
  BY <1>14 DEF SharesTyped, SharePeriods, Addressed, DeliversShare, PlacesOfBrowser, Jobs, ShareRecord, Published, Owns, Online, Ready, UnregisterStale, watchVars
<1>15. CASE UNCHANGED shareVars
  BY <1>15 DEF SharesTyped, SharePeriods, Addressed, DeliversShare, PlacesOfBrowser, Jobs, ShareRecord, Published, Owns, Online, Ready, shareVars
<1> QED
  BY <1>1, <1>2, <1>3, <1>4, <1>5, <1>6, <1>7, <1>8, <1>9, <1>10, <1>11, <1>12, <1>13, <1>14, <1>15 DEF SharesNext

\* Every step keeps input from owners that allowed none.
LEMMA WritesKept ==
  ASSUME SharesTyped, ShareWrites, [SharesNext]_shareVars
  PROVE  ShareWrites'
<1>1. ASSUME NEW c \in Browsers, NEW visible \in BOOLEAN, NEW writable \in BOOLEAN, Publish(c, visible, writable) PROVE ShareWrites'
  <2>1. CASE UNCHANGED <<share, doing, job, period, permitted>>
    BY <1>1, <2>1 DEF ShareWrites, Published, Publish
  <2>2. CASE Goes(c, "registering", IF Published THEN {share.owner} ELSE {}, {})
             /\ share' = [owner |-> c, visible |-> visible, writable |-> writable,
                          viewers |-> {}, backlog |-> {}]
             /\ permitted' = IF writable THEN permitted \cup {c} ELSE permitted
    <3>1. (IF Published THEN {share.owner} ELSE {}) \in SUBSET (Browsers \cup Nat)
      BY DEF SharesTyped, Published, ShareRecord
    <3>2. /\ doing'[c] = "registering"
          /\ \A d \in Browsers : d # c => doing'[d] = doing[d] /\ job'[d] = job[d]
      BY <2>2, GoesOn
    <3>3. share'.owner = c /\ share'.writable = writable /\ heard' = heard
      BY <1>1, <2>2 DEF Publish
    <3> QED
      BY <2>2, <3>2, <3>3 DEF ShareWrites
  <2> QED
    BY <1>1, <2>1, <2>2 DEF Publish
<1>2. ASSUME NEW c \in Browsers, NEW visible \in BOOLEAN, NEW writable \in BOOLEAN, Update(c, visible, writable) PROVE ShareWrites'
  BY <1>2 DEF SharesTyped, ShareWrites, PlacesOfBrowser, Jobs, ShareRecord, Published, Owns, Online, Ready, Update, BacklogWhenPrivate
<1>3. ASSUME NEW c \in Browsers, RegisterShare(c) PROVE ShareWrites'
  BY <1>3 DEF SharesTyped, ShareWrites, PlacesOfBrowser, Jobs, ShareRecord, Published, Owns, Online, Ready, RegisterShare, Done, Goes, watchVars
<1>4. ASSUME NEW c \in Browsers, OwnerData(c) PROVE ShareWrites'
  BY <1>4 DEF SharesTyped, ShareWrites, PlacesOfBrowser, Jobs, ShareRecord, Published, Owns, Online, Ready, OwnerData, Goes, watchVars
<1>5. ASSUME NEW c \in Browsers, SendData(c) PROVE ShareWrites'
  BY <1>5 DEF SharesTyped, ShareWrites, PlacesOfBrowser, Jobs, ShareRecord, Published, Owns, Online, Ready, SendData, Done, Goes
<1>6. ASSUME NEW c \in Browsers, Subscribe(c) PROVE ShareWrites'
  <2>1. heard' = heard /\ permitted' = permitted
    BY <1>6 DEF Subscribe
  <2>2. CASE UNCHANGED <<share, doing, job>>
    BY <2>1, <2>2 DEF ShareWrites, Published
  <2>3. CASE Published /\ share' = [share EXCEPT !.viewers = @ \cup {c}]
             /\ Goes(c, "answering", share.backlog, {c})
    <3>1. share'.owner = share.owner /\ share'.writable = share.writable
      BY <2>3 DEF SharesTyped, Published, ShareRecord
    <3>2. /\ doing'[c] = "answering"
          /\ \A d \in Browsers : d # c => doing'[d] = doing[d] /\ job'[d] = job[d]
      BY <2>3, GoesOn
    <3> QED
      BY <2>1, <2>3, <3>1, <3>2 DEF ShareWrites
  <2> QED
    BY <1>6, <2>2, <2>3 DEF Subscribe
<1>7. ASSUME NEW c \in Browsers, AnswerViewer(c) PROVE ShareWrites'
  BY <1>7 DEF SharesTyped, ShareWrites, PlacesOfBrowser, Jobs, ShareRecord, Published, Owns, Online, Ready, AnswerViewer, Done, Goes
<1>8. ASSUME NEW c \in Browsers, SubscriberWrite(c) PROVE ShareWrites'
  BY <1>8 DEF SharesTyped, ShareWrites, PlacesOfBrowser, Jobs, ShareRecord, Published, Owns, Online, Ready, SubscriberWrite, Goes, watchVars
<1>9. ASSUME NEW c \in Browsers, Forward(c) PROVE ShareWrites'
  BY <1>9 DEF SharesTyped, ShareWrites, PlacesOfBrowser, Jobs, ShareRecord, Published, Owns, Online, Ready, Forward, Addressee, Done, Goes
<1>10. ASSUME NEW c \in Browsers, LoseBrowser(c) PROVE ShareWrites'
  BY <1>10 DEF SharesTyped, ShareWrites, PlacesOfBrowser, Jobs, ShareRecord, Published, Owns, Online, Ready, LoseBrowser, watchVars
<1>11. ASSUME NEW c \in Browsers, HandleLost(c) PROVE ShareWrites'
  <2>1. heard' = heard /\ permitted' = permitted
    BY <1>11 DEF HandleLost, watchVars
  <2>2. CASE Unpublish(c)
    <3>1. /\ doing'[c] = "unregistering"
          /\ \A d \in Browsers : d # c => doing'[d] = doing[d] /\ job'[d] = job[d]
      BY <2>2, GoesOn DEF Unpublish
    <3>2. ~Published'
      BY <2>2 DEF Unpublish, Published
    <3> QED
      BY <2>1, <3>1, <3>2 DEF ShareWrites
  <2>3. CASE DetachBrowser(c)
    <3>1. UNCHANGED <<doing, job>> /\ (Published' => Published)
      BY <2>3 DEF DetachBrowser, Published
    <3>2. Published => share'.owner = share.owner /\ share'.writable = share.writable
      BY <2>3 DEF DetachBrowser, Published, SharesTyped, ShareRecord
    <3> QED
      BY <2>1, <3>1, <3>2 DEF ShareWrites
  <2> QED
    BY <1>11, <2>2, <2>3 DEF HandleLost
<1>12. ASSUME NEW c \in Browsers, Unregister(c) PROVE ShareWrites'
  BY <1>12 DEF SharesTyped, ShareWrites, PlacesOfBrowser, Jobs, ShareRecord, Published, Owns, Online, Ready, Unregister, Done, Goes, watchVars
<1>13. CASE ListShares
  BY <1>13 DEF SharesTyped, ShareWrites, PlacesOfBrowser, Jobs, ShareRecord, Published, Owns, Online, Ready, ListShares, watchVars
<1>14. CASE UnregisterStale
  BY <1>14 DEF SharesTyped, ShareWrites, PlacesOfBrowser, Jobs, ShareRecord, Published, Owns, Online, Ready, UnregisterStale, watchVars
<1>15. CASE UNCHANGED shareVars
  BY <1>15 DEF SharesTyped, ShareWrites, PlacesOfBrowser, Jobs, ShareRecord, Published, Owns, Online, Ready, shareVars
<1> QED
  BY <1>1, <1>2, <1>3, <1>4, <1>5, <1>6, <1>7, <1>8, <1>9, <1>10, <1>11, <1>12, <1>13, <1>14, <1>15 DEF SharesNext

\* Every step keeps the session of an owner registered.
LEMMA SessionsKept ==
  ASSUME SharesTyped, ShareSessions, [SharesNext]_shareVars
  PROVE  ShareSessions'
<1>1. ASSUME NEW c \in Browsers, NEW visible \in BOOLEAN, NEW writable \in BOOLEAN, Publish(c, visible, writable) PROVE ShareSessions'
  BY <1>1 DEF SharesTyped, ShareSessions, Former, Unregisters, PlacesOfBrowser, Jobs, ShareRecord, Published, Owns, Online, Ready, Publish, Goes
<1>2. ASSUME NEW c \in Browsers, NEW visible \in BOOLEAN, NEW writable \in BOOLEAN, Update(c, visible, writable) PROVE ShareSessions'
  BY <1>2 DEF SharesTyped, ShareSessions, Former, Unregisters, PlacesOfBrowser, Jobs, ShareRecord, Published, Owns, Online, Ready, Update, BacklogWhenPrivate
<1>3. ASSUME NEW c \in Browsers, RegisterShare(c) PROVE ShareSessions'
  BY <1>3 DEF SharesTyped, ShareSessions, Former, Unregisters, PlacesOfBrowser, Jobs, ShareRecord, Published, Owns, Online, Ready, RegisterShare, Done, Goes, watchVars
<1>4. ASSUME NEW c \in Browsers, OwnerData(c) PROVE ShareSessions'
  <2>1. /\ UNCHANGED <<role, stale, plugins>>
        /\ Goes(c, "sending", {period}, {v \in share.viewers : Online(v)})
        /\ doing[c] = "idle" /\ Published
    BY <1>4 DEF OwnerData, Ready, Owns
  <2>2. share'.owner = share.owner
    BY <1>4, <2>1 DEF OwnerData, Published, SharesTyped, ShareRecord
  <2>3. /\ doing'[c] = "sending"
        /\ \A d \in Browsers : d # c => doing'[d] = doing[d] /\ job'[d] = job[d]
    BY <2>1, GoesOn
  <2>4. \A b : Former(b) => Former(b)'
    BY <2>1, <2>2 DEF Former, Owns
  <2>5. doing'[share.owner] # "registering" => doing[share.owner] # "registering"
    BY <2>1, <2>3 DEF SharesTyped, Published, ShareRecord
  <2> QED
    BY <2>1, <2>2, <2>3, <2>4, <2>5 DEF ShareSessions, Unregisters
<1>5. ASSUME NEW c \in Browsers, SendData(c) PROVE ShareSessions'
  BY <1>5 DEF SharesTyped, ShareSessions, Former, Unregisters, PlacesOfBrowser, Jobs, ShareRecord, Published, Owns, Online, Ready, SendData, Done, Goes
<1>6. ASSUME NEW c \in Browsers, Subscribe(c) PROVE ShareSessions'
  BY <1>6 DEF SharesTyped, ShareSessions, Former, Unregisters, PlacesOfBrowser, Jobs, ShareRecord, Published, Owns, Online, Ready, Subscribe, Goes
<1>7. ASSUME NEW c \in Browsers, AnswerViewer(c) PROVE ShareSessions'
  BY <1>7 DEF SharesTyped, ShareSessions, Former, Unregisters, PlacesOfBrowser, Jobs, ShareRecord, Published, Owns, Online, Ready, AnswerViewer, Done, Goes
<1>8. ASSUME NEW c \in Browsers, SubscriberWrite(c) PROVE ShareSessions'
  BY <1>8 DEF SharesTyped, ShareSessions, Former, Unregisters, PlacesOfBrowser, Jobs, ShareRecord, Published, Owns, Online, Ready, SubscriberWrite, Goes, watchVars
<1>9. ASSUME NEW c \in Browsers, Forward(c) PROVE ShareSessions'
  BY <1>9 DEF SharesTyped, ShareSessions, Former, Unregisters, PlacesOfBrowser, Jobs, ShareRecord, Published, Owns, Online, Ready, Forward, Addressee, Done, Goes
<1>10. ASSUME NEW c \in Browsers, LoseBrowser(c) PROVE ShareSessions'
  BY <1>10 DEF SharesTyped, ShareSessions, Former, Unregisters, PlacesOfBrowser, Jobs, ShareRecord, Published, Owns, Online, Ready, LoseBrowser, watchVars
<1>11. ASSUME NEW c \in Browsers, HandleLost(c) PROVE ShareSessions'
  <2>1. UNCHANGED <<role, stale, plugins>>
    BY <1>11, LostShare DEF watchVars
  <2>2. Published' => Published /\ share'.owner = share.owner /\ doing' = doing
    BY <1>11, LostShare DEF Published, ShareRecord
  <2>3. \A b : Former(b) => Former(b)'
    BY <2>1, <2>2 DEF Former, Owns
  <2>4. ASSUME NEW d \in Browsers, Unregisters(d)' PROVE \A b \in job'[d].of : Former(b)'
    <3>1. CASE doing' = doing /\ job' = job
      BY <2>3, <2>4, <3>1 DEF ShareSessions, Unregisters
    <3>2. CASE share' = Nobody /\ Goes(c, "unregistering", {c}, {}) /\ role[c] = "owner"
      <4>1. job'[c].of = {c} /\ (d # c => doing'[d] = doing[d] /\ job'[d] = job[d])
        BY <3>2, GoesOn
      <4>2. Former(c)'
        BY <2>1, <3>2 DEF Former, Owns, Published
      <4> QED
        BY <2>3, <2>4, <4>1, <4>2 DEF ShareSessions, Unregisters
    <3> QED
      BY <1>11, <3>1, <3>2, LostShare
  <2> QED
    BY <2>1, <2>2, <2>3, <2>4 DEF ShareSessions
<1>12. ASSUME NEW c \in Browsers, Unregister(c) PROVE ShareSessions'
  BY <1>12 DEF SharesTyped, ShareSessions, Former, Unregisters, PlacesOfBrowser, Jobs, ShareRecord, Published, Owns, Online, Ready, Unregister, Done, Goes, watchVars
<1>13. CASE ListShares
  BY <1>13 DEF SharesTyped, ShareSessions, Former, Unregisters, PlacesOfBrowser, Jobs, ShareRecord, Published, Owns, Online, Ready, ListShares, watchVars
<1>14. CASE UnregisterStale
  BY <1>14 DEF SharesTyped, ShareSessions, Former, Unregisters, PlacesOfBrowser, Jobs, ShareRecord, Published, Owns, Online, Ready, UnregisterStale, watchVars
<1>15. CASE UNCHANGED shareVars
  BY <1>15 DEF SharesTyped, ShareSessions, Former, Unregisters, PlacesOfBrowser, Jobs, ShareRecord, Published, Owns, Online, Ready, shareVars
<1> QED
  BY <1>1, <1>2, <1>3, <1>4, <1>5, <1>6, <1>7, <1>8, <1>9, <1>10, <1>11, <1>12, <1>13, <1>14, <1>15 DEF SharesNext

\* What was read in one sharing reaches its viewers only, what they write
\* reaches an owner that allowed it, and the plugins know the share.
THEOREM SharesPromise == SharesSpec => []SharesAreKeptApart
<1>1. BInv /\ [SharesNext]_shareVars => BInv'
  BY TypesKept, PeriodsKept, WritesKept, SessionsKept DEF BInv
<1>2. BInv => SharesAreKeptApart
  BY DEF BInv, SharesTyped, SharePeriods, ShareWrites, ShareSessions, SharesAreKeptApart, OnePeriodPerViewer,
    ReadOnlyOwnerHearsNothing, ShareKnownToPlugins
<1> QED
  BY <1>1, <1>2, SharesStart, PTL DEF SharesSpec

-----------------------------------------------------------------------------
(* The types of the shares: the connections with an entry are more than the *)
(* viewers, and no viewer is ahead of the period.                           *)

SharesBounded ==
  /\ subscribed \subseteq Browsers /\ plugins \subseteq Browsers
  /\ permitted \subseteq Browsers /\ heard \subseteq Browsers
  /\ period <= MaxPeriods
  /\ \A c \in Browsers : joined[c] <= period
  /\ Published => share.viewers \subseteq subscribed

LEMMA SharesBoundedKept ==
  ASSUME SharesTyped, SharesBounded, [SharesNext]_shareVars
  PROVE  SharesBounded'
<1>0. /\ period \in Nat /\ MaxPeriods \in Nat /\ joined \in [Browsers -> Nat]
      /\ Published => share \in ShareRecord
  BY PeriodsAssumption DEF SharesTyped, Published
<1>1. ASSUME NEW c \in Browsers, NEW visible \in BOOLEAN, NEW writable \in BOOLEAN, Publish(c, visible, writable)
      PROVE  SharesBounded'
  <2>1. /\ period < MaxPeriods /\ subscribed' = subscribed /\ plugins' = plugins
        /\ heard' = heard /\ joined' = joined
    BY <1>1 DEF Publish
  <2>2. /\ permitted' \subseteq Browsers /\ period' \in {period, period + 1}
        /\ share' = share \/ share'.viewers = {}
    BY <1>1 DEF Publish, SharesBounded
  <2>3. period' <= MaxPeriods /\ \A d \in Browsers : joined[d] <= period'
    BY <1>0, <2>1, <2>2 DEF SharesBounded
  <2> QED
    BY <2>1, <2>2, <2>3 DEF SharesBounded, Published
<1>2. ASSUME NEW c \in Browsers, NEW visible \in BOOLEAN, NEW writable \in BOOLEAN, Update(c, visible, writable)
      PROVE  SharesBounded'
  <2>1. /\ Published /\ share \in ShareRecord /\ plugins' = plugins /\ heard' = heard /\ joined' = joined
    BY <1>0, <1>2 DEF Update, Owns
  <2>2. /\ permitted' \subseteq Browsers /\ period' \in {period, period + 1}
        /\ period' # period => period < MaxPeriods
    BY <1>2 DEF Update, SharesBounded
  <2>3. period' <= MaxPeriods /\ \A d \in Browsers : joined[d] <= period'
    BY <1>0, <2>1, <2>2 DEF SharesBounded
  <2>4. subscribed' \subseteq Browsers /\ share'.viewers \subseteq subscribed'
    BY <1>2, <2>1 DEF Update, SharesBounded, ShareRecord
  <2> QED
    BY <2>1, <2>2, <2>3, <2>4 DEF SharesBounded
<1>3. ASSUME NEW c \in Browsers, RegisterShare(c) \/ Unregister(c) PROVE SharesBounded'
  BY <1>3 DEF RegisterShare, Unregister, SharesBounded, Published, watchVars
<1>4. ASSUME NEW c \in Browsers, OwnerData(c) PROVE SharesBounded'
  <2>1. Published /\ share \in ShareRecord /\ UNCHANGED <<plugins, permitted, heard, period, joined>>
    BY <1>0, <1>4 DEF OwnerData, Owns, watchVars
  <2>2. subscribed' \subseteq Browsers /\ share'.viewers \subseteq subscribed'
    BY <1>4, <2>1 DEF OwnerData, SharesBounded, ShareRecord
  <2> QED
    BY <2>1, <2>2 DEF SharesBounded
<1>5. ASSUME NEW c \in Browsers, Subscribe(c) PROVE SharesBounded'
  <2>1. UNCHANGED <<plugins, permitted, heard, period>>
    BY <1>5 DEF Subscribe
  <2>2. \A d \in Browsers : joined'[d] <= period
    BY <1>0, <1>5 DEF Subscribe, SharesBounded
  <2>3. subscribed' \subseteq Browsers /\ (Published' => share'.viewers \subseteq subscribed')
    <3>1. CASE UNCHANGED <<share, subscribed>>
      BY <3>1 DEF SharesBounded, Published
    <3>2. CASE /\ Published /\ share' = [share EXCEPT !.viewers = @ \cup {c}]
               /\ subscribed' = subscribed \cup {c}
      BY <1>0, <3>2 DEF SharesBounded, ShareRecord
    <3> QED
      BY <1>5, <3>1, <3>2 DEF Subscribe
  <2> QED
    BY <2>1, <2>2, <2>3 DEF SharesBounded
<1>6. ASSUME NEW c \in Browsers, Forward(c) PROVE SharesBounded'
  <2>1. job[c].to \subseteq Browsers
    BY DEF SharesTyped, Jobs
  <2> QED
    BY <1>6, <2>1 DEF Forward, Addressee, SharesBounded, Published
<1>7. ASSUME NEW c \in Browsers, HandleLost(c) PROVE SharesBounded'
  <2>1. UNCHANGED <<plugins, permitted, heard, period, joined>>
    BY <1>7 DEF HandleLost, watchVars
  <2>2. subscribed' \subseteq Browsers
    BY <1>7 DEF HandleLost, Unpublish, DetachBrowser, SharesBounded
  <2>3. Published' => share'.viewers \subseteq subscribed'
    BY <1>0, <1>7 DEF HandleLost, Unpublish, DetachBrowser, SharesBounded, Published, ShareRecord
  <2> QED
    BY <2>1, <2>2, <2>3 DEF SharesBounded
<1>8. CASE ListShares
  BY <1>8 DEF ListShares, SharesBounded, Published, watchVars
<1>9. CASE UnregisterStale
  BY <1>9 DEF UnregisterStale, SharesBounded, Published, watchVars
<1>10. ASSUME NEW c \in Browsers,
              SendData(c) \/ AnswerViewer(c) \/ SubscriberWrite(c) \/ LoseBrowser(c)
       PROVE  SharesBounded'
  BY <1>10 DEF SendData, AnswerViewer, SubscriberWrite, LoseBrowser, SharesBounded, Published, watchVars
<1>11. CASE UNCHANGED shareVars
  BY <1>11 DEF shareVars, SharesBounded, Published
<1> QED
  BY <1>1, <1>2, <1>3, <1>4, <1>5, <1>6, <1>7, <1>8, <1>9, <1>10, <1>11 DEF SharesNext

LEMMA SharesTypesHold ==
  ASSUME BInv, SharesBounded
  PROVE  SharesTypeOK
<1>0. SharesTyped /\ SharePeriods
  BY DEF BInv
<1>1. period \in 0 .. MaxPeriods /\ joined \in [Browsers -> 0 .. MaxPeriods]
  <2>1. /\ period \in Nat /\ MaxPeriods \in Nat /\ joined \in [Browsers -> Nat]
        /\ period <= MaxPeriods /\ \A c \in Browsers : joined[c] <= period
    BY <1>0, PeriodsAssumption DEF SharesTyped, SharesBounded
  <2>2. \A c \in Browsers : joined[c] \in 0 .. MaxPeriods
    BY <2>1
  <2> QED
    BY <2>1, <2>2
<1>2. received \in [Browsers -> SUBSET (0 .. MaxPeriods)]
  <2>1. \A c \in Browsers : received[c] \subseteq {joined[c]}
    BY <1>0 DEF SharePeriods
  <2> QED
    BY <1>0, <1>1, <2>1 DEF SharesTyped
<1>3. share \in Share \cup {Nobody}
  <2>1. CASE Published
    <3>1. share \in ShareRecord /\ share.backlog \subseteq {period}
      BY <1>0, <2>1 DEF SharesTyped, SharePeriods, Published
    <3>2. share.backlog \in SUBSET (0 .. MaxPeriods)
      BY <1>1, <3>1
    <3> QED
      BY <3>1, <3>2 DEF ShareRecord, Share
  <2> QED
    BY <2>1 DEF Published
<1>4. \A c \in Browsers : job[c].to \subseteq Browsers
  BY <1>0 DEF SharesTyped, Jobs
<1> QED
  BY <1>0, <1>1, <1>2, <1>3, <1>4 DEF SharesTyped, SharesBounded, SharesTypeOK, PlacesOfBrowser

LEMMA SharesTypes == SharesSpec => []SharesTypeOK
<1>1. SharesInit => SharesBounded
  BY PeriodsAssumption DEF SharesInit, SharesBounded, Published
<1>2. BInv /\ [SharesNext]_shareVars => BInv'
  BY TypesKept, PeriodsKept, WritesKept, SessionsKept DEF BInv
<1>3. BInv /\ SharesBounded /\ [SharesNext]_shareVars => SharesBounded'
  BY SharesBoundedKept DEF BInv
<1>4. BInv /\ SharesBounded => SharesTypeOK
  BY SharesTypesHold
<1> QED
  BY <1>1, <1>2, <1>3, <1>4, SharesStart, PTL DEF SharesSpec

-----------------------------------------------------------------------------
(* Delta transfer                                                          *)
(*                                                                         *)
(* What becomes of the destination of files that are sent to the transfer  *)
(* server, for files of any length and contents.  From the test of the     *)
(* destination to the renaming, HandleFile holds the destination's mutex   *)
(* (HoldsDestination), so nothing can have put a file there that the test  *)
(* did not see; and a client hashes its file before it asks, so the hash   *)
(* the server verified is the one the client keeps (HashedFirst).          *)

\* The state of the clients and the workers is one function each.
DeltaShape ==
  /\ DOMAIN worker = Clients /\ DOMAIN temporary = Clients /\ DOMAIN wire = Clients
  /\ DOMAIN client = Clients /\ DOMAIN fullHash = Clients

HashedFirst(c) ==
  client[c] \in {"new", "signed"} => worker[c] = "waiting" /\ wire[c] \in {Silence, Closed}

HoldsDestination(c) ==
  worker[c] \in {"scanning", "receiving", "renaming"} =>
    destinationLock = c /\ (overwrite \/ destination = NoFile)

HashChecked(c) == worker[c] = "renaming" => temporary[c] = fullHash[c]

DInv == DeltaShape /\ \A c \in Clients : HashedFirst(c) /\ HoldsDestination(c) /\ HashChecked(c)

\* A step of c leaves the other clients and their workers alone.
OthersRest(c) ==
  \A d \in Clients : d # c =>
    /\ worker'[d] = worker[d] /\ temporary'[d] = temporary[d] /\ wire'[d] = wire[d]
    /\ client'[d] = client[d] /\ fullHash'[d] = fullHash[d]

-----------------------------------------------------------------------------
\* The first state: every client is new and no worker has begun.
LEMMA DeltaStarts == DeltaInit => DInv
BY DEF DeltaInit, DInv, DeltaShape, HashedFirst, HoldsDestination, HashChecked

\* Steps that touch neither the destination nor its mutex keep what is known
\* of the other clients.
LEMMA OthersKeep ==
  ASSUME DInv, NEW c \in Clients, OthersRest(c),
         destination' = destination, destinationLock' = destinationLock, overwrite' = overwrite,
         NEW d \in Clients, d # c
  PROVE  HashedFirst(d)' /\ HoldsDestination(d)' /\ HashChecked(d)'
BY DEF DInv, OthersRest, HashedFirst, HoldsDestination, HashChecked

\* A step of a client, which leaves its worker alone.
LEMMA ClientKeeps ==
  ASSUME DInv, NEW c \in Clients,
         \/ BuildSignatures(c) \/ StartFile(c) \/ TakePlan(c) \/ TakeAck(c)
         \/ SendChunk(c) \/ EndStream(c)
         \/ \E n \in 0 .. Cardinality(missing[c]) : SendFrame(c, n)
         \/ Commit(c) \/ TakeResult(c) \/ FailTransfer(c)
  PROVE  DInv' /\ destination' = destination
<1>1. /\ worker' = worker /\ temporary' = temporary /\ destinationLock' = destinationLock
      /\ destination' = destination /\ overwrite' = overwrite
  BY DEF BuildSignatures, StartFile, TakePlan, TakeAck, SendChunk, EndStream, SendFrame, Commit,
    TakeResult, FailTransfer, workerVars, fileVars, clientVars
<1>2. DeltaShape' /\ OthersRest(c)
  BY <1>1 DEF DInv, DeltaShape, OthersRest, BuildSignatures, StartFile, TakePlan, TakeAck, SendChunk,
    EndStream, SendFrame, Sends, Commit, TakeResult, FailTransfer, Says, clientVars
<1>3. HashedFirst(c)'
  BY <1>1 DEF DInv, DeltaShape, HashedFirst, BuildSignatures, StartFile, TakePlan, TakeAck, SendChunk,
    EndStream, SendFrame, Sends, Commit, TakeResult, FailTransfer, Says, clientVars
<1>4. HoldsDestination(c)'
  BY <1>1 DEF DInv, HoldsDestination
<1>5. HashChecked(c)'
  \* Only StartFile changes the hash, and then the worker is waiting.
  <2>1. CASE StartFile(c)
    BY <2>1, <1>1 DEF DInv, HashedFirst, HashChecked, StartFile
  <2>2. CASE fullHash' = fullHash
    BY <2>2, <1>1 DEF DInv, HashChecked
  <2> QED
    BY <2>1, <2>2 DEF BuildSignatures, TakePlan, TakeAck, SendChunk, EndStream, SendFrame, Commit,
      TakeResult, FailTransfer, clientVars
<1> QED
  BY <1>1, <1>2, <1>3, <1>4, <1>5, OthersKeep DEF DInv

\* The end of HandleFile, in whatever state the connection is.
LEMMA LeaveKeeps ==
  ASSUME DInv, NEW c \in Clients, NEW answer, Leave(c, answer), UNCHANGED <<overwrite, clientVars>>,
         client[c] \notin {"new", "signed"},
         destinationLock = c \/ destination' = destination
  PROVE  DInv'
<1>1. DeltaShape' /\ OthersRest(c) /\ worker'[c] = "left"
  BY DEF DInv, DeltaShape, OthersRest, Leave, Says, clientVars
<1>2. HashedFirst(c)' /\ HoldsDestination(c)' /\ HashChecked(c)'
  BY <1>1 DEF HashedFirst, HoldsDestination, HashChecked, clientVars
<1>3. ASSUME NEW d \in Clients, d # c PROVE HashedFirst(d)' /\ HoldsDestination(d)' /\ HashChecked(d)'
  BY <1>1, <1>3 DEF DInv, OthersRest, HashedFirst, HoldsDestination, HashChecked, Leave
<1> QED
  BY <1>1, <1>2, <1>3 DEF DInv

\* A step of a worker.
LEMMA DeltaWorkerKeeps ==
  ASSUME DInv, NEW c \in Clients,
         \/ LockDestination(c) \/ Scan(c) \/ ReceiveChunk(c) \/ ReceiveFrame(c)
         \/ ReceiveStreamEnd(c) \/ ReceiveCommit(c) \/ Rename(c) \/ AbandonTransfer(c)
  PROVE  DInv'
<1>0. /\ UNCHANGED <<overwrite, clientVars>> /\ client' = client /\ fullHash' = fullHash
      /\ overwrite' = overwrite
  BY DEF LockDestination, Scan, ReceiveChunk, ReceiveFrame, ReceiveStreamEnd, ReceiveCommit, Rename,
    AbandonTransfer, TakeData, fileVars, clientVars
<1>1. client[c] \notin {"new", "signed"}
  BY DEF DInv, HashedFirst, Message, Silence, Closed, LockDestination, Scan, ReceiveChunk, ReceiveFrame,
    ReceiveStreamEnd, ReceiveCommit, Rename, AbandonTransfer
<1>2. ASSUME LockDestination(c) PROVE DInv'
  <2>1. CASE Leave(c, [type |-> "error"])
    BY <2>1, <1>0, <1>1, <1>2, LeaveKeeps DEF LockDestination
  <2>2. CASE ~Leave(c, [type |-> "error"])
    <3>1. /\ destinationLock = Nothing /\ destinationLock' = c /\ destination' = destination
          /\ overwrite \/ destination = NoFile
          /\ worker' = [worker EXCEPT ![c] = "scanning"] /\ wire' = wire
          /\ temporary' = [temporary EXCEPT ![c] = [i \in Numbers |-> Zeros]]
      BY <2>2, <1>2 DEF LockDestination, DestinationFree
    <3>2. DeltaShape' /\ OthersRest(c) /\ worker'[c] = "scanning"
      BY <3>1, <1>0 DEF DInv, DeltaShape, OthersRest
    <3>3. HashedFirst(c)' /\ HoldsDestination(c)' /\ HashChecked(c)'
      BY <3>1, <3>2, <1>0, <1>1 DEF HashedFirst, HoldsDestination, HashChecked
    <3>4. ASSUME NEW d \in Clients, d # c PROVE HashedFirst(d)' /\ HoldsDestination(d)' /\ HashChecked(d)'
      BY <3>1, <3>2, <3>4, DeltaAssumption DEF DInv, OthersRest, HashedFirst, HoldsDestination, HashChecked
    <3> QED
      BY <3>2, <3>3, <3>4 DEF DInv
  <2> QED
    BY <2>1, <2>2
<1>3. ASSUME Scan(c) PROVE DInv'
  <2>1. /\ destination' = destination /\ destinationLock' = destinationLock
        /\ worker[c] = "scanning" /\ worker' = [worker EXCEPT ![c] = "receiving"]
        /\ \E f : temporary' = [temporary EXCEPT ![c] = f]
        /\ \E m : wire' = [wire EXCEPT ![c] = m]
    BY <1>3 DEF Scan, Says
  <2>2. DeltaShape' /\ OthersRest(c) /\ worker'[c] = "receiving"
    BY <2>1, <1>0 DEF DInv, DeltaShape, OthersRest
  <2>3. HashedFirst(c)' /\ HoldsDestination(c)' /\ HashChecked(c)'
    BY <2>1, <2>2, <1>0, <1>1 DEF DInv, HashedFirst, HoldsDestination, HashChecked
  <2> QED
    BY <2>1, <2>2, <2>3, <1>0, OthersKeep DEF DInv
<1>4. ASSUME NEW good, TakeData(c, good), worker[c] = "receiving" PROVE DInv'
  <2>1. CASE Leave(c, [type |-> "error"])
    BY <2>1, <1>0, <1>1, <1>4, LeaveKeeps DEF TakeData
  <2>2. CASE ~Leave(c, [type |-> "error"])
    <3>1. /\ destination' = destination /\ destinationLock' = destinationLock /\ worker' = worker
          /\ \E f : temporary' = [temporary EXCEPT ![c] = f]
          /\ \E m : wire' = [wire EXCEPT ![c] = m]
      BY <2>2, <1>4 DEF TakeData, Says
    <3>2. DeltaShape' /\ OthersRest(c)
      BY <3>1, <1>0 DEF DInv, DeltaShape, OthersRest
    <3>3. HashedFirst(c)' /\ HoldsDestination(c)' /\ HashChecked(c)'
      BY <3>1, <1>0, <1>1, <1>4 DEF DInv, HashedFirst, HoldsDestination, HashChecked
    <3> QED
      BY <3>1, <3>2, <3>3, <1>0, OthersKeep DEF DInv
  <2> QED
    BY <2>1, <2>2
<1>5. ASSUME ReceiveCommit(c) PROVE DInv'
  <2>1. CASE Leave(c, [type |-> "error"])
    BY <2>1, <1>0, <1>1, <1>5, LeaveKeeps DEF ReceiveCommit
  <2>2. CASE ~Leave(c, [type |-> "error"])
    <3>1. /\ destination' = destination /\ destinationLock' = destinationLock
          /\ worker[c] = "receiving" /\ worker' = [worker EXCEPT ![c] = "renaming"]
          /\ temporary' = temporary /\ wire' = wire /\ temporary[c] = fullHash[c]
      BY <2>2, <1>5 DEF ReceiveCommit, Verified
    <3>2. DeltaShape' /\ OthersRest(c) /\ worker'[c] = "renaming"
      BY <3>1, <1>0 DEF DInv, DeltaShape, OthersRest
    <3>3. HashedFirst(c)' /\ HoldsDestination(c)' /\ HashChecked(c)'
      BY <3>1, <3>2, <1>0, <1>1 DEF DInv, HashedFirst, HoldsDestination, HashChecked
    <3> QED
      BY <3>1, <3>2, <3>3, <1>0, OthersKeep DEF DInv
  <2> QED
    BY <2>1, <2>2
<1>6. ASSUME Rename(c) PROVE DInv'
  BY <1>6, <1>0, <1>1, LeaveKeeps DEF Rename, DInv, HoldsDestination
<1>7. ASSUME AbandonTransfer(c) PROVE DInv'
  BY <1>7, <1>0, <1>1, LeaveKeeps DEF AbandonTransfer
<1> QED
  BY <1>2, <1>3, <1>4, <1>5, <1>6, <1>7 DEF ReceiveChunk, ReceiveFrame, ReceiveStreamEnd

\* A change of a client's file, or the end of a connection.
LEMMA WorldKeeps ==
  ASSUME DInv, NEW c \in Clients, EditSource(c) \/ BreakConnection(c)
  PROVE  DInv' /\ destination' = destination
BY DEF DInv, DeltaShape, HashedFirst, HoldsDestination, HashChecked, EditSource, BreakConnection, clientVars, workerVars,
  fileVars

\* Any step.
LEMMA DeltaKeeps == DInv /\ [DeltaNext]_deltaVars => DInv'
<1> SUFFICES ASSUME DInv, [DeltaNext]_deltaVars PROVE DInv'
  OBVIOUS
<1>1. CASE UNCHANGED deltaVars
  BY <1>1 DEF deltaVars, DInv, DeltaShape, HashedFirst, HoldsDestination, HashChecked
<1>2. CASE DeltaNext
  BY <1>2, ClientKeeps, DeltaWorkerKeeps, WorldKeeps DEF DeltaNext
<1> QED
  BY <1>1, <1>2

\* Only Rename gives the destination another file.
LEMMA OnlyRenameWrites ==
  ASSUME DInv, DeltaNext, destination' # destination
  PROVE  \E c \in Clients : Rename(c)
<1>1. PICK c \in Clients :
        \/ BuildSignatures(c) \/ StartFile(c) \/ TakePlan(c) \/ TakeAck(c)
        \/ SendChunk(c) \/ EndStream(c)
        \/ \E n \in 0 .. Cardinality(missing[c]) : SendFrame(c, n)
        \/ Commit(c) \/ TakeResult(c) \/ FailTransfer(c)
        \/ LockDestination(c) \/ Scan(c) \/ ReceiveChunk(c) \/ ReceiveFrame(c)
        \/ ReceiveStreamEnd(c) \/ ReceiveCommit(c)
        \/ Rename(c) \/ AbandonTransfer(c)
        \/ EditSource(c) \/ BreakConnection(c)
  BY DEF DeltaNext
<1>2. CASE \/ LockDestination(c) \/ Scan(c) \/ ReceiveChunk(c) \/ ReceiveFrame(c)
           \/ ReceiveStreamEnd(c) \/ ReceiveCommit(c) \/ AbandonTransfer(c)
  BY <1>2 DEF LockDestination, Scan, ReceiveChunk, ReceiveFrame, ReceiveStreamEnd, ReceiveCommit,
    AbandonTransfer, TakeData
<1> QED
  BY <1>1, <1>2, ClientKeeps, WorldKeeps

\* Whatever happens to the files and the connections, the destination only
\* becomes a file that a client has hashed as a whole, and an existing one is
\* replaced only where that is allowed.
THEOREM DestinationPromise == DeltaSpec => DestinationIsSafe
<1>1. ASSUME DInv, DeltaNext, destination' # destination
      PROVE  /\ \E c \in Clients : destination' = fullHash[c]
             /\ overwrite \/ destination = NoFile
  <2>1. PICK c \in Clients : Rename(c)
    BY <1>1, OnlyRenameWrites
  <2> QED
    BY <1>1, <2>1 DEF Rename, DInv, HoldsDestination, HashChecked
<1>2. DInv /\ [DeltaNext]_deltaVars =>
        /\ [destination' # destination => \E c \in Clients : destination' = fullHash[c]]_deltaVars
        /\ [(~overwrite /\ destination # NoFile) => destination' = destination]_deltaVars
  BY <1>1
<1> QED
  BY <1>2, DeltaStarts, DeltaKeeps, PTL
    DEF DeltaSpec, DestinationIsSafe, DestinationIsWhole, ExistingFileStays

-----------------------------------------------------------------------------
(* The types of a transfer.  What a message carries are blocks of the      *)
(* client's file, so that the blocks that are sent first are some of those *)
(* that are missing must be shown, too (FirstBlocks).                      *)

LEMMA FirstBlocks ==
  ASSUME NEW M, M \subseteq Numbers, NEW n \in 0 .. Cardinality(M)
  PROVE  \E S \in SUBSET M : Cardinality(S) = n /\ \A i \in S, k \in M \ S : i < k
<1>1. IsFiniteSet(M) /\ Cardinality(M) \in Nat /\ M \subseteq Nat
  <2>1. BlockCount \in Nat
    BY DeltaAssumption
  <2>2. IsFiniteSet(Numbers) /\ Numbers \subseteq Nat
    BY <2>1, FS_Interval DEF Numbers
  <2> QED
    BY <2>2, FS_Subset, FS_CardinalityType
<1> DEFINE First(k) == \E S \in SUBSET M : Cardinality(S) = k /\ \A i \in S, j \in M \ S : i < j
           T == {k \in Nat : k <= Cardinality(M) => First(k)}
<1>2. 0 \in T
  <2>1. {} \in SUBSET M /\ Cardinality({}) = 0
    BY FS_EmptySet
  <2> QED
    BY <2>1
<1>3. ASSUME NEW k \in Nat, k \in T PROVE k + 1 \in T
  <2> SUFFICES ASSUME k + 1 <= Cardinality(M) PROVE First(k + 1)
    OBVIOUS
  <2>1. PICK S \in SUBSET M : Cardinality(S) = k /\ \A i \in S, j \in M \ S : i < j
    BY <1>1, <1>3
  <2>2. IsFiniteSet(S) /\ M \ S # {}
    <3>1. IsFiniteSet(S)
      BY <1>1, FS_Subset
    <3>2. M \ S = {} => S = M
      OBVIOUS
    <3> QED
      BY <1>1, <2>1, <3>1, <3>2
  <2>3. PICK x \in M \ S : \A y \in M \ S : x <= y
    BY <1>1, <2>2, LeastNat
  <2> DEFINE V == S \cup {x}
  <2>4. V \in SUBSET M /\ Cardinality(V) = k + 1
    BY <2>1, <2>2, <2>3, FS_AddElement
  <2>5. \A i \in V, j \in M \ V : i < j
    BY <1>1, <2>1, <2>3
  <2> HIDE DEF V
  <2> QED
    BY <2>4, <2>5
<1>4. Nat \subseteq T
  <2> HIDE DEF T
  <2> QED
    BY <1>2, <1>3, SetInduction
<1>5. n \in Nat /\ n <= Cardinality(M)
  BY <1>1
<1> QED
  BY <1>4, <1>5

FitMessage(m) ==
  /\ m.type \in {"chunk", "frame", "streamEnd"} => \E S \in SUBSET Numbers : m.data \in [S -> Contents]
  /\ m.type = "plan" => m.missing \subseteq Numbers

Blockwise == [Numbers -> Contents \cup {Zeros}]

DeltaTyped ==
  /\ DeltaTypeOK
  /\ DOMAIN signatures = Clients
  /\ \A c \in Clients : /\ FitMessage(wire[c])
                        /\ client[c] # "new" => signatures[c] \in Files
                        /\ worker[c] = "receiving" => temporary[c] \in Blockwise

\* What is said fits.
LEMMA SaysFit ==
  ASSUME DOMAIN wire = Clients, NEW c \in Clients, NEW m, FitMessage(m), Says(c, m),
         \A d \in Clients : FitMessage(wire[d])
  PROVE  \A d \in Clients : FitMessage(wire'[d])
BY DEF Says

LEMMA SmallMessages ==
  /\ FitMessage(Silence) /\ FitMessage(Closed)
  /\ \A t : t \notin {"chunk", "frame", "streamEnd", "plan"} => FitMessage([type |-> t])
BY DEF FitMessage, Silence, Closed

\* A client that sends some of the missing blocks.
LEMMA SendsFit ==
  ASSUME DInv, DeltaTyped, NEW c \in Clients, NEW type, type # "plan",
         NEW n \in 0 .. Cardinality(missing[c]), Sends(c, type, FirstMissing(c, n)) \/ Sends(c, type, {})
  PROVE  /\ missing' \in [Clients -> SUBSET Numbers]
         /\ \A d \in Clients : FitMessage(wire'[d])
<1>0. /\ missing \in [Clients -> SUBSET Numbers] /\ source[c] \in [Numbers -> Contents]
      /\ DOMAIN wire = Clients /\ \A d \in Clients : FitMessage(wire[d])
  BY DEF DInv, DeltaShape, DeltaTyped, DeltaTypeOK, Files
<1>1. PICK blocks \in SUBSET missing[c] : Sends(c, type, blocks)
  <2>1. \E S \in SUBSET missing[c] : Cardinality(S) = n /\ \A i \in S, k \in missing[c] \ S : i < k
    BY <1>0, FirstBlocks
  <2>2. FirstMissing(c, n) \in SUBSET missing[c]
    BY <2>1 DEF FirstMissing
  <2> QED
    BY <2>2
<1> DEFINE data == [i \in blocks |-> source[c][i]]
           m == [type |-> type, data |-> data]
<1>2. blocks \in SUBSET Numbers /\ data \in [blocks -> Contents]
  BY <1>0
<1>3. m.data = data /\ m.type = type
  OBVIOUS
<1>4. wire' = [wire EXCEPT ![c] = m] /\ missing' = [missing EXCEPT ![c] = @ \ blocks]
  BY <1>1 DEF Sends
<1> HIDE DEF m, data
<1>5. FitMessage(m)
  BY <1>2, <1>3 DEF FitMessage
<1>6. \A d \in Clients : FitMessage(wire'[d])
  BY <1>0, <1>4, <1>5
<1>7. missing' \in [Clients -> SUBSET Numbers]
  BY <1>0, <1>4
<1> QED
  BY <1>6, <1>7

\* The places of client and worker.
ClientPlaces == {"new", "signed", "asking", "sending", "streaming", "verifying", "completed", "failed"}
DeltaPlaces == {"waiting", "scanning", "receiving", "renaming", "left"}

LEMMA ClientTypesKept ==
  ASSUME DInv, DeltaTyped, NEW c \in Clients,
         \/ BuildSignatures(c) \/ StartFile(c) \/ TakePlan(c) \/ TakeAck(c)
         \/ SendChunk(c) \/ EndStream(c)
         \/ \E n \in 0 .. Cardinality(missing[c]) : SendFrame(c, n)
         \/ Commit(c) \/ TakeResult(c) \/ FailTransfer(c)
  PROVE  DeltaTyped'
<1>0. /\ DOMAIN wire = Clients /\ DOMAIN fullHash = Clients /\ DOMAIN signatures = Clients
      /\ client \in [Clients -> ClientPlaces] /\ missing \in [Clients -> SUBSET Numbers]
      /\ source[c] \in Files /\ \A d \in Clients : FitMessage(wire[d])
  BY DEF DInv, DeltaShape, DeltaTyped, DeltaTypeOK, ClientPlaces
<1>1. UNCHANGED <<destination, overwrite, basis, source, edits, worker, temporary, matched, destinationLock>>
  BY DEF BuildSignatures, StartFile, TakePlan, TakeAck, SendChunk, EndStream, SendFrame, Commit,
    TakeResult, FailTransfer, fileVars, workerVars
<1>2. client' \in [Clients -> ClientPlaces] /\ \A d \in Clients : client'[d] = "new" => client[d] = "new"
  <2>1. \E p \in ClientPlaces \ {"new"} : client' = [client EXCEPT ![c] = p] \/ client' = client
    BY DEF BuildSignatures, StartFile, TakePlan, TakeAck, SendChunk, EndStream, SendFrame, Commit,
      TakeResult, FailTransfer, ClientPlaces, clientVars
  <2> QED
    BY <1>0, <2>1
<1>3. missing' \in [Clients -> SUBSET Numbers] /\ \A d \in Clients : FitMessage(wire'[d])
  <2>1. CASE BuildSignatures(c)
    BY <1>0, <2>1 DEF BuildSignatures
  <2>2. CASE TakePlan(c)
    <3>1. wire[c].missing \subseteq Numbers
      BY <1>0, <2>2 DEF TakePlan, Message, FitMessage
    <3>2. Says(c, Silence) /\ missing' = [missing EXCEPT ![c] = wire[c].missing]
      BY <2>2 DEF TakePlan
    <3> QED
      BY <1>0, <3>1, <3>2, SaysFit, SmallMessages
  <2>3. CASE SendChunk(c)
    <3>1. 1 \in 0 .. Cardinality(missing[c])
      <4>1. missing[c] \subseteq Numbers /\ missing[c] # {}
        BY <1>0, <2>3 DEF SendChunk
      <4>2. IsFiniteSet(missing[c])
        <5>1. BlockCount \in Int /\ 1 \in Int
          BY DeltaAssumption
        <5>2. IsFiniteSet(Numbers)
          BY <5>1, FS_Interval DEF Numbers
        <5> QED
          BY <4>1, <5>2, FS_Subset
      <4> QED
        BY <4>1, <4>2, FS_CardinalityType, FS_EmptySet
    <3> QED
      BY <2>3, <3>1, SendsFit DEF SendChunk
  <2>4. CASE \E n \in 0 .. Cardinality(missing[c]) : SendFrame(c, n)
    BY <2>4, SendsFit DEF SendFrame
  <2>5. CASE EndStream(c)
    <3>1. 0 \in 0 .. Cardinality(missing[c])
      BY <2>5, FS_EmptySet DEF EndStream
    <3> QED
      BY <2>5, <3>1, SendsFit DEF EndStream
  <2>6. CASE StartFile(c) \/ TakeAck(c) \/ Commit(c) \/ TakeResult(c)
    <3>1. /\ missing' = missing
          /\ Says(c, [type |-> "startFile"]) \/ Says(c, [type |-> "commit"]) \/ Says(c, Silence)
      BY <2>6 DEF StartFile, TakeAck, Commit, TakeResult, clientVars
    <3> QED
      BY <1>0, <3>1, SaysFit, SmallMessages
  <2>7. CASE FailTransfer(c)
    BY <1>0, <2>7, SmallMessages DEF FailTransfer
  <2> QED
    BY <2>1, <2>2, <2>3, <2>4, <2>5, <2>6, <2>7
<1>4. /\ DOMAIN signatures' = Clients
      /\ \A d \in Clients : {signatures'[d], fullHash'[d]} \subseteq Files \cup {NoFile}
      /\ \A d \in Clients : client'[d] # "new" => signatures'[d] \in Files
  <2>1. CASE BuildSignatures(c)
    <3>1. /\ signatures' = [signatures EXCEPT ![c] = source[c]] /\ fullHash' = fullHash
          /\ client' = [client EXCEPT ![c] = "signed"]
      BY <2>1 DEF BuildSignatures
    <3> QED
      BY <1>0, <3>1 DEF DeltaTyped, DeltaTypeOK
  <2>2. CASE StartFile(c)
    <3>1. /\ signatures' = signatures /\ fullHash' = [fullHash EXCEPT ![c] = source[c]]
          /\ client[c] # "new"
      BY <2>2 DEF StartFile
    <3>2. \A d \in Clients : client'[d] # "new" => client[d] # "new"
      BY <1>0, <2>2 DEF StartFile
    <3> QED
      BY <1>0, <3>1, <3>2 DEF DeltaTyped, DeltaTypeOK
  <2>3. CASE ~BuildSignatures(c) /\ ~StartFile(c)
    <3>1. signatures' = signatures /\ fullHash' = fullHash /\ client[c] # "new"
      BY <2>3 DEF TakePlan, TakeAck, SendChunk, EndStream, SendFrame, Commit,
        TakeResult, FailTransfer, clientVars
    <3>2. \A d \in Clients : client'[d] # "new" => client[d] # "new"
      <4>1. \A d \in Clients : d # c => client'[d] = client[d]
        BY <1>0, <2>3 DEF TakePlan, TakeAck, SendChunk, EndStream, SendFrame, Commit,
          TakeResult, FailTransfer, clientVars
      <4> QED
        BY <3>1, <4>1
    <3> QED
      BY <1>0, <3>1, <3>2 DEF DeltaTyped, DeltaTypeOK
  <2> QED
    BY <2>1, <2>2, <2>3
<1> QED
  BY <1>1, <1>2, <1>3, <1>4 DEF DeltaTyped, DeltaTypeOK, ClientPlaces

\* A step of a worker that leaves the destination alone, or gives it a file
\* that a client has hashed.
LEMMA WorkerTypesKept ==
  ASSUME DInv, DeltaTyped, NEW c \in Clients,
         \/ LockDestination(c) \/ Scan(c) \/ ReceiveChunk(c) \/ ReceiveFrame(c)
         \/ ReceiveStreamEnd(c) \/ ReceiveCommit(c) \/ Rename(c) \/ AbandonTransfer(c)
  PROVE  DeltaTyped'
<1>0. /\ DOMAIN wire = Clients /\ worker \in [Clients -> DeltaPlaces]
      /\ temporary \in [Clients -> Temporaries] /\ matched \in [Clients -> SUBSET Numbers]
      /\ destination \in Files \cup {NoFile} /\ destinationLock \in Clients \cup {Nothing}
      /\ \A d \in Clients : FitMessage(wire[d])
      /\ \A d \in Clients : worker[d] = "receiving" => temporary[d] \in Blockwise
      /\ Blockwise \subseteq Temporaries
  BY DEF DInv, DeltaShape, DeltaTyped, DeltaTypeOK, DeltaPlaces, Blockwise, Temporaries
<1>1. UNCHANGED <<overwrite, basis, source, edits, client, signatures, fullHash, missing>>
  BY DEF LockDestination, Scan, ReceiveChunk, ReceiveFrame, ReceiveStreamEnd, ReceiveCommit, Rename,
    AbandonTransfer, TakeData, fileVars, clientVars
<1> DEFINE Typed2 == /\ worker' \in [Clients -> DeltaPlaces]
                     /\ temporary' \in [Clients -> Temporaries] /\ matched' \in [Clients -> SUBSET Numbers]
                     /\ destination' \in Files \cup {NoFile} /\ destinationLock' \in Clients \cup {Nothing}
                     /\ \A d \in Clients : FitMessage(wire'[d])
                     /\ \A d \in Clients : worker'[d] = "receiving" => temporary'[d] \in Blockwise
<1>2. ASSUME NEW answer, FitMessage(answer), Leave(c, answer), destination' \in Files \cup {NoFile}
      PROVE  Typed2
  <2>1. /\ worker' = [worker EXCEPT ![c] = "left"] /\ temporary' = [temporary EXCEPT ![c] = NoFile]
        /\ matched' = [matched EXCEPT ![c] = {}] /\ Says(c, answer)
        /\ destinationLock' \in {Nothing, destinationLock}
    BY <1>2 DEF Leave
  <2>2. NoFile \in Temporaries /\ "left" \in DeltaPlaces /\ {} \in SUBSET Numbers
    BY DEF Temporaries, DeltaPlaces
  <2>3. \A d \in Clients : FitMessage(wire'[d])
    BY <1>0, <1>2, <2>1, SaysFit
  <2> QED
    BY <1>0, <1>2, <2>1, <2>2, <2>3
<1>3. FitMessage([type |-> "error"]) /\ FitMessage([type |-> "committed"]) /\ FitMessage([type |-> "ack"])
      /\ FitMessage(Closed)
  BY SmallMessages
<1>4. ASSUME LockDestination(c) PROVE Typed2
  <2>1. destination' = destination
    BY <1>4 DEF LockDestination
  <2>2. CASE Leave(c, [type |-> "error"])
    BY <1>0, <1>2, <1>3, <2>1, <2>2
  <2>3. CASE ~Leave(c, [type |-> "error"])
    <3> DEFINE z == [i \in Numbers |-> Zeros]
    <3>1. /\ destinationLock' = c /\ temporary' = [temporary EXCEPT ![c] = z]
          /\ worker' = [worker EXCEPT ![c] = "scanning"] /\ matched' = matched /\ wire' = wire
      BY <1>4, <2>3 DEF LockDestination
    <3>2. z \in Temporaries /\ "scanning" \in DeltaPlaces
      BY DEF Temporaries, DeltaPlaces
    <3> HIDE DEF z
    <3> QED
      BY <1>0, <2>1, <3>1, <3>2
  <2> QED
    BY <2>2, <2>3
<1>5. ASSUME Scan(c) PROVE Typed2
  <2> DEFINE sameName == FoundIn(c, CandidateFiles.sameName)
             enough == 100 * Cardinality(sameName) > Threshold * BlockCount
             located == IF enough THEN sameName ELSE sameName \cup FoundIn(c, CandidateFiles.other)
             copied == [i \in Numbers |-> IF i \in located THEN signatures[c][i] ELSE Zeros]
             m == [type |-> "plan", missing |-> Numbers \ located, matchedBytes |-> Cardinality(located)]
  <2>1. /\ matched' = [matched EXCEPT ![c] = located] /\ temporary' = [temporary EXCEPT ![c] = copied]
        /\ worker' = [worker EXCEPT ![c] = "receiving"] /\ Says(c, m) /\ destination' = destination
        /\ destinationLock' = destinationLock /\ worker[c] = "scanning"
    BY <1>5 DEF Scan
  <2>2. located \in SUBSET Numbers
    BY DEF FoundIn
  <2>3. signatures[c] \in Files
    BY <2>1 DEF DInv, HashedFirst, DeltaTyped
  <2> HIDE DEF located
  <2>4. copied \in Blockwise /\ "receiving" \in DeltaPlaces
    BY <2>3 DEF Blockwise, Files, DeltaPlaces
  <2>5. FitMessage(m)
    <3>1. m.type = "plan" /\ m.missing = Numbers \ located
      OBVIOUS
    <3> HIDE DEF m
    <3> QED
      BY <3>1 DEF FitMessage
  <2> HIDE DEF copied, m
  <2>6. \A d \in Clients : FitMessage(wire'[d])
    BY <1>0, <2>1, <2>5, SaysFit
  <2> QED
    BY <1>0, <2>1, <2>2, <2>4, <2>6
<1>6. ASSUME NEW good, TakeData(c, good), worker[c] = "receiving", Message(c, "chunk") \/ Message(c, "frame") \/ Message(c, "streamEnd")
      PROVE  Typed2
  <2> DEFINE data == wire[c].data
             filled == [i \in Numbers |-> IF i \in DOMAIN data THEN data[i] ELSE temporary[c][i]]
  <2>1. destination' = destination
    BY <1>6 DEF TakeData
  <2>2. CASE Leave(c, [type |-> "error"])
    BY <1>0, <1>2, <1>3, <2>1, <2>2
  <2>3. CASE ~Leave(c, [type |-> "error"])
    <3>1. /\ temporary' = [temporary EXCEPT ![c] = filled]
          /\ matched' = [matched EXCEPT ![c] = @ \cup DOMAIN data]
          /\ Says(c, [type |-> "ack"]) /\ worker' = worker /\ destinationLock' = destinationLock
      BY <1>0, <1>6, <2>3 DEF TakeData
    <3>2. PICK S \in SUBSET Numbers : data \in [S -> Contents]
      BY <1>0, <1>6 DEF Message, FitMessage
    <3> HIDE DEF data
    <3>3. filled \in Blockwise
      BY <1>0, <1>6, <3>2 DEF Blockwise
    <3> HIDE DEF filled
    <3>4. matched' \in [Clients -> SUBSET Numbers]
      BY <1>0, <3>1, <3>2
    <3>5. \A d \in Clients : FitMessage(wire'[d])
      BY <1>0, <1>3, <3>1, SaysFit
    <3> QED
      BY <1>0, <2>1, <3>1, <3>3, <3>4, <3>5
  <2> QED
    BY <2>2, <2>3
<1>7. ASSUME ReceiveCommit(c) PROVE Typed2
  <2>1. destination' = destination
    BY <1>7 DEF ReceiveCommit
  <2>2. CASE Leave(c, [type |-> "error"])
    BY <1>0, <1>2, <1>3, <2>1, <2>2
  <2>3. CASE ~Leave(c, [type |-> "error"])
    <3>1. UNCHANGED <<temporary, matched, destinationLock, wire>> /\ worker' = [worker EXCEPT ![c] = "renaming"]
      BY <1>7, <2>3 DEF ReceiveCommit
    <3> QED
      BY <1>0, <2>1, <3>1 DEF DeltaPlaces
  <2> QED
    BY <2>2, <2>3
<1>8. ASSUME Rename(c) PROVE Typed2
  <2>1. destination' = fullHash[c]
    BY <1>8 DEF Rename, DInv, HashChecked
  <2>2. destination' \in Files \cup {NoFile}
    BY <2>1 DEF DeltaTyped, DeltaTypeOK
  <2> QED
    BY <1>2, <1>3, <1>8, <2>2 DEF Rename
<1>9. ASSUME AbandonTransfer(c) PROVE Typed2
  BY <1>0, <1>2, <1>3, <1>9 DEF AbandonTransfer
<1>10. Typed2
  BY <1>4, <1>5, <1>6, <1>7, <1>8, <1>9 DEF ReceiveChunk, ReceiveFrame, ReceiveStreamEnd
<1> QED
  BY <1>1, <1>10 DEF DeltaTyped, DeltaTypeOK, DeltaPlaces

LEMMA WorldTypesKept ==
  ASSUME DInv, DeltaTyped, NEW c \in Clients, EditSource(c) \/ BreakConnection(c)
  PROVE  DeltaTyped'
<1>1. UNCHANGED <<overwrite, destination, basis, client, signatures, fullHash, missing, worker, temporary,
                  matched, destinationLock>>
  BY DEF EditSource, BreakConnection, clientVars, workerVars, fileVars
<1>2. source' \in [Clients -> Files] /\ edits' \in 0 .. MaxEdits
  BY DeltaAssumption DEF EditSource, BreakConnection, fileVars, DeltaTyped, DeltaTypeOK
<1>3. \A d \in Clients : FitMessage(wire'[d])
  BY SmallMessages DEF EditSource, BreakConnection, DInv, DeltaShape, DeltaTyped
<1> QED
  BY <1>1, <1>2, <1>3 DEF DeltaTyped, DeltaTypeOK

LEMMA DeltaTypes == DeltaSpec => []DeltaTypeOK
<1>1. DeltaInit => DeltaTyped
  BY DeltaAssumption, SmallMessages DEF DeltaInit, DeltaTyped, DeltaTypeOK, Temporaries
<1>2. DInv /\ DeltaTyped /\ [DeltaNext]_deltaVars => DeltaTyped'
  <2> SUFFICES ASSUME DInv, DeltaTyped, [DeltaNext]_deltaVars PROVE DeltaTyped'
    OBVIOUS
  <2>1. CASE UNCHANGED deltaVars
    BY <2>1 DEF deltaVars, DeltaTyped, DeltaTypeOK
  <2>2. CASE DeltaNext
    BY <2>2, ClientTypesKept, WorkerTypesKept, WorldTypesKept DEF DeltaNext
  <2> QED
    BY <2>1, <2>2
<1>3. DeltaTyped => DeltaTypeOK
  BY DEF DeltaTyped
<1> QED
  BY <1>1, <1>2, <1>3, DeltaStarts, DeltaKeeps, PTL DEF DeltaSpec

-----------------------------------------------------------------------------
(* SFTP connection pool                                                    *)
(*                                                                         *)
(* A request works on the pool only while it has the lock of the entry     *)
(* (PoolExclusive), so the revision it has computed is made of what the    *)
(* store has held since it was asked (UpToDate), and is the label of the   *)
(* connection it operates on.  Where the connection was opened for other   *)
(* parts than its label says, these parts were saved between the two reads *)
(* (ReadsAgree).                                                           *)

PlacesOfRequest == {"new", "waiting", "revising", "ready", "operating", "again", "done", "failed"}
WorksOnPool == {"revising", "ready", "operating", "again"}

RequestRecord ==
  [at : PlacesOfRequest, kind : {"list", "change", "rename"}, attempt : {0, 1},
   reused : BOOLEAN, carriedOut : Nat, remade : BOOLEAN, seen : [Parts -> SUBSET Settings]]

PooledRecord == [to : Seq(Settings), label : Seq(Settings), overtaken : SUBSET Parts]

PoolTyped ==
  /\ inStore \in [Parts -> Settings]
  /\ entryLock \in Requests \cup {NoRequest}
  /\ pooled \in PooledRecord
  /\ revision \in Seq(Settings) /\ Len(revision) <= PartCount
  /\ opened \in Seq(Settings) /\ Len(opened) <= Len(revision)
  /\ crossed \in SUBSET Parts
  /\ named \in BOOLEAN
  /\ request \in [Requests -> RequestRecord]

PoolExclusive ==
  /\ \A q \in Requests : request[q].at \in WorksOnPool <=> entryLock = q
  /\ entryLock = NoRequest => revision = <<>> /\ opened = <<>> /\ crossed = {}

ReadsAgree ==
  /\ \A p \in BetweenReads : inStore[p] = revision[p] \/ p \in crossed
  /\ \A p \in 1 .. Len(opened) : opened[p] = revision[p] \/ p \in crossed
  /\ pooled # NoConnection =>
       /\ Len(pooled.to) = PartCount /\ Len(pooled.label) = PartCount
       /\ \A p \in Parts : pooled.to[p] = pooled.label[p] \/ p \in pooled.overtaken

UpToDate(q) ==
  /\ request[q].at \in WorksOnPool \cup {"waiting"} =>
       \A p \in Parts : inStore[p] \in request[q].seen[p]
  /\ request[q].at \in WorksOnPool =>
       \A p \in 1 .. Len(revision) : revision[p] \in request[q].seen[p]
  /\ request[q].at = "revising" => opened = <<>>
  /\ request[q].at \in WorksOnPool \ {"revising"} => Len(revision) = PartCount
  /\ request[q].at = "ready" /\ pooled # NoConnection => pooled.label = revision
  /\ request[q].at \in {"operating", "again"} =>
       pooled # NoConnection /\ pooled.label = revision

\* The second call of a renaming moves nothing that the first has moved.
CarriedOutOnce(q) ==
  /\ request[q].at \in {"new", "waiting"} => request[q].carriedOut = 0
  /\ request[q].kind # "list" /\ request[q].at \in WorksOnPool \ {"again"} =>
       request[q].carriedOut = 0
  /\ request[q].at = "again" =>
       /\ request[q].kind = "rename" /\ request[q].carriedOut <= 1
       /\ request[q].carriedOut = 1 => request[q].remade \/ ~named
  /\ request[q].kind = "change" => request[q].carriedOut <= 1
  /\ request[q].kind = "rename" => request[q].carriedOut <= (IF request[q].remade THEN 2 ELSE 1)

PoolInv ==
  /\ PoolTyped /\ PoolExclusive /\ ReadsAgree
  /\ \A q \in Requests : UpToDate(q) /\ CarriedOutOnce(q)

-----------------------------------------------------------------------------
\* The first state: nobody has asked, and there is no connection.
LEMMA PoolStarts == PoolInit => PoolInv
<1> SUFFICES ASSUME PoolInit PROVE PoolInv
  OBVIOUS
<1>1. /\ NothingSeen \in [Parts -> SUBSET Settings] /\ NoConnection \in PooledRecord
      /\ <<>> \in Seq(Settings) /\ Len(<<>>) = 0 /\ PartCount \in Nat
  BY PoolAssumption DEF NothingSeen, NoConnection, PooledRecord
<1>2. PoolTyped
  BY <1>1 DEF PoolInit, PoolTyped, RequestRecord, PlacesOfRequest
<1>3. PoolExclusive
  BY PoolAssumption DEF PoolInit, PoolExclusive, WorksOnPool
<1>4. ReadsAgree
  BY <1>1 DEF PoolInit, ReadsAgree, BetweenReads
<1>5. \A q \in Requests : UpToDate(q) /\ CarriedOutOnce(q)
  BY <1>1 DEF PoolInit, UpToDate, CarriedOutOnce, WorksOnPool
<1> QED
  BY <1>2, <1>3, <1>4, <1>5 DEF PoolInv

\* A step of request r that leaves the other requests alone.
StepOf(r, record) ==
  /\ request'[r] = record /\ record \in RequestRecord
  /\ \A q \in Requests \ {r} : request'[q] = request[q]
  /\ request' \in [Requests -> RequestRecord]

LEMMA RequestStep ==
  ASSUME PoolTyped, NEW r \in Requests, NEW record \in RequestRecord,
         request' = [request EXCEPT ![r] = record]
  PROVE  StepOf(r, record)
BY DEF PoolTyped, StepOf

\* What a step of r leaves of another request: it may take the name away, and
\* it may work on the pool only when the other does not.
LEMMA OthersOfPool ==
  ASSUME PoolInv, NEW r \in Requests, NEW record, StepOf(r, record),
         NEW q \in Requests, q # r, inStore' = inStore, named' => named,
         entryLock # r => revision' = revision /\ opened' = opened /\ pooled' = pooled
  PROVE  UpToDate(q)' /\ CarriedOutOnce(q)'
<1>1. request'[q] = request[q] /\ UpToDate(q) /\ CarriedOutOnce(q) /\ request[q] \in RequestRecord
  BY DEF PoolInv, PoolTyped, StepOf
<1>2. entryLock = r => request[q].at \notin WorksOnPool
  BY DEF PoolInv, PoolExclusive
<1>3. UpToDate(q)'
  BY <1>1, <1>2 DEF UpToDate, WorksOnPool
<1>4. CarriedOutOnce(q)'
  BY <1>1 DEF CarriedOutOnce, PoolInv, PoolTyped
<1> QED
  BY <1>3, <1>4

\* The end of a request leaves nothing behind.
LEMMA FinishKeeps ==
  ASSUME PoolInv, NEW r \in Requests, NEW result \in {"done", "failed"}, NEW times \in {0, 1},
         Finish(r, result, times), entryLock = r,
         pooled' \in {pooled, NoConnection}, named' \in BOOLEAN, named' => named,
         \/ times = 0
         \/ request[r].kind = "list"
         \/ request[r].at = "operating"
         \/ request[r].at = "again" /\ (named \/ request[r].carriedOut = 0)
  PROVE  PoolInv'
<1> DEFINE record == [request[r] EXCEPT !.at = result, !.carriedOut = @ + times,
                                        !.reused = FALSE, !.seen = NothingSeen]
<1>1. /\ request[r] \in RequestRecord /\ UpToDate(r) /\ CarriedOutOnce(r)
      /\ PoolTyped /\ PoolExclusive /\ ReadsAgree /\ request[r].at \in WorksOnPool
  BY DEF PoolInv, PoolTyped, PoolExclusive
<1>2. /\ NothingSeen \in [Parts -> SUBSET Settings] /\ Len(<<>>) = 0
      /\ request[r].carriedOut + times \in Nat
  BY <1>1 DEF NothingSeen, RequestRecord
<1>3. record \in RequestRecord
  BY <1>1, <1>2 DEF RequestRecord, PlacesOfRequest
<1>4. StepOf(r, record)
  <2>1. request' = [request EXCEPT ![r] = record]
    BY DEF Finish
  <2> QED
    BY <1>1, <1>3, <2>1, RequestStep
<1>5. /\ entryLock' = NoRequest /\ revision' = <<>> /\ opened' = <<>> /\ crossed' = {}
      /\ inStore' = inStore
  BY DEF Finish
<1>6. PoolTyped'
  <2>1. NoConnection \in PooledRecord /\ <<>> \in Seq(Settings) /\ Len(<<>>) = 0 /\ PartCount \in Nat
    BY PoolAssumption DEF NoConnection, PooledRecord
  <2> QED
    BY <1>1, <1>4, <1>5, <2>1 DEF PoolTyped, StepOf
<1>7. PoolExclusive'
  BY <1>1, <1>3, <1>4, <1>5, PoolAssumption DEF PoolExclusive, StepOf, WorksOnPool, RequestRecord
<1>8. ReadsAgree'
  BY <1>1, <1>2, <1>5 DEF ReadsAgree, BetweenReads
<1>9. UpToDate(r)'
  BY <1>1, <1>4 DEF UpToDate, StepOf, WorksOnPool, RequestRecord
<1>10. CarriedOutOnce(r)'
  BY <1>1, <1>4 DEF CarriedOutOnce, StepOf, WorksOnPool, RequestRecord, PlacesOfRequest
<1>11. ASSUME NEW q \in Requests, q # r PROVE UpToDate(q)' /\ CarriedOutOnce(q)'
  BY <1>4, <1>5, <1>11, OthersOfPool
<1> QED
  BY <1>6, <1>7, <1>8, <1>9, <1>10, <1>11 DEF PoolInv

\* One step of one request r, or of whoever saves the host, keeps PoolInv.
LEMMA PoolKeeps == PoolInv /\ [PoolNext]_poolVars => PoolInv'
<1> SUFFICES ASSUME PoolInv, [PoolNext]_poolVars PROVE PoolInv'
  OBVIOUS
<1>a. PoolTyped /\ PoolExclusive /\ ReadsAgree /\ PartCount \in Nat \ {0}
  BY PoolAssumption DEF PoolInv
<1>b. \A q \in Requests : request[q] \in RequestRecord /\ UpToDate(q) /\ CarriedOutOnce(q)
  BY DEF PoolInv, PoolTyped
<1>1. ASSUME NEW new \in [Parts -> Settings], SaveHost(new) PROVE PoolInv'
  <2>1. /\ inStore' = new /\ UNCHANGED <<entryLock, pooled, revision, opened, named>>
        /\ crossed' = crossed \cup {p \in BetweenReads : new[p] # inStore[p]}
    BY <1>1 DEF SaveHost
  <2>2. ASSUME NEW q \in Requests
        PROVE  /\ request'[q] \in RequestRecord
               /\ request'[q].at = request[q].at /\ request'[q].kind = request[q].kind
               /\ request'[q].carriedOut = request[q].carriedOut
               /\ request'[q].remade = request[q].remade
               /\ request[q].at \in WorksOnPool \cup {"waiting"} =>
                    request'[q].seen = [p \in Parts |-> request[q].seen[p] \cup {new[p]}]
    <3>1. request[q] \in RequestRecord
      BY <1>b
    <3>2. [p \in Parts |-> request[q].seen[p] \cup {new[p]}] \in [Parts -> SUBSET Settings]
      BY <3>1 DEF RequestRecord
    <3>3. request'[q] = IF Active(q)
             THEN [request[q] EXCEPT !.seen = [p \in Parts |-> request[q].seen[p] \cup {new[p]}]]
             ELSE request[q]
      BY <1>1 DEF SaveHost
    <3>4. Active(q) <=> request[q].at \in WorksOnPool \cup {"waiting"}
      BY DEF Active, At, WorksOnPool
    <3> QED
      BY <3>1, <3>2, <3>3, <3>4 DEF RequestRecord
  <2>3. request' \in [Requests -> RequestRecord]
    <3>1. request' = [q \in Requests |-> request'[q]]
      BY <1>1 DEF SaveHost
    <3> QED
      BY <2>2, <3>1
  <2>4. PoolTyped'
    BY <1>a, <2>1, <2>3 DEF PoolTyped, BetweenReads
  <2>5. PoolExclusive'
    <3>1. entryLock = NoRequest => BetweenReads = {}
      BY <1>a DEF PoolExclusive, BetweenReads
    <3> QED
      BY <1>a, <2>1, <2>2, <3>1 DEF PoolExclusive
  <2>6. ReadsAgree'
    BY <1>a, <2>1 DEF ReadsAgree, BetweenReads
  <2>7. ASSUME NEW q \in Requests PROVE UpToDate(q)' /\ CarriedOutOnce(q)'
    <3>1. CarriedOutOnce(q)'
      BY <1>b, <2>1, <2>2 DEF CarriedOutOnce
    <3>2. \A p \in Parts : request[q].at \in WorksOnPool \cup {"waiting"} =>
             /\ inStore'[p] \in request'[q].seen[p]
             /\ request[q].seen[p] \subseteq request'[q].seen[p]
      BY <2>1, <2>2
    <3>3. 1 .. Len(revision) \subseteq Parts
      BY <1>a DEF PoolTyped, Parts
    <3>4. UpToDate(q)'
      BY <1>b, <2>1, <2>2, <3>2, <3>3 DEF UpToDate, WorksOnPool
    <3> QED
      BY <3>1, <3>4
  <2> QED
    BY <2>4, <2>5, <2>6, <2>7 DEF PoolInv
<1>2. CASE MakeAgain
  <2>1. /\ UNCHANGED <<inStore, entryLock, pooled, revision, opened, crossed>>
        /\ ~named /\ named' = TRUE
    BY <1>2 DEF MakeAgain
  <2>2. ASSUME NEW q \in Requests
        PROVE  /\ request'[q] \in RequestRecord
               /\ request'[q].at = request[q].at /\ request'[q].kind = request[q].kind
               /\ request'[q].carriedOut = request[q].carriedOut
               /\ request'[q].seen = request[q].seen
               /\ request[q].at = "again" \/ request[q].remade => request'[q].remade
    <3>1. request'[q] = [request[q] EXCEPT !.remade = request[q].remade \/ At(q) = "again"]
      BY <1>2 DEF MakeAgain
    <3>2. request[q] \in RequestRecord /\ request[q].remade \in BOOLEAN
      BY <1>b DEF RequestRecord
    <3>3. (request[q].remade \/ At(q) = "again") \in BOOLEAN
      OBVIOUS
    <3> QED
      BY <3>1, <3>2, <3>3 DEF RequestRecord, At
  <2>3. request' \in [Requests -> RequestRecord]
    <3>1. request' = [q \in Requests |-> request'[q]]
      BY <1>2 DEF MakeAgain
    <3> QED
      BY <2>2, <3>1
  <2>4. PoolTyped' /\ PoolExclusive' /\ ReadsAgree'
    BY <1>a, <2>1, <2>2, <2>3 DEF PoolTyped, PoolExclusive, ReadsAgree, BetweenReads
  <2>5. ASSUME NEW q \in Requests PROVE UpToDate(q)' /\ CarriedOutOnce(q)'
    <3>1. UpToDate(q)'
      BY <1>b, <2>1, <2>2 DEF UpToDate
    <3>2. CarriedOutOnce(q)'
      BY <1>b, <2>1, <2>2 DEF CarriedOutOnce, RequestRecord
    <3> QED
      BY <3>1, <3>2
  <2> QED
    BY <2>4, <2>5 DEF PoolInv
<1>3. ASSUME NEW r \in Requests, NEW kind \in {"list", "change", "rename"}, Ask(r, kind) PROVE PoolInv'
  <2> DEFINE record == [request[r] EXCEPT !.at = "waiting", !.kind = kind,
                                         !.seen = [p \in Parts |-> {inStore[p]}]]
  <2>1. /\ request[r] \in RequestRecord /\ UpToDate(r) /\ CarriedOutOnce(r)
        /\ request[r].at = "new" /\ entryLock # r /\ request[r].carriedOut = 0 /\ PartCount \in Nat
        /\ [p \in Parts |-> {inStore[p]}] \in [Parts -> SUBSET Settings]
    BY <1>3, <1>a, <1>b DEF Ask, At, PoolExclusive, WorksOnPool, CarriedOutOnce, PoolTyped
  <2>2. record \in RequestRecord
    BY <1>a, <2>1 DEF RequestRecord, PlacesOfRequest, PoolTyped
  <2>3. StepOf(r, record)
    <3>1. request' = [request EXCEPT ![r] = record]
      BY <1>3 DEF Ask
    <3> QED
      BY <1>a, <2>2, <3>1, RequestStep
  <2>4. PoolTyped'
    BY <1>3, <1>a, <2>1, <2>3 DEF PoolTyped, StepOf, Ask
  <2>5. PoolExclusive'
    BY <1>3, <1>a, <2>1, <2>3, PoolAssumption DEF PoolExclusive, StepOf, WorksOnPool, RequestRecord, Ask
  <2>6. ReadsAgree'
    BY <1>3, <1>a, <2>1 DEF ReadsAgree, BetweenReads, Ask
  <2>7. UpToDate(r)'
    BY <1>3, <1>a, <2>1, <2>3 DEF UpToDate, StepOf, WorksOnPool, RequestRecord, Ask
  <2>8. CarriedOutOnce(r)'
    <3>1. request'[r].at = "waiting" /\ request'[r].carriedOut = 0
      BY <2>1, <2>3 DEF StepOf, RequestRecord
    <3> HIDE DEF record
    <3> QED
      BY <3>1 DEF CarriedOutOnce, WorksOnPool
  <2>9. ASSUME NEW q \in Requests, q # r PROVE UpToDate(q)' /\ CarriedOutOnce(q)'
    <3>1. inStore' = inStore
      BY <1>3 DEF Ask
    <3>2. named' => named
      BY <1>3, <2>1 DEF Ask
    <3>3. entryLock # r => revision' = revision /\ opened' = opened /\ pooled' = pooled
      BY <1>3, <2>1 DEF Ask
    <3> HIDE DEF record
    <3> QED
      BY <2>3, <2>9, <3>1, <3>2, <3>3, OthersOfPool
  <2> QED
    BY <2>4, <2>5, <2>6, <2>7, <2>8, <2>9 DEF PoolInv
<1>4. ASSUME NEW r \in Requests, LockEntry(r) PROVE PoolInv'
  <2> DEFINE record == [request[r] EXCEPT !.at = "revising"]
  <2>1. /\ request[r] \in RequestRecord /\ UpToDate(r) /\ CarriedOutOnce(r)
        /\ request[r].at = "waiting" /\ entryLock = NoRequest
        /\ revision = <<>> /\ opened = <<>> /\ Len(revision) = 0
    BY <1>4, <1>a, <1>b DEF LockEntry, At, PoolExclusive, WorksOnPool
  <2>2. record \in RequestRecord
    BY <1>a, <2>1 DEF RequestRecord, PlacesOfRequest, PoolTyped
  <2>3. StepOf(r, record)
    <3>1. request' = [request EXCEPT ![r] = record]
      BY <1>4 DEF LockEntry
    <3> QED
      BY <1>a, <2>2, <3>1, RequestStep
  <2>4. PoolTyped'
    BY <1>4, <1>a, <2>1, <2>3 DEF PoolTyped, StepOf, LockEntry
  <2>5. PoolExclusive'
    BY <1>4, <1>a, <2>1, <2>3, PoolAssumption DEF PoolExclusive, StepOf, WorksOnPool, RequestRecord, LockEntry
  <2>6. ReadsAgree'
    BY <1>4, <1>a, <2>1 DEF ReadsAgree, BetweenReads, LockEntry
  <2>7. UpToDate(r)'
    BY <1>4, <1>a, <2>1, <2>3 DEF UpToDate, StepOf, WorksOnPool, RequestRecord, LockEntry
  <2>8. CarriedOutOnce(r)'
    BY <1>4, <1>a, <2>1, <2>2, <2>3 DEF CarriedOutOnce, StepOf, WorksOnPool, RequestRecord, LockEntry
  <2>9. ASSUME NEW q \in Requests, q # r PROVE UpToDate(q)' /\ CarriedOutOnce(q)'
    <3>1. inStore' = inStore
      BY <1>4 DEF LockEntry
    <3>2. named' => named
      BY <1>4, <2>1 DEF LockEntry
    <3>3. entryLock # r => revision' = revision /\ opened' = opened /\ pooled' = pooled
      BY <1>4, <2>1 DEF LockEntry
    <3> HIDE DEF record
    <3> QED
      BY <2>3, <2>9, <3>1, <3>2, <3>3, OthersOfPool
  <2> QED
    BY <2>4, <2>5, <2>6, <2>7, <2>8, <2>9 DEF PoolInv
<1>5. ASSUME NEW r \in Requests, ReadRevision(r) PROVE PoolInv'
  <2>1. /\ request[r] \in RequestRecord /\ UpToDate(r) /\ entryLock = r
        /\ request[r].at = "revising" /\ opened = <<>> /\ opened' = opened
    BY <1>5, <1>a, <1>b DEF ReadRevision, UpToDate, At, PoolExclusive, WorksOnPool
  <2>2. UNCHANGED <<inStore, entryLock, pooled, crossed, named, request>>
    BY <1>5 DEF ReadRevision, UpToDate
  <2> DEFINE k == Len(revision) + 1
  <2>3. /\ k \in Parts /\ inStore[k] \in Settings /\ revision \in Seq(Settings)
        /\ revision' = Append(revision, inStore[k])
    BY <1>5, <1>a DEF ReadRevision, PoolTyped, Parts
  <2>4. /\ revision' \in Seq(Settings) /\ Len(revision') = k /\ revision'[k] = inStore[k]
        /\ \A p \in 1 .. Len(revision) : revision'[p] = revision[p]
        /\ Len(revision) \in Nat
    BY <2>3
  <2>5. PoolTyped' /\ PoolExclusive'
    BY <1>a, <2>1, <2>2, <2>3, <2>4, PoolAssumption DEF PoolTyped, PoolExclusive, Parts
  <2>6. ReadsAgree'
    BY <1>a, <2>1, <2>2, <2>3, <2>4 DEF ReadsAgree, BetweenReads, PoolTyped, Parts
  <2>7. UpToDate(r)'
    <3>1. \A p \in 1 .. k : revision'[p] \in request[r].seen[p]
      BY <2>1, <2>3, <2>4 DEF UpToDate, WorksOnPool
    <3> QED
      BY <2>1, <2>2, <2>4, <3>1 DEF UpToDate, WorksOnPool
  <2>8. ASSUME NEW q \in Requests, q # r PROVE UpToDate(q)'
    <3>1. request[q].at \notin WorksOnPool
      BY <1>a, <2>1, <2>8 DEF PoolExclusive
    <3> QED
      BY <1>b, <2>2, <3>1 DEF UpToDate, WorksOnPool
  <2>9. \A q \in Requests : CarriedOutOnce(q)'
    BY <1>b, <2>2 DEF CarriedOutOnce
  <2> QED
    BY <2>5, <2>6, <2>7, <2>8, <2>9 DEF PoolInv
<1>6. ASSUME NEW r \in Requests, CheckRevision(r) PROVE PoolInv'
  <2> DEFINE record == [request[r] EXCEPT !.at = "ready"]
  <2>1. /\ request[r] \in RequestRecord /\ UpToDate(r) /\ CarriedOutOnce(r)
        /\ request[r].at = "revising" /\ entryLock = r /\ Len(revision) = PartCount
        /\ NoConnection \in PooledRecord
    BY <1>6, <1>a, <1>b DEF CheckRevision, NoConnection, PooledRecord, At, PoolExclusive, WorksOnPool
  <2>2. record \in RequestRecord
    BY <1>a, <2>1 DEF RequestRecord, PlacesOfRequest, PoolTyped
  <2>3. StepOf(r, record)
    <3>1. request' = [request EXCEPT ![r] = record]
      BY <1>6 DEF CheckRevision, NoConnection, PooledRecord
    <3> QED
      BY <1>a, <2>2, <3>1, RequestStep
  <2>4. PoolTyped'
    BY <1>6, <1>a, <2>1, <2>3 DEF PoolTyped, StepOf, CheckRevision, NoConnection, PooledRecord
  <2>5. PoolExclusive'
    BY <1>6, <1>a, <2>1, <2>3, PoolAssumption DEF PoolExclusive, StepOf, WorksOnPool, RequestRecord, CheckRevision, NoConnection, PooledRecord
  <2>6. ReadsAgree'
    BY <1>6, <1>a, <2>1 DEF ReadsAgree, BetweenReads, CheckRevision, NoConnection, PooledRecord
  <2>7. UpToDate(r)'
    BY <1>6, <1>a, <2>1, <2>3 DEF UpToDate, StepOf, WorksOnPool, RequestRecord, CheckRevision, NoConnection, PooledRecord
  <2>8. CarriedOutOnce(r)'
    BY <1>6, <1>a, <2>1, <2>2, <2>3 DEF CarriedOutOnce, StepOf, WorksOnPool, RequestRecord, CheckRevision, NoConnection, PooledRecord
  <2>9. ASSUME NEW q \in Requests, q # r PROVE UpToDate(q)' /\ CarriedOutOnce(q)'
    <3>1. inStore' = inStore
      BY <1>6 DEF CheckRevision, NoConnection, PooledRecord
    <3>2. named' => named
      BY <1>6, <2>1 DEF CheckRevision, NoConnection, PooledRecord
    <3>3. entryLock # r => revision' = revision /\ opened' = opened /\ pooled' = pooled
      BY <1>6, <2>1 DEF CheckRevision, NoConnection, PooledRecord
    <3> HIDE DEF record
    <3> QED
      BY <2>3, <2>9, <3>1, <3>2, <3>3, OthersOfPool
  <2> QED
    BY <2>4, <2>5, <2>6, <2>7, <2>8, <2>9 DEF PoolInv
<1>7. ASSUME NEW r \in Requests, UseConnection(r) PROVE PoolInv'
  <2> DEFINE record == [request[r] EXCEPT !.at = "operating", !.reused = TRUE]
  <2>1. /\ request[r] \in RequestRecord /\ UpToDate(r) /\ CarriedOutOnce(r)
        /\ request[r].at = "ready" /\ entryLock = r /\ pooled # NoConnection
    BY <1>7, <1>a, <1>b DEF UseConnection, At, PoolExclusive, WorksOnPool
  <2>2. record \in RequestRecord
    BY <1>a, <2>1 DEF RequestRecord, PlacesOfRequest, PoolTyped
  <2>3. StepOf(r, record)
    <3>1. request' = [request EXCEPT ![r] = record]
      BY <1>7 DEF UseConnection
    <3> QED
      BY <1>a, <2>2, <3>1, RequestStep
  <2>4. PoolTyped'
    BY <1>7, <1>a, <2>1, <2>3 DEF PoolTyped, StepOf, UseConnection
  <2>5. PoolExclusive'
    BY <1>7, <1>a, <2>1, <2>3, PoolAssumption DEF PoolExclusive, StepOf, WorksOnPool, RequestRecord, UseConnection
  <2>6. ReadsAgree'
    BY <1>7, <1>a, <2>1 DEF ReadsAgree, BetweenReads, UseConnection
  <2>7. UpToDate(r)'
    BY <1>7, <1>a, <2>1, <2>3 DEF UpToDate, StepOf, WorksOnPool, RequestRecord, UseConnection
  <2>8. CarriedOutOnce(r)'
    BY <1>7, <1>a, <2>1, <2>2, <2>3 DEF CarriedOutOnce, StepOf, WorksOnPool, RequestRecord, UseConnection
  <2>9. ASSUME NEW q \in Requests, q # r PROVE UpToDate(q)' /\ CarriedOutOnce(q)'
    <3>1. inStore' = inStore
      BY <1>7 DEF UseConnection
    <3>2. named' => named
      BY <1>7, <2>1 DEF UseConnection
    <3>3. entryLock # r => revision' = revision /\ opened' = opened /\ pooled' = pooled
      BY <1>7, <2>1 DEF UseConnection
    <3> HIDE DEF record
    <3> QED
      BY <2>3, <2>9, <3>1, <3>2, <3>3, OthersOfPool
  <2> QED
    BY <2>4, <2>5, <2>6, <2>7, <2>8, <2>9 DEF PoolInv
<1>8. ASSUME NEW r \in Requests, ReadForOpening(r) PROVE PoolInv'
  <2>1. /\ request[r] \in RequestRecord /\ UpToDate(r) /\ entryLock = r
        /\ request[r].at = "ready" /\ Len(revision) = PartCount /\ pooled = NoConnection
        /\ revision' = revision
    BY <1>8, <1>a, <1>b DEF ReadForOpening, UpToDate, At, PoolExclusive, WorksOnPool
  <2>2. UNCHANGED <<inStore, entryLock, pooled, crossed, named, request>>
    BY <1>8 DEF ReadForOpening, UpToDate
  <2> DEFINE k == Len(opened) + 1
  <2>3. /\ k \in Parts /\ inStore[k] \in Settings /\ opened \in Seq(Settings)
        /\ opened' = Append(opened, inStore[k])
    BY <1>8, <1>a DEF ReadForOpening, PoolTyped, Parts
  <2>4. /\ opened' \in Seq(Settings) /\ Len(opened') = k /\ opened'[k] = inStore[k]
        /\ \A p \in 1 .. Len(opened) : opened'[p] = opened[p]
        /\ Len(opened) \in Nat
    BY <2>3
  <2>5. PoolTyped' /\ PoolExclusive'
    BY <1>a, <2>1, <2>2, <2>3, <2>4, PoolAssumption DEF PoolTyped, PoolExclusive, Parts
  <2>6. ReadsAgree'
    <3>1. k \in BetweenReads /\ BetweenReads' \subseteq BetweenReads
      BY <1>a, <2>1, <2>3, <2>4 DEF BetweenReads, Parts
    <3>2. inStore[k] = revision[k] \/ k \in crossed
      BY <1>a, <3>1 DEF ReadsAgree
    <3>3. \A p \in 1 .. k : opened'[p] = revision[p] \/ p \in crossed
      BY <1>a, <2>4, <3>2 DEF ReadsAgree
    <3> QED
      BY <1>a, <2>1, <2>2, <2>4, <3>1, <3>3 DEF ReadsAgree
  <2>7. UpToDate(r)'
    BY <2>1, <2>2 DEF UpToDate, WorksOnPool
  <2>8. ASSUME NEW q \in Requests, q # r PROVE UpToDate(q)'
    <3>1. request[q].at \notin WorksOnPool
      BY <1>a, <2>1, <2>8 DEF PoolExclusive
    <3> QED
      BY <1>b, <2>2, <3>1 DEF UpToDate, WorksOnPool
  <2>9. \A q \in Requests : CarriedOutOnce(q)'
    BY <1>b, <2>2 DEF CarriedOutOnce
  <2> QED
    BY <2>5, <2>6, <2>7, <2>8, <2>9 DEF PoolInv
<1>9. ASSUME NEW r \in Requests, OpenConnection(r) PROVE PoolInv'
  <2> DEFINE record == [request[r] EXCEPT !.at = "operating", !.reused = FALSE]
  <2>1. /\ request[r] \in RequestRecord /\ UpToDate(r) /\ CarriedOutOnce(r)
        /\ request[r].at = "ready" /\ entryLock = r /\ Len(revision) = PartCount /\ Len(opened) = PartCount
        /\ NoConnection.to = <<>>
    BY <1>9, <1>a, <1>b DEF OpenConnection, Label, NoConnection, UpToDate, At, PoolExclusive, WorksOnPool
  <2>2. record \in RequestRecord
    BY <1>a, <2>1 DEF RequestRecord, PlacesOfRequest, PoolTyped
  <2>3. StepOf(r, record)
    <3>1. request' = [request EXCEPT ![r] = record]
      BY <1>9 DEF OpenConnection, Label, NoConnection, UpToDate
    <3> QED
      BY <1>a, <2>2, <3>1, RequestStep
  <2>4. PoolTyped'
    BY <1>9, <1>a, <2>1, <2>3 DEF PoolTyped, StepOf, OpenConnection, Label, NoConnection, UpToDate, PooledRecord
  <2>5. PoolExclusive'
    BY <1>9, <1>a, <2>1, <2>3, PoolAssumption DEF PoolExclusive, StepOf, WorksOnPool, RequestRecord, OpenConnection, Label, NoConnection, UpToDate
  <2>6. ReadsAgree'
    BY <1>9, <1>a, <2>1 DEF ReadsAgree, BetweenReads, OpenConnection, Label, NoConnection, UpToDate, PoolTyped, Parts
  <2>7. UpToDate(r)'
    BY <1>9, <1>a, <2>1, <2>3 DEF UpToDate, StepOf, WorksOnPool, RequestRecord, OpenConnection, Label, NoConnection, PoolTyped
  <2>8. CarriedOutOnce(r)'
    BY <1>9, <1>a, <2>1, <2>2, <2>3 DEF CarriedOutOnce, StepOf, WorksOnPool, RequestRecord, OpenConnection, Label, NoConnection, UpToDate
  <2>9. ASSUME NEW q \in Requests, q # r PROVE UpToDate(q)' /\ CarriedOutOnce(q)'
    <3>1. inStore' = inStore
      BY <1>9 DEF OpenConnection, Label, NoConnection, UpToDate
    <3>2. named' => named
      BY <1>9, <2>1 DEF OpenConnection, Label, NoConnection, UpToDate
    <3>3. entryLock # r => revision' = revision /\ opened' = opened /\ pooled' = pooled
      BY <1>9, <2>1 DEF OpenConnection, Label, NoConnection, UpToDate
    <3> HIDE DEF record
    <3> QED
      BY <2>3, <2>9, <3>1, <3>2, <3>3, OthersOfPool
  <2> QED
    BY <2>4, <2>5, <2>6, <2>7, <2>8, <2>9 DEF PoolInv
<1>10. ASSUME NEW r \in Requests, OpenFails(r) PROVE PoolInv'
  <2>1. /\ entryLock = r /\ Finish(r, "failed", 0) /\ pooled' = pooled /\ named' = named
        /\ named \in BOOLEAN
    BY <1>10, <1>a DEF OpenFails, At, PoolExclusive, WorksOnPool, PoolTyped
  <2> QED
    BY <2>1, FinishKeeps
<1>11. ASSUME NEW r \in Requests, Operate(r) PROVE PoolInv'
  <2>1. /\ entryLock = r /\ Finish(r, "done", 1) /\ pooled' = pooled
        /\ request[r].at \in {"operating", "again"}
        /\ request[r].kind = "rename" => named
        /\ named' \in BOOLEAN /\ (named' => named)
    BY <1>11, <1>a DEF Operate, CarriesOut, At, PoolExclusive, WorksOnPool, PoolTyped
  <2>2. request[r].at = "again" => request[r].kind = "rename"
    BY <1>b DEF CarriedOutOnce
  <2> QED
    BY <2>1, <2>2, FinishKeeps
<1>12. ASSUME NEW r \in Requests, NEW done \in BOOLEAN, RenameAgain(r, done) PROVE PoolInv'
  <2> DEFINE record == [request[r] EXCEPT !.at = "again", !.carriedOut = @ + Times(done)]
  <2>1. /\ request[r] \in RequestRecord /\ UpToDate(r) /\ CarriedOutOnce(r)
        /\ request[r].at = "operating" /\ entryLock = r /\ request[r].kind = "rename"
        /\ Times(done) \in {0, 1} /\ (done <=> Times(done) = 1) /\ (named' => named)
        /\ request[r].carriedOut = 0 /\ request[r].carriedOut + Times(done) \in Nat
    BY <1>12, <1>a, <1>b DEF RenameAgain, CarriesOut, Times, At, PoolExclusive, WorksOnPool, RequestRecord, CarriedOutOnce
  <2>2. record \in RequestRecord
    BY <1>a, <2>1 DEF RequestRecord, PlacesOfRequest, PoolTyped
  <2>3. StepOf(r, record)
    <3>1. request' = [request EXCEPT ![r] = record]
      BY <1>12 DEF RenameAgain, CarriesOut, Times
    <3> QED
      BY <1>a, <2>2, <3>1, RequestStep
  <2>4. PoolTyped'
    BY <1>12, <1>a, <2>1, <2>3 DEF PoolTyped, StepOf, RenameAgain, CarriesOut, Times
  <2>5. PoolExclusive'
    BY <1>12, <1>a, <2>1, <2>3, PoolAssumption DEF PoolExclusive, StepOf, WorksOnPool, RequestRecord, RenameAgain, CarriesOut, Times
  <2>6. ReadsAgree'
    BY <1>12, <1>a, <2>1 DEF ReadsAgree, BetweenReads, RenameAgain, CarriesOut, Times
  <2>7. UpToDate(r)'
    BY <1>12, <1>a, <2>1, <2>3 DEF UpToDate, StepOf, WorksOnPool, RequestRecord, RenameAgain, CarriesOut, Times
  <2>8. CarriedOutOnce(r)'
    BY <1>12, <1>a, <2>1, <2>2, <2>3 DEF CarriedOutOnce, StepOf, WorksOnPool, RequestRecord, RenameAgain, CarriesOut, Times
  <2>9. ASSUME NEW q \in Requests, q # r PROVE UpToDate(q)' /\ CarriedOutOnce(q)'
    <3>1. inStore' = inStore
      BY <1>12 DEF RenameAgain, CarriesOut, Times
    <3>2. named' => named
      BY <1>12, <2>1 DEF RenameAgain, CarriesOut, Times
    <3>3. entryLock # r => revision' = revision /\ opened' = opened /\ pooled' = pooled
      BY <1>12, <2>1 DEF RenameAgain, CarriesOut, Times
    <3> HIDE DEF record
    <3> QED
      BY <2>3, <2>9, <3>1, <3>2, <3>3, OthersOfPool
  <2> QED
    BY <2>4, <2>5, <2>6, <2>7, <2>8, <2>9 DEF PoolInv
<1>13. ASSUME NEW r \in Requests, NEW done \in BOOLEAN, OperationFails(r, done) PROVE PoolInv'
  <2> DEFINE record == [request[r] EXCEPT !.at = "ready", !.attempt = 1,
                                          !.carriedOut = @ + Times(done)]
  <2>1. /\ entryLock = r /\ pooled' = NoConnection /\ Times(done) \in {0, 1}
        /\ request[r].at = (IF request[r].kind = "rename" THEN "again" ELSE "operating")
        /\ Times(done) = 0 \/ request[r].kind # "rename" \/ named
        /\ named' \in BOOLEAN /\ (named' => named)
        /\ request[r] \in RequestRecord /\ UpToDate(r) /\ CarriedOutOnce(r)
    BY <1>13, <1>a, <1>b DEF OperationFails, CarriesOut, Times, At, PoolExclusive, WorksOnPool, PoolTyped
  <2>2. CASE ~MayRetry(r)
    <3>1. Finish(r, "failed", Times(done))
      BY <1>13, <2>2 DEF OperationFails
    <3> QED
      BY <2>1, <3>1, FinishKeeps
  <2>3. CASE MayRetry(r)
    <3>1. /\ request' = [request EXCEPT ![r] = record]
          /\ UNCHANGED <<inStore, entryLock, revision, opened, crossed>>
          /\ request[r].kind = "list" /\ request[r].at = "operating"
      BY <1>13, <2>1, <2>3 DEF OperationFails, MayRetry
    <3>2. record \in RequestRecord
      <4>1. request[r].carriedOut + Times(done) \in Nat
        BY <2>1 DEF RequestRecord
      <4> QED
        BY <2>1, <4>1 DEF RequestRecord, PlacesOfRequest
    <3>3. StepOf(r, record)
      BY <1>a, <3>1, <3>2, RequestStep
    <3>4. PoolTyped'
      BY <1>a, <2>1, <3>1, <3>3 DEF PoolTyped, StepOf, NoConnection, PooledRecord
    <3>5. PoolExclusive'
      BY <1>a, <2>1, <3>1, <3>3 DEF PoolExclusive, StepOf, WorksOnPool, RequestRecord
    <3>6. ReadsAgree'
      BY <1>a, <2>1, <3>1 DEF ReadsAgree, BetweenReads
    <3>7. UpToDate(r)'
      BY <2>1, <3>1, <3>3 DEF UpToDate, StepOf, WorksOnPool, RequestRecord
    <3>8. CarriedOutOnce(r)'
      BY <2>1, <3>1, <3>3 DEF CarriedOutOnce, StepOf, WorksOnPool, RequestRecord
    <3>9. ASSUME NEW q \in Requests, q # r PROVE UpToDate(q)' /\ CarriedOutOnce(q)'
      BY <2>1, <3>1, <3>3, <3>9, OthersOfPool
    <3> QED
      BY <3>4, <3>5, <3>6, <3>7, <3>8, <3>9 DEF PoolInv
  <2> QED
    BY <2>2, <2>3
<1>14. CASE UNCHANGED poolVars
  BY <1>14 DEF PoolInv, poolVars, PoolTyped, PoolExclusive, ReadsAgree, BetweenReads, UpToDate, CarriedOutOnce
<1> QED
  BY <1>1, <1>2, <1>3, <1>4, <1>5, <1>6, <1>7, <1>8, <1>9, <1>10, <1>11, <1>12, <1>13, <1>14 DEF PoolNext

\* Nothing is changed twice for one request, but by a renaming whose name was
\* made again, and no operation runs on a connection to settings that were not
\* saved since it was asked for, but for a part that was saved during the
\* opening and saved back (Use, ConfigurationRevision, Rename).
THEOREM PoolPromise == PoolSpec => []PoolIsSafe
<1>1. PoolInv => ChangesAtMostOnce
  BY DEF PoolInv, CarriedOutOnce, ChangesAtMostOnce
<1>2. PoolInv => UsesSavedHost
  <2> SUFFICES ASSUME PoolInv, NEW r \in Requests, At(r) \in {"operating", "again"}, NEW p \in Parts
               PROVE  /\ pooled.label[p] \in request[r].seen[p]
                      /\ pooled.to[p] \in request[r].seen[p] \/ p \in pooled.overtaken
    BY DEF UsesSavedHost
  <2>1. /\ pooled # NoConnection /\ pooled.label = revision /\ Len(revision) = PartCount
        /\ \A k \in 1 .. Len(revision) : revision[k] \in request[r].seen[k]
    BY DEF PoolInv, UpToDate, At, WorksOnPool
  <2>2. pooled.to[p] = pooled.label[p] \/ p \in pooled.overtaken
    BY <2>1 DEF PoolInv, ReadsAgree
  <2> QED
    BY <2>1, <2>2 DEF Parts
<1> QED
  BY <1>1, <1>2, PoolStarts, PoolKeeps, PTL DEF PoolSpec, PoolIsSafe

LEMMA PoolTypes == PoolSpec => []PoolTypeOK
<1>1. PoolInv => PoolTypeOK
  <2> SUFFICES ASSUME PoolInv PROVE PoolTypeOK
    OBVIOUS
  <2>1. Len(revision) <= PartCount /\ Len(opened) <= PartCount
    BY PoolAssumption DEF PoolInv, PoolTyped
  <2>2. \A r \in Requests : Active(r) \/ At(r) \in {"new", "done", "failed"}
    BY DEF PoolInv, PoolTyped, RequestRecord, PlacesOfRequest, Active, At
  <2> QED
    BY <2>1, <2>2 DEF PoolInv, PoolTyped, PooledRecord, PoolTypeOK
<1> QED
  BY <1>1, PoolStarts, PoolKeeps, PTL DEF PoolSpec

-----------------------------------------------------------------------------
(* Uploads of the file manager                                             *)
(*                                                                         *)
(* The server takes no lock, so a request that has tested the size of the  *)
(* temporary file may find another one.  As long as that has not happened  *)
(* to an upload, what was tested still holds when the chunk is appended    *)
(* and when the file takes its name (SizeStillFits): a change of the file  *)
(* by another request would have been one under it.                        *)

Visits == {"absent", "new", "empty", "fits", "stored", "ready", "yes", "no"}

UploadTyped ==
  /\ tab \in [LocalUploads -> {"sending", "done", "error"}]
  /\ sentChunks \in [LocalUploads -> 0 .. LocalChunks]
  /\ visit \in [Arrivals -> Visits]
  /\ partFile \in [LocalUploads -> [of : SUBSET LocalUploads, chunks : Seq(Nat)]]
  /\ raced \subseteq LocalUploads /\ unnoticed \subseteq LocalUploads

FirstChunks(n) == [i \in 1 .. n |-> i]

\* A file whose last chunk may have lost its end.
UpToLast(u, chunks, lost) ==
  /\ Len(chunks) \in {LocalChunks - 1, LocalChunks}
  /\ \A i \in 1 .. Len(chunks) :
       chunks[i] = i \/ (i = LocalChunks /\ chunks[i] = CutShort)
  /\ chunks = FirstChunks(LocalChunks) \/ u \in lost

\* The temporary file has the chunks in order, or pieces of them.
ChunksInOrder ==
  \A u \in LocalUploads :
    /\ partFile[u] = NoPart \/ partFile[u].of = {u}
    /\ u \notin raced =>
         \A i \in 1 .. Len(partFile[u].chunks) : partFile[u].chunks[i] \in {i, CutShort}

\* A request that has tested the size, or appended, still finds what it saw.
SizeStillFits ==
  \A r \in Arrivals : r.upload \notin raced =>
    /\ visit[r] = "fits" => partFile[r.upload].chunks = FirstChunks(r.chunk - 1)
    /\ visit[r] \in {"stored", "ready"} => UpToLast(r.upload, partFile[r.upload].chunks, unnoticed)

PublishedUpToLast ==
  published # NoPart =>
    \E u \in LocalUploads :
      /\ published.of = {u}
      /\ u \notin raced => UpToLast(u, published.chunks, unnoticed)

UploadInv == UploadTyped /\ ChunksInOrder /\ SizeStillFits /\ PublishedUpToLast

-----------------------------------------------------------------------------
\* The first state: nothing is uploaded.
LEMMA UploadStarts == UploadInit => UploadInv
<1> SUFFICES ASSUME UploadInit PROVE UploadInv
  OBVIOUS
<1>1. NoPart \in [of : SUBSET LocalUploads, chunks : Seq(Nat)] /\ Len(NoPart.chunks) = 0
  BY DEF NoPart
<1>2. UploadTyped
  BY <1>1, UploadAssumption DEF UploadInit, UploadTyped, Visits
<1>3. ChunksInOrder /\ SizeStillFits /\ PublishedUpToLast
  BY <1>1 DEF UploadInit, ChunksInOrder, SizeStillFits, PublishedUpToLast
<1> QED
  BY <1>2, <1>3 DEF UploadInv

\* A request moves; the others stay where they are.
LEMMA OneMoves ==
  ASSUME UploadTyped, NEW r \in Arrivals, NEW to \in Visits,
         visit' = [visit EXCEPT ![r] = to]
  PROVE  /\ visit'[r] = to
         /\ \A o \in Arrivals : o # r => visit'[o] = visit[o]
         /\ visit' \in [Arrivals -> Visits]
BY DEF UploadTyped

\* A change of a temporary file concerns that file, and marks its upload unless
\* nobody else of it relies on the file.
LEMMA OneChanges ==
  ASSUME UploadTyped, NEW r \in Arrivals,
         NEW file \in [of : SUBSET LocalUploads, chunks : Seq(Nat)], Changes(r, file)
  PROVE  /\ r.upload \in LocalUploads
         /\ partFile'[r.upload] = file
         /\ \A u \in LocalUploads : u # r.upload => partFile'[u] = partFile[u]
         /\ partFile' \in [LocalUploads -> [of : SUBSET LocalUploads, chunks : Seq(Nat)]]
         /\ raced \subseteq raced' /\ raced' \subseteq LocalUploads
         /\ r.upload \notin raced' =>
              \A o \in Arrivals : o # r /\ o.upload = r.upload => ~Relies(o)
<1>1. r.upload \in LocalUploads
  BY DEF Arrivals
<1>2. /\ partFile'[r.upload] = file
      /\ \A u \in LocalUploads : u # r.upload => partFile'[u] = partFile[u]
      /\ partFile' \in [LocalUploads -> [of : SUBSET LocalUploads, chunks : Seq(Nat)]]
  BY <1>1 DEF UploadTyped, Changes
<1>3. raced \subseteq raced' /\ raced' \subseteq LocalUploads
  BY <1>1 DEF UploadTyped, Changes
<1>4. r.upload \notin raced' => \A o \in Arrivals : o # r /\ o.upload = r.upload => ~Relies(o)
  BY <1>1 DEF Changes
<1> QED
  BY <1>1, <1>2, <1>3, <1>4

\* Marks are never taken away, so a file stays as good as it was.
LEMMA UpToLastStays ==
  ASSUME NEW u, NEW chunks, NEW lost, NEW more, UpToLast(u, chunks, lost), lost \subseteq more
  PROVE  UpToLast(u, chunks, more)
BY DEF UpToLast

\* The other requests find what they saw when one of them changes its file.
LEMMA OthersStillFit ==
  ASSUME UploadInv, NEW r \in Arrivals,
         NEW file \in [of : SUBSET LocalUploads, chunks : Seq(Nat)], Changes(r, file),
         NEW o \in Arrivals, o # r, visit'[o] = visit[o], o.upload \notin raced',
         unnoticed \subseteq unnoticed'
  PROVE  /\ visit'[o] = "fits" => partFile'[o.upload].chunks = FirstChunks(o.chunk - 1)
         /\ visit'[o] \in {"stored", "ready"} => UpToLast(o.upload, partFile'[o.upload].chunks, unnoticed')
<1>1. o.upload \in LocalUploads /\ UploadTyped /\ SizeStillFits
  BY DEF UploadInv, Arrivals
<1>2. /\ \A u \in LocalUploads : u # r.upload => partFile'[u] = partFile[u]
      /\ raced \subseteq raced'
      /\ r.upload \notin raced' =>
           \A k \in Arrivals : k # r /\ k.upload = r.upload => ~Relies(k)
  BY <1>1, OneChanges
<1>3. o.upload \notin raced
  BY <1>2
<1>4. CASE visit[o] = "fits"
  <2>1. o.upload # r.upload
    BY <1>2, <1>4 DEF Relies
  <2> QED
    BY <1>1, <1>2, <1>3, <1>4, <2>1 DEF SizeStillFits
<1>5. CASE visit[o] \in {"stored", "ready"}
  <2>1. o.upload # r.upload
    BY <1>2, <1>5 DEF Relies
  <2>2. /\ UpToLast(o.upload, partFile[o.upload].chunks, unnoticed)
        /\ partFile'[o.upload] = partFile[o.upload]
    BY <1>1, <1>2, <1>3, <1>5, <2>1 DEF SizeStillFits
  <2>3. UpToLast(o.upload, partFile'[o.upload].chunks, unnoticed')
    BY <2>2, UpToLastStays
  <2> QED
    BY <1>5, <2>3
<1> QED
  BY <1>4, <1>5

\* A temporary file that fits has exactly the chunks before.
LEMMA FitsMeansFirst ==
  ASSUME UploadTyped, ChunksInOrder, NEW r \in Arrivals, SizeFits(r), r.upload \notin raced
  PROVE  partFile[r.upload].chunks = FirstChunks(r.chunk - 1)
<1>1. r.upload \in LocalUploads /\ r.chunk \in Nat
  BY UploadAssumption DEF Arrivals
<1> DEFINE q == partFile[r.upload].chunks
<1>2. q \in Seq(Nat) /\ Len(q) = r.chunk - 1 /\ DOMAIN q = 1 .. Len(q)
  BY <1>1 DEF UploadTyped, SizeFits
<1>3. \A i \in 1 .. Len(q) : q[i] = i
  BY <1>1, <1>2 DEF ChunksInOrder, SizeFits
<1>4. q = [i \in 1 .. Len(q) |-> q[i]]
  <2>1. q \in Seq(Nat)
    BY <1>2
  <2> HIDE DEF q
  <2> QED
    BY <2>1
<1> QED
  BY <1>2, <1>3, <1>4 DEF FirstChunks

\* Requests that come, are repeated or answered touch no file.
LEMMA UploadTabKeeps ==
  ASSUME UploadInv,
         \/ \E u \in LocalUploads : SendLocalChunk(u)
         \/ \E r \in Arrivals : Repeat(r) \/ TakeAnswer(r)
  PROVE  UploadInv'
<1>1. UNCHANGED <<partFile, published, raced, unnoticed>>
  BY DEF SendLocalChunk, Repeat, TakeAnswer, marks
<1>2. ASSUME NEW r \in Arrivals, Moved(r, "absent", "new"), UNCHANGED <<tab, sentChunks>>
      PROVE  UploadInv'
  <2>1. /\ \A o \in Arrivals : o # r => visit'[o] = visit[o]
        /\ visit'[r] = "new"
        /\ visit' \in [Arrivals -> Visits]
    <3>1. visit' = [visit EXCEPT ![r] = "new"] /\ "new" \in Visits
      BY <1>2 DEF Moved, Visits
    <3> QED
      BY <3>1, OneMoves DEF UploadInv
  <2> QED
    BY <1>1, <1>2, <2>1 DEF UploadInv, UploadTyped, ChunksInOrder, SizeStillFits, PublishedUpToLast
<1>3. ASSUME NEW u \in LocalUploads, SendLocalChunk(u) PROVE UploadInv'
  <2>1. [upload |-> u, chunk |-> sentChunks[u] + 1, copy |-> 1] \in Arrivals
    BY <1>3, UploadAssumption DEF UploadInv, UploadTyped, SendLocalChunk, Arrivals
  <2> QED
    BY <1>2, <1>3, <2>1 DEF SendLocalChunk
<1>4. ASSUME NEW r \in Arrivals, Repeat(r) PROVE UploadInv'
  BY <1>2, <1>4 DEF Repeat
<1>5. ASSUME NEW r \in Arrivals, TakeAnswer(r) PROVE UploadInv'
  <2>1. r.upload \in LocalUploads /\ r.chunk \in 1 .. LocalChunks /\ visit' = visit
    BY <1>5 DEF Arrivals, TakeAnswer
  <2>2. tab' \in [LocalUploads -> {"sending", "done", "error"}]
    BY <1>5, <2>1 DEF UploadInv, UploadTyped, TakeAnswer
  <2>3. sentChunks' \in [LocalUploads -> 0 .. LocalChunks]
    <3>1. /\ sentChunks \in [LocalUploads -> 0 .. LocalChunks]
          /\ sentChunks[r.upload] + 1 \in 0 .. LocalChunks
          /\ \/ sentChunks' = [sentChunks EXCEPT ![r.upload] = @ + 1]
             \/ sentChunks' = sentChunks
      BY <1>5, <2>1, UploadAssumption DEF UploadInv, UploadTyped, TakeAnswer
    <3> QED
      BY <2>1, <3>1
  <2> QED
    BY <1>1, <2>1, <2>2, <2>3 DEF UploadInv, UploadTyped, ChunksInOrder, SizeStillFits, PublishedUpToLast
<1> QED
  BY <1>3, <1>4, <1>5

\* A request for the first chunk empties the temporary file: no other request
\* relied on it, or the upload is marked.
LEMMA EmptyKeeps ==
  ASSUME UploadInv, NEW r \in Arrivals, EmptyPart(r)
  PROVE  UploadInv'
<1> DEFINE part0 == [of |-> {r.upload}, chunks |-> <<>>]
<1>1. UploadTyped /\ r.upload \in LocalUploads /\ "empty" \in Visits
  BY DEF UploadInv, Arrivals, Visits
<1>2. part0 \in [of : SUBSET LocalUploads, chunks : Seq(Nat)] /\ Len(part0.chunks) = 0
  BY <1>1
<1>3. /\ visit' = [visit EXCEPT ![r] = "empty"] /\ Changes(r, part0)
      /\ UNCHANGED <<tab, sentChunks, published, unnoticed>>
  BY DEF EmptyPart, Moved
<1> HIDE DEF part0
<1>4. /\ visit'[r] = "empty"
      /\ \A o \in Arrivals : o # r => visit'[o] = visit[o]
      /\ visit' \in [Arrivals -> Visits]
  BY <1>1, <1>3, OneMoves
<1>5. /\ partFile'[r.upload] = part0
      /\ \A u \in LocalUploads : u # r.upload => partFile'[u] = partFile[u]
      /\ partFile' \in [LocalUploads -> [of : SUBSET LocalUploads, chunks : Seq(Nat)]]
      /\ raced \subseteq raced' /\ raced' \subseteq LocalUploads
  BY <1>1, <1>2, <1>3, OneChanges
<1>6. UploadTyped'
  BY <1>1, <1>3, <1>4, <1>5 DEF UploadTyped
<1>7. ChunksInOrder'
  <2>1. part0.of = {r.upload} /\ 1 .. Len(part0.chunks) = {}
    BY <1>2 DEF part0
  <2>2. ASSUME NEW v \in LocalUploads
        PROVE  /\ partFile'[v] = NoPart \/ partFile'[v].of = {v}
               /\ v \notin raced' =>
                    \A i \in 1 .. Len(partFile'[v].chunks) : partFile'[v].chunks[i] \in {i, CutShort}
    <3>1. CASE v = r.upload
      BY <1>5, <2>1, <3>1
    <3>2. CASE v # r.upload
      BY <1>5, <3>2 DEF UploadInv, ChunksInOrder
    <3> QED
      BY <3>1, <3>2
  <2> QED
    BY <2>2 DEF ChunksInOrder
<1>8. SizeStillFits'
  <2>1. ASSUME NEW o \in Arrivals, o.upload \notin raced'
        PROVE  /\ visit'[o] = "fits" => partFile'[o.upload].chunks = FirstChunks(o.chunk - 1)
               /\ visit'[o] \in {"stored", "ready"} =>
                    UpToLast(o.upload, partFile'[o.upload].chunks, unnoticed')
    <3>1. CASE o = r
      BY <1>4, <3>1
    <3>2. CASE o # r
      BY <1>2, <1>3, <1>4, <2>1, <3>2, OthersStillFit
    <3> QED
      BY <3>1, <3>2
  <2> QED
    BY <2>1 DEF SizeStillFits
<1>9. PublishedUpToLast'
  BY <1>3, <1>5 DEF UploadInv, PublishedUpToLast
<1> QED
  BY <1>6, <1>7, <1>8, <1>9 DEF UploadInv

\* Testing the size finds out what SizeStillFits says.
LEMMA TestKeeps ==
  ASSUME UploadInv, NEW r \in Arrivals, TestSize(r)
  PROVE  UploadInv'
<1> DEFINE next == IF SizeFits(r) THEN "fits" ELSE "no"
<1>1. UploadTyped /\ ChunksInOrder /\ SizeStillFits /\ next \in Visits
  BY DEF UploadInv, Visits
<1>2. UNCHANGED <<tab, sentChunks, partFile, published, raced, unnoticed>>
  BY DEF TestSize, marks
<1>3. visit' = [visit EXCEPT ![r] = next]
  BY DEF TestSize
<1>4. /\ visit'[r] = next
      /\ \A o \in Arrivals : o # r => visit'[o] = visit[o]
      /\ visit' \in [Arrivals -> Visits]
  <2> HIDE DEF next
  <2> QED
    BY <1>1, <1>3, OneMoves
<1>5. SizeStillFits'
  <2>1. ASSUME NEW o \in Arrivals, o.upload \notin raced'
        PROVE  /\ visit'[o] = "fits" => partFile'[o.upload].chunks = FirstChunks(o.chunk - 1)
               /\ visit'[o] \in {"stored", "ready"} =>
                    UpToLast(o.upload, partFile'[o.upload].chunks, unnoticed')
    <3>1. CASE o = r
      <4>1. visit'[o] = "fits" => SizeFits(r)
        BY <1>4, <3>1
      <4>2. visit'[o] \notin {"stored", "ready"}
        BY <1>4, <3>1
      <4> QED
        BY <1>1, <1>2, <2>1, <3>1, <4>1, <4>2, FitsMeansFirst
    <3>2. CASE o # r
      BY <1>1, <1>2, <1>4, <2>1, <3>2 DEF SizeStillFits
    <3> QED
      BY <3>1, <3>2
  <2> QED
    BY <2>1 DEF SizeStillFits
<1> QED
  BY <1>1, <1>2, <1>4, <1>5 DEF UploadInv, UploadTyped, ChunksInOrder, PublishedUpToLast

\* What a chunk leaves is one chunk, a piece or nothing.
LEMMA PieceIsShort ==
  ASSUME NEW n \in Nat, NEW piece \in {<<n>>, <<CutShort>>, <<>>}
  PROVE  /\ piece \in Seq(Nat) /\ Len(piece) \in {0, 1}
         /\ Len(piece) = 1 => piece[1] \in {n, CutShort}
<1>1. CASE piece = <<n>>
  BY <1>1
<1>2. CASE piece = <<CutShort>>
  BY <1>2 DEF CutShort
<1>3. CASE piece = <<>>
  BY <1>3
<1> QED
  BY <1>1, <1>2, <1>3

\* What a chunk leaves behind the chunks before it: itself, a piece, nothing.
OneMore(n, q, piece) ==
  /\ Len(q \o piece) \in {n - 1, n}
  /\ \A i \in 1 .. Len(q \o piece) :
       (q \o piece)[i] = i \/ (i = n /\ (q \o piece)[i] = CutShort)
  /\ Len(piece) = 1 /\ piece[1] = n => q \o piece = FirstChunks(n)

LEMMA OnePieceMore ==
  ASSUME NEW n \in Nat \ {0}, NEW q \in Seq(Nat), q = FirstChunks(n - 1),
         NEW piece \in Seq(Nat), Len(piece) \in {0, 1},
         Len(piece) = 1 => piece[1] \in {n, CutShort}
  PROVE  OneMore(n, q, piece)
<1>1. Len(q) = n - 1 /\ \A i \in 1 .. n - 1 : q[i] = i
  <2>1. q = [i \in 1 .. n - 1 |-> i] /\ n - 1 \in Nat
    BY DEF FirstChunks
  <2> QED
    BY <2>1
<1>2. piece \in Seq(Nat) /\ Len(piece) \in {0, 1}
  OBVIOUS
<1>3. q \o piece \in Seq(Nat) /\ Len(q \o piece) = Len(q) + Len(piece)
  BY <1>2
<1>4. \A i \in 1 .. Len(q) : (q \o piece)[i] = q[i]
  BY <1>2, <1>3
<1>5. Len(piece) = 1 => (q \o piece)[n] = piece[1]
  BY SMTT(30), <1>1, <1>2, <1>3
<1>6. \A i \in 1 .. Len(q \o piece) : i \in 1 .. n - 1 \/ (i = n /\ Len(piece) = 1)
  <2>1. CASE Len(piece) = 0
    BY <1>1, <1>3, <2>1
  <2>2. CASE Len(piece) = 1
    <3>1. Len(q \o piece) = n
      BY <1>1, <1>3, <2>2
    <3>2. \A i \in 1 .. n : i \in 1 .. n - 1 \/ i = n
      OBVIOUS
    <3> QED
      BY <2>2, <3>1, <3>2
  <2> QED
    BY <1>2, <2>1, <2>2
<1>7. Len(piece) = 1 => piece[1] \in {n, CutShort}
  OBVIOUS
<1>8. \A i \in 1 .. Len(q \o piece) :
        (q \o piece)[i] = i \/ (i = n /\ (q \o piece)[i] = CutShort)
  BY <1>1, <1>4, <1>5, <1>6, <1>7
<1>9. ASSUME Len(piece) = 1, piece[1] = n PROVE q \o piece = FirstChunks(n)
  <2>1. Len(q \o piece) = n
    BY <1>1, <1>3, <1>9
  <2>2. \A i \in 1 .. n : (q \o piece)[i] = i
    BY <1>1, <1>4, <1>5, <1>6, <1>9, <2>1
  <2>3. q \o piece = [i \in 1 .. n |-> (q \o piece)[i]]
    BY SMTT(30), <1>3, <2>1
  <2> QED
    BY <2>2, <2>3 DEF FirstChunks
<1>10. Len(q \o piece) \in {n - 1, n}
  <2>1. CASE Len(piece) = 0
    BY <1>1, <1>3, <2>1
  <2>2. CASE Len(piece) = 1
    BY <1>1, <1>3, <2>2
  <2> QED
    BY <1>2, <2>1, <2>2
<1> QED
  BY <1>8, <1>9, <1>10 DEF OneMore

\* A chunk is appended where it belongs, whole or not.
LEMMA AppendKeeps ==
  ASSUME UploadInv, NEW r \in Arrivals, NEW piece \in {<<r.chunk>>, <<CutShort>>, <<>>},
         NEW noticed \in BOOLEAN, AppendChunk(r, piece, noticed)
  PROVE  UploadInv'
<1> DEFINE u == r.upload
           q == partFile[u].chunks
           whole == piece = <<r.chunk>>
           next == IF ~whole /\ noticed THEN "no"
                   ELSE IF r.chunk = LocalChunks THEN "stored" ELSE "yes"
           file == [of |-> {u}, chunks |-> q \o piece]
<1>1. /\ UploadTyped /\ SizeStillFits /\ u \in LocalUploads /\ r.chunk \in Nat \ {0}
      /\ next \in Visits
  BY UploadAssumption DEF UploadInv, Arrivals, Visits
<1>2. /\ UNCHANGED <<tab, sentChunks, published>>
      /\ visit[r] = "fits" /\ visit' = [visit EXCEPT ![r] = next] /\ Changes(r, file)
  BY DEF AppendChunk, Moved
<1>3. /\ unnoticed \subseteq unnoticed' /\ unnoticed' \subseteq LocalUploads
      /\ ~whole /\ ~noticed => u \in unnoticed'
  BY <1>1 DEF AppendChunk, UploadTyped
<1>4. q \in Seq(Nat) /\ piece \in Seq(Nat)
  <2>1. q \in Seq(Nat)
    BY <1>1 DEF UploadTyped
  <2>2. piece \in Seq(Nat)
    BY <1>1, PieceIsShort
  <2> QED
    BY <2>1, <2>2
<1>5. file \in [of : SUBSET LocalUploads, chunks : Seq(Nat)]
  <2>1. q \o piece \in Seq(Nat)
    BY <1>4
  <2> QED
    BY <1>1, <2>1
<1>6. /\ visit'[r] = next
      /\ \A o \in Arrivals : o # r => visit'[o] = visit[o]
      /\ visit' \in [Arrivals -> Visits]
  <2> HIDE DEF next
  <2> QED
    BY <1>1, <1>2, OneMoves
<1>7. /\ partFile'[u] = file
      /\ \A v \in LocalUploads : v # u => partFile'[v] = partFile[v]
      /\ partFile' \in [LocalUploads -> [of : SUBSET LocalUploads, chunks : Seq(Nat)]]
      /\ raced \subseteq raced' /\ raced' \subseteq LocalUploads
  <2> HIDE DEF file
  <2> QED
    BY <1>1, <1>2, <1>5, OneChanges
<1>8. UploadTyped'
  BY <1>1, <1>2, <1>3, <1>6, <1>7 DEF UploadTyped
<1>9. u \notin raced' =>
        /\ Len(q \o piece) \in {r.chunk - 1, r.chunk}
        /\ \A i \in 1 .. Len(q \o piece) :
             (q \o piece)[i] = i \/ (i = r.chunk /\ (q \o piece)[i] = CutShort)
        /\ whole => q \o piece = FirstChunks(r.chunk)
  <2> SUFFICES ASSUME u \notin raced'
               PROVE  /\ Len(q \o piece) \in {r.chunk - 1, r.chunk}
                      /\ \A i \in 1 .. Len(q \o piece) :
                           (q \o piece)[i] = i \/ (i = r.chunk /\ (q \o piece)[i] = CutShort)
                      /\ whole => q \o piece = FirstChunks(r.chunk)
    OBVIOUS
  <2>1. q = FirstChunks(r.chunk - 1)
    BY <1>1, <1>2, <1>7 DEF SizeStillFits
  <2>2. r.chunk \in Nat \ {0} /\ q \in Seq(Nat)
    BY <1>1, <1>4
  <2>3. piece \in Seq(Nat) /\ Len(piece) \in {0, 1}
    BY <1>1, PieceIsShort
  <2>4. Len(piece) = 1 => piece[1] \in {r.chunk, CutShort}
    BY <1>1, PieceIsShort
  <2>5. OneMore(r.chunk, q, piece)
    <3> HIDE DEF q
    <3> QED
      BY <2>1, <2>2, <2>3, <2>4, OnePieceMore
  <2>6. whole => Len(piece) = 1 /\ piece[1] = r.chunk
    OBVIOUS
  <2>7. /\ Len(q \o piece) \in {r.chunk - 1, r.chunk}
        /\ \A i \in 1 .. Len(q \o piece) :
             (q \o piece)[i] = i \/ (i = r.chunk /\ (q \o piece)[i] = CutShort)
        /\ Len(piece) = 1 /\ piece[1] = r.chunk => q \o piece = FirstChunks(r.chunk)
    BY <2>5, Zenon DEF OneMore
  <2>8. whole => q \o piece = FirstChunks(r.chunk)
    <3>1. Len(piece) = 1 /\ piece[1] = r.chunk => q \o piece = FirstChunks(r.chunk)
      BY <2>7
    <3> HIDE DEF whole
    <3> QED
      BY <2>6, <3>1
  <2> QED
    BY <2>7, <2>8, Zenon
<1>10. partFile'[u].of = {u} /\ partFile'[u].chunks = q \o piece
  BY <1>7
<1>11. ChunksInOrder'
  <2>1. ASSUME NEW v \in LocalUploads
        PROVE  /\ partFile'[v] = NoPart \/ partFile'[v].of = {v}
               /\ v \notin raced' =>
                    \A i \in 1 .. Len(partFile'[v].chunks) : partFile'[v].chunks[i] \in {i, CutShort}
    <3>1. CASE v = u
      BY <1>9, <1>10, <3>1
    <3>2. CASE v # u
      BY <1>7, <3>2 DEF UploadInv, ChunksInOrder
    <3> QED
      BY <3>1, <3>2
  <2> QED
    BY <2>1 DEF ChunksInOrder
<1>12. SizeStillFits'
  <2>1. ASSUME NEW o \in Arrivals, o.upload \notin raced'
        PROVE  /\ visit'[o] = "fits" => partFile'[o.upload].chunks = FirstChunks(o.chunk - 1)
               /\ visit'[o] \in {"stored", "ready"} =>
                    UpToLast(o.upload, partFile'[o.upload].chunks, unnoticed')
    <3>1. CASE o = r
      <4>1. visit'[o] \notin {"fits", "ready"}
        BY <1>6, <3>1
      <4>2. ASSUME visit'[o] = "stored" PROVE UpToLast(u, q \o piece, unnoticed')
        <5>1. r.chunk = LocalChunks /\ (whole \/ ~noticed)
          BY <1>6, <3>1, <4>2
        <5>2. q \o piece = FirstChunks(LocalChunks) \/ u \in unnoticed'
          BY <1>3, <1>9, <2>1, <3>1, <5>1
        <5> HIDE DEF q
        <5> QED
          BY <1>9, <2>1, <3>1, <5>1, <5>2 DEF UpToLast
      <4> QED
        BY <1>10, <3>1, <4>1, <4>2
    <3>2. CASE o # r
      <4> HIDE DEF file
      <4> QED
        BY <1>2, <1>3, <1>5, <1>6, <2>1, <3>2, OthersStillFit
    <3> QED
      BY <3>1, <3>2
  <2> QED
    BY <2>1 DEF SizeStillFits
<1>13. PublishedUpToLast'
  BY <1>2, <1>3, <1>7, UpToLastStays DEF UploadInv, PublishedUpToLast
<1> QED
  BY <1>8, <1>11, <1>12, <1>13 DEF UploadInv

\* The old destination is removed.
LEMMA RemoveKeeps ==
  ASSUME UploadInv, NEW r \in Arrivals, RemoveOld(r)
  PROVE  UploadInv'
<1>1. /\ UploadTyped /\ SizeStillFits /\ "ready" \in Visits
      /\ UNCHANGED <<tab, sentChunks, partFile, raced, unnoticed>> /\ published' = NoPart
      /\ visit[r] = "stored" /\ visit' = [visit EXCEPT ![r] = "ready"]
  BY DEF UploadInv, RemoveOld, Moved, marks, Visits
<1>2. /\ visit'[r] = "ready"
      /\ \A o \in Arrivals : o # r => visit'[o] = visit[o]
      /\ visit' \in [Arrivals -> Visits]
  BY <1>1, OneMoves
<1>3. SizeStillFits'
  BY <1>1, <1>2 DEF SizeStillFits
<1> QED
  BY <1>1, <1>2, <1>3 DEF UploadInv, UploadTyped, ChunksInOrder, PublishedUpToLast

\* The file system refuses: the files stay.
LEMMA FailureKeeps ==
  ASSUME UploadInv, NEW r \in Arrivals, FileSystemFails(r)
  PROVE  UploadInv'
<1>1. /\ UploadTyped /\ SizeStillFits /\ "no" \in Visits
      /\ UNCHANGED <<tab, sentChunks, partFile, published, raced, unnoticed>>
      /\ visit' = [visit EXCEPT ![r] = "no"]
  BY DEF UploadInv, FileSystemFails, marks, Visits
<1>2. /\ visit'[r] = "no"
      /\ \A o \in Arrivals : o # r => visit'[o] = visit[o]
      /\ visit' \in [Arrivals -> Visits]
  BY <1>1, OneMoves
<1>3. SizeStillFits'
  BY <1>1, <1>2 DEF SizeStillFits
<1> QED
  BY <1>1, <1>2, <1>3 DEF UploadInv, UploadTyped, ChunksInOrder, PublishedUpToLast

\* The temporary file that takes the name is the one that was tested.
LEMMA RenameKeeps ==
  ASSUME UploadInv, NEW r \in Arrivals, RenamePart(r)
  PROVE  UploadInv'
<1> DEFINE u == r.upload
           next == IF partFile[u] = NoPart THEN "no" ELSE "yes"
<1>1. UploadTyped /\ SizeStillFits /\ u \in LocalUploads /\ next \in Visits
  BY DEF UploadInv, Arrivals, Visits
<1>2. /\ UNCHANGED <<tab, sentChunks, unnoticed>> /\ Changes(r, NoPart)
      /\ visit[r] = "ready" /\ visit' = [visit EXCEPT ![r] = next]
      /\ published' = IF partFile[u] = NoPart THEN published ELSE partFile[u]
  BY DEF RenamePart, Moved
<1>3. /\ visit'[r] = next
      /\ \A o \in Arrivals : o # r => visit'[o] = visit[o]
      /\ visit' \in [Arrivals -> Visits]
  <2> HIDE DEF next
  <2> QED
    BY <1>1, <1>2, OneMoves
<1>4. NoPart \in [of : SUBSET LocalUploads, chunks : Seq(Nat)] /\ Len(NoPart.chunks) = 0
  BY DEF NoPart
<1>5. /\ partFile'[u] = NoPart
      /\ \A v \in LocalUploads : v # u => partFile'[v] = partFile[v]
      /\ partFile' \in [LocalUploads -> [of : SUBSET LocalUploads, chunks : Seq(Nat)]]
      /\ raced \subseteq raced' /\ raced' \subseteq LocalUploads
  BY <1>1, <1>2, <1>4, OneChanges
<1>6. UploadTyped'
  BY <1>1, <1>2, <1>3, <1>5 DEF UploadTyped
<1>7. ChunksInOrder'
  <2>1. ASSUME NEW v \in LocalUploads
        PROVE  /\ partFile'[v] = NoPart \/ partFile'[v].of = {v}
               /\ v \notin raced' =>
                    \A i \in 1 .. Len(partFile'[v].chunks) : partFile'[v].chunks[i] \in {i, CutShort}
    <3>1. CASE v = u
      <4>1. 1 .. Len(partFile'[v].chunks) = {}
        BY <1>4, <1>5, <3>1
      <4> QED
        BY <1>5, <3>1, <4>1
    <3>2. CASE v # u
      BY <1>5, <3>2 DEF UploadInv, ChunksInOrder
    <3> QED
      BY <3>1, <3>2
  <2> QED
    BY <2>1 DEF ChunksInOrder
<1>8. SizeStillFits'
  <2>1. ASSUME NEW o \in Arrivals, o.upload \notin raced'
        PROVE  /\ visit'[o] = "fits" => partFile'[o.upload].chunks = FirstChunks(o.chunk - 1)
               /\ visit'[o] \in {"stored", "ready"} =>
                    UpToLast(o.upload, partFile'[o.upload].chunks, unnoticed')
    <3>1. CASE o = r
      BY <1>3, <3>1
    <3>2. CASE o # r
      BY <1>2, <1>3, <1>4, <2>1, <3>2, OthersStillFit
    <3> QED
      BY <3>1, <3>2
  <2> QED
    BY <2>1 DEF SizeStillFits
<1>9. PublishedUpToLast'
  <2>1. CASE partFile[u] = NoPart
    BY <1>2, <1>5, <2>1 DEF UploadInv, PublishedUpToLast
  <2>2. CASE partFile[u] # NoPart
    <3>1. published' = partFile[u] /\ partFile[u].of = {u}
      BY <1>1, <1>2, <2>2 DEF UploadInv, ChunksInOrder
    <3>2. u \notin raced' => UpToLast(u, partFile[u].chunks, unnoticed')
      BY <1>1, <1>2, <1>5 DEF SizeStillFits
    <3> QED
      BY <1>1, <3>1, <3>2 DEF PublishedUpToLast
  <2> QED
    BY <2>1, <2>2
<1> QED
  BY <1>6, <1>7, <1>8, <1>9 DEF UploadInv

\* Every step keeps UploadInv.
LEMMA UploadKeeps == UploadInv /\ [UploadNext]_uploadVars => UploadInv'
<1> SUFFICES ASSUME UploadInv, [UploadNext]_uploadVars PROVE UploadInv'
  OBVIOUS
<1>1. CASE UNCHANGED uploadVars
  BY <1>1 DEF uploadVars, UploadInv, UploadTyped, ChunksInOrder, SizeStillFits, PublishedUpToLast
<1>2. CASE \/ \E u \in LocalUploads : SendLocalChunk(u)
           \/ \E r \in Arrivals : Repeat(r) \/ TakeAnswer(r)
  BY <1>2, UploadTabKeeps
<1>3. ASSUME NEW r \in Arrivals,
             \/ EmptyPart(r) \/ TestSize(r) \/ RemoveOld(r) \/ RenamePart(r) \/ FileSystemFails(r)
             \/ \E piece \in {<<r.chunk>>, <<CutShort>>, <<>>}, noticed \in BOOLEAN :
                  AppendChunk(r, piece, noticed)
      PROVE  UploadInv'
  BY <1>3, EmptyKeeps, TestKeeps, RemoveKeeps, RenameKeeps, AppendKeeps, FailureKeeps
<1> QED
  BY <1>1, <1>2, <1>3 DEF UploadNext

\* What it promises: the types, and the file as far as the server can tell.
LEMMA UploadInvPromise == UploadInv => UploadTypeOK /\ UploadedWholeOrLostAtClose
<1> SUFFICES ASSUME UploadInv PROVE UploadTypeOK /\ UploadedWholeOrLostAtClose
  OBVIOUS
<1>1. UploadTypeOK
  BY DEF UploadInv, UploadTyped, UploadTypeOK, Visits
<1>2. UploadedWholeOrLostAtClose
  BY DEF UploadInv, PublishedUpToLast, UploadedWholeOrLostAtClose, UpToLast, FirstChunks
<1> QED
  BY <1>1, <1>2

\* Whatever requests come, twice, late or in the wrong order, and wherever a
\* write stops: the destination is the whole file, unless its temporary file
\* was changed under a request that had tested it, or the end of the last chunk
\* was lost when the stream was closed (WriteUploadChunk).
THEOREM UploadPromise == UploadSpec => [](UploadTypeOK /\ UploadedWholeOrLostAtClose)
<1>1. UploadSpec => []UploadInv
  BY UploadStarts, UploadKeeps, PTL DEF UploadSpec
<1> QED
  BY <1>1, UploadInvPromise, PTL

-----------------------------------------------------------------------------
(* Downloads over SFTP                                                     *)
(*                                                                         *)
(* The end of the stream does not tell the browser whether the file was    *)
(* whole, the status does, and the status is set after the stream is       *)
(* closed.  A success is a thread that has ended without a failure.        *)

PanelStates == {"none", "queued", "downloading", "success", "error", "dismissed"}
StreamStates == {"none", "requested", "open", "closed", "broken"}

DownloadTyped ==
  /\ DownloadTypeOK
  /\ failure \in [Downloads -> BOOLEAN]
  /\ remote \in [Downloads -> 0 .. MaxPieces + 1]
  /\ total \in [Downloads -> 0 .. MaxPieces + 1]

\* A thread that has finished without a failure; it never starts again.
Finished(d) == copying[d] = "ended" /\ ~failure[d]

Sound(d) ==
  /\ panel[d] \in {"none", "queued"} => stream[d] = "none"
  /\ stream[d] \in {"none", "requested"} => copying[d] = "none"
  /\ stream[d] = "closed" => copying[d] \in {"reporting", "ended"}
  /\ copying[d] \in {"completing", "reporting", "ended"} /\ ~failure[d] => carried[d] = total[d]
  /\ status[d] = "success" => Finished(d)
  /\ panel[d] = "success" => Finished(d)
  /\ saved[d] # Unsaved => stream[d] = "closed" /\ saved[d] = carried[d]

DownloadInv == DownloadTyped /\ \A d \in Downloads : Sound(d)

-----------------------------------------------------------------------------
\* What pumpDownloadQueue makes of the panel p: queued downloads are asked
\* for, no more than may be at once.
LEMMA PumpEffect ==
  ASSUME DownloadTyped, NEW p \in [Downloads -> PanelStates],
         With(p, "downloading") \subseteq With(panel, "downloading"), Pump(p)
  PROVE  /\ panel' \in [Downloads -> PanelStates]
         /\ stream' \in [Downloads -> StreamStates]
         /\ Cardinality(With(panel', "downloading")) <= AtOnce
         /\ \A e \in Downloads :
              \/ panel'[e] = p[e] /\ stream'[e] = stream[e]
              \/ p[e] = "queued" /\ panel'[e] = "downloading" /\ stream'[e] = "requested"
<1>1. PICK S \in SUBSET With(p, "queued") :
        /\ Cardinality(S) = Fewer(Cardinality(With(p, "queued")),
                                  AtOnce - Cardinality(With(p, "downloading")))
        /\ panel' = [d \in Downloads |-> IF d \in S THEN "downloading" ELSE p[d]]
        /\ stream' = [d \in Downloads |-> IF d \in S THEN "requested" ELSE stream[d]]
  BY DEF Pump
<1>2. \A e \in S : e \in Downloads /\ p[e] = "queued"
  BY DEF With
<1>3. panel' \in [Downloads -> PanelStates] /\ stream' \in [Downloads -> StreamStates]
  BY <1>1 DEF DownloadTyped, DownloadTypeOK, PanelStates, StreamStates
<1>4. \A e \in Downloads :
        \/ panel'[e] = p[e] /\ stream'[e] = stream[e]
        \/ p[e] = "queued" /\ panel'[e] = "downloading" /\ stream'[e] = "requested"
  BY <1>1, <1>2
<1> DEFINE before == With(p, "downloading")
<1>5. IsFiniteSet(before) /\ IsFiniteSet(S) /\ IsFiniteSet(With(panel, "downloading"))
  BY <1>2, DownloadAssumption, FS_Subset DEF With
<1>6. Cardinality(before) <= Cardinality(With(panel, "downloading"))
  BY <1>5, FS_Subset
<1>7. /\ Cardinality(before) \in Nat /\ Cardinality(S) \in Nat
      /\ Cardinality(With(panel, "downloading")) \in Nat
  BY <1>5, FS_CardinalityType
<1>8. With(panel', "downloading") = before \cup S
  BY <1>1, <1>2 DEF With
<1>9. before \cap S = {}
  BY <1>2 DEF With
<1>10. Cardinality(before \cup S) = Cardinality(before) + Cardinality(S)
  <2>1. Cardinality(before \cup S) = Cardinality(before) + Cardinality(S) - Cardinality(before \cap S)
    BY <1>5, FS_Union
  <2>2. Cardinality(before \cap S) = 0
    BY <1>9, FS_EmptySet
  <2> QED
    BY <1>7, <2>1, <2>2
<1>11. Cardinality(S) <= AtOnce - Cardinality(before)
  <2>1. Cardinality(With(p, "queued")) \in Nat
    <3>1. IsFiniteSet(With(p, "queued"))
      BY DownloadAssumption, FS_Subset DEF With
    <3> QED
      BY <3>1, FS_CardinalityType
  <2> QED
    BY <1>1, <1>7, <2>1, DownloadAssumption DEF Fewer
<1>12. Cardinality(With(panel', "downloading")) <= AtOnce
  <2>1. AtOnce \in Nat
    BY DownloadAssumption
  <2>2. Cardinality(before \cup S) <= AtOnce
    BY <1>7, <1>10, <1>11, <2>1
  <2> QED
    BY <1>8, <2>2
<1> QED
  BY <1>3, <1>4, <1>12

\* The first state: nothing is downloaded.
LEMMA DownloadStarts == DownloadInit => DownloadInv
<1> SUFFICES ASSUME DownloadInit PROVE DownloadInv
  OBVIOUS
<1>1. Cardinality(With(panel, "downloading")) <= AtOnce
  <2>1. With(panel, "downloading") = {}
    BY DEF DownloadInit, With
  <2> QED
    BY <2>1, FS_EmptySet, DownloadAssumption
<1>2. DownloadTyped
  BY <1>1, DownloadAssumption DEF DownloadInit, DownloadTyped, DownloadTypeOK, Unsaved
<1>3. \A d \in Downloads : Sound(d)
  BY DEF DownloadInit, Sound
<1> QED
  BY <1>2, <1>3 DEF DownloadInv

\* A step of the tab that pumps the queue: d becomes what the panel p says,
\* and a success only if the record says so.
LEMMA PumpKeeps ==
  ASSUME DownloadInv, NEW p \in [Downloads -> PanelStates], Pump(p),
         UNCHANGED <<carried, saved, status, copying, failure, remote, total>>,
         \A d \in Downloads :
           \/ p[d] = panel[d]
           \/ panel[d] = "none" /\ p[d] = "queued"
           \/ panel[d] = "downloading" /\ p[d] = "error"
           \/ panel[d] = "downloading" /\ p[d] = "success" /\ status[d] = "success"
  PROVE  DownloadInv'
<1>1. With(p, "downloading") \subseteq With(panel, "downloading") /\ DownloadTyped
  BY DEF With, DownloadInv
<1>2. /\ panel' \in [Downloads -> PanelStates]
      /\ stream' \in [Downloads -> StreamStates]
      /\ Cardinality(With(panel', "downloading")) <= AtOnce
      /\ \A e \in Downloads :
           \/ panel'[e] = p[e] /\ stream'[e] = stream[e]
           \/ p[e] = "queued" /\ panel'[e] = "downloading" /\ stream'[e] = "requested"
  BY <1>1, PumpEffect
<1>3. DownloadTyped'
  BY <1>1, <1>2 DEF DownloadTyped, DownloadTypeOK, PanelStates, StreamStates
<1>4. ASSUME NEW d \in Downloads PROVE Sound(d)'
  <2>1. /\ Sound(d)
        /\ \/ p[d] = panel[d]
           \/ panel[d] = "none" /\ p[d] = "queued"
           \/ panel[d] = "downloading" /\ p[d] = "error"
           \/ panel[d] = "downloading" /\ p[d] = "success" /\ status[d] = "success"
        /\ \/ panel'[d] = p[d] /\ stream'[d] = stream[d]
           \/ p[d] = "queued" /\ panel'[d] = "downloading" /\ stream'[d] = "requested"
    BY <1>2 DEF DownloadInv
  <2> QED
    BY <2>1 DEF Sound, Finished
<1> QED
  BY <1>3, <1>4 DEF DownloadInv

\* The other steps change one download and pump nothing.
Other(d) ==
  \/ SaveStream(d) \/ BreakStream(d) \/ Dismiss(d) \/ StartDownload(d) \/ OpenRemote(d)
  \/ CopyPiece(d) \/ EndOfFile(d) \/ DownloadFails(d) \/ CloseStream(d) \/ Report(d)
  \/ ChangeRemote(d)

LEMMA OtherTyped ==
  ASSUME DownloadTyped, NEW d \in Downloads, Other(d)
  PROVE  DownloadTyped'
<1>1. /\ panel' \in [Downloads -> PanelStates]
      /\ \A e \in Downloads : panel'[e] = "downloading" => panel[e] = "downloading"
  BY DEF DownloadTyped, DownloadTypeOK, PanelStates, Other, SaveStream, BreakStream, Dismiss, StartDownload,
       OpenRemote, CopyPiece, EndOfFile, DownloadFails, CloseStream, Report, ChangeRemote
<1>2. Cardinality(With(panel', "downloading")) <= AtOnce
  <2>1. IsFiniteSet(With(panel, "downloading")) /\ With(panel', "downloading") \subseteq With(panel, "downloading")
    BY <1>1, DownloadAssumption, FS_Subset DEF With
  <2>2. /\ Cardinality(With(panel', "downloading")) <= Cardinality(With(panel, "downloading"))
        /\ Cardinality(With(panel', "downloading")) \in Nat
        /\ Cardinality(With(panel, "downloading")) \in Nat
    BY <2>1, FS_Subset, FS_CardinalityType
  <2> QED
    BY <2>2, DownloadAssumption DEF DownloadTyped, DownloadTypeOK
<1>3. /\ stream' \in [Downloads -> StreamStates]
      /\ status' \in [Downloads -> {"none", "busy", "success", "error"}]
      /\ copying' \in [Downloads -> {"none", "starting", "reading", "completing", "reporting", "ended"}]
      /\ failure' \in [Downloads -> BOOLEAN]
  BY DEF DownloadTyped, DownloadTypeOK, StreamStates, Other, SaveStream, BreakStream, Dismiss, StartDownload,
       OpenRemote, CopyPiece, EndOfFile, DownloadFails, CloseStream, Report, ChangeRemote, IsComplete
<1>4. carried' \in [Downloads -> 0 .. MaxPieces + 1]
  <2>1. CASE CopyPiece(d)
    <3>1. carried[d] + 1 \in 0 .. MaxPieces + 1
      BY <2>1, DownloadAssumption DEF DownloadTyped, DownloadTypeOK, CopyPiece
    <3> QED
      BY <2>1, <3>1 DEF DownloadTyped, DownloadTypeOK, CopyPiece
  <2>2. CASE ~CopyPiece(d)
    BY <2>2 DEF DownloadTyped, DownloadTypeOK, Other, SaveStream, BreakStream, Dismiss, StartDownload,
       OpenRemote, EndOfFile, DownloadFails, CloseStream, Report, ChangeRemote
  <2> QED
    BY <2>1, <2>2
<1>5. /\ saved' \in [Downloads -> {Unsaved} \cup 0 .. MaxPieces + 1]
      /\ total' \in [Downloads -> 0 .. MaxPieces + 1]
      /\ remote' \in [Downloads -> 0 .. MaxPieces + 1]
  BY DEF DownloadTyped, DownloadTypeOK, Other, SaveStream, BreakStream, Dismiss, StartDownload,
       OpenRemote, CopyPiece, EndOfFile, DownloadFails, CloseStream, Report, ChangeRemote
<1> QED
  BY <1>1, <1>2, <1>3, <1>4, <1>5 DEF DownloadTyped, DownloadTypeOK, PanelStates, StreamStates

LEMMA OtherKeeps ==
  ASSUME DownloadInv, NEW d \in Downloads, Other(d)
  PROVE  DownloadInv'
<1>1. DownloadTyped'
  BY OtherTyped DEF DownloadInv
<1>2. ASSUME NEW e \in Downloads, e # d PROVE Sound(e)'
  <2>1. /\ panel'[e] = panel[e] /\ stream'[e] = stream[e] /\ carried'[e] = carried[e]
        /\ saved'[e] = saved[e] /\ status'[e] = status[e] /\ copying'[e] = copying[e]
        /\ failure'[e] = failure[e] /\ total'[e] = total[e]
    BY <1>2 DEF DownloadInv, DownloadTyped, DownloadTypeOK, Other, SaveStream, BreakStream, Dismiss, StartDownload,
       OpenRemote, CopyPiece, EndOfFile, DownloadFails, CloseStream, Report, ChangeRemote
  <2> QED
    BY <2>1 DEF DownloadInv, Sound, Finished
<1>3. Sound(d)'
  <2>1. Sound(d) /\ DownloadTyped
    BY DEF DownloadInv
  <2>2. CASE SaveStream(d) \/ BreakStream(d) \/ Dismiss(d)
    BY <2>1, <2>2 DEF Sound, Finished, DownloadTyped, DownloadTypeOK, SaveStream, BreakStream, Dismiss
  <2>3. CASE StartDownload(d) \/ OpenRemote(d) \/ ChangeRemote(d)
    BY <2>1, <2>3 DEF Sound, Finished, DownloadTyped, DownloadTypeOK, StartDownload, OpenRemote, ChangeRemote
  <2>4. CASE CopyPiece(d) \/ DownloadFails(d)
    BY <2>1, <2>4 DEF Sound, Finished, DownloadTyped, DownloadTypeOK, CopyPiece, DownloadFails
  <2>5. CASE EndOfFile(d)
    BY <2>1, <2>5 DEF Sound, Finished, DownloadTyped, DownloadTypeOK, EndOfFile, IsComplete
  <2>6. CASE CloseStream(d) \/ Report(d)
    BY <2>1, <2>6 DEF Sound, Finished, DownloadTyped, DownloadTypeOK, CloseStream, Report
  <2> QED
    BY <2>2, <2>3, <2>4, <2>5, <2>6 DEF Other
<1> QED
  BY <1>1, <1>2, <1>3 DEF DownloadInv

\* Every step keeps DownloadInv.
LEMMA DownloadKeeps == DownloadInv /\ [DownloadNext]_downloadVars => DownloadInv'
<1> SUFFICES ASSUME DownloadInv, [DownloadNext]_downloadVars PROVE DownloadInv'
  OBVIOUS
<1>1. panel \in [Downloads -> PanelStates]
  BY DEF DownloadInv, DownloadTyped, DownloadTypeOK, PanelStates
<1>2. CASE PumpQueue
  BY <1>1, <1>2, PumpKeeps DEF PumpQueue
<1>3. ASSUME NEW d \in Downloads, DownloadItem(d) PROVE DownloadInv'
  <2>1. [panel EXCEPT ![d] = "queued"] \in [Downloads -> PanelStates]
    BY <1>1 DEF PanelStates
  <2> QED
    BY <1>1, <1>3, <2>1, PumpKeeps DEF DownloadItem
<1>4. ASSUME NEW d \in Downloads, PollDownload(d) PROVE DownloadInv'
  <2>1. [panel EXCEPT ![d] = status[d]] \in [Downloads -> PanelStates]
    BY <1>1, <1>4 DEF PanelStates, PollDownload
  <2> QED
    BY <1>1, <1>4, <2>1, PumpKeeps DEF PollDownload
<1>5. ASSUME NEW d \in Downloads, GiveUpPolling(d) PROVE DownloadInv'
  <2>1. [panel EXCEPT ![d] = "error"] \in [Downloads -> PanelStates]
    BY <1>1 DEF PanelStates
  <2> QED
    BY <1>1, <1>5, <2>1, PumpKeeps DEF GiveUpPolling
<1>6. ASSUME NEW d \in Downloads, Other(d) PROVE DownloadInv'
  BY <1>6, OtherKeeps
<1>7. CASE UNCHANGED downloadVars
  BY <1>7 DEF downloadVars, DownloadInv, DownloadTyped, DownloadTypeOK, Sound, Finished, With
<1> QED
  BY <1>2, <1>3, <1>4, <1>5, <1>6, <1>7 DEF DownloadNext, Other

LEMMA DownloadInvPromise == DownloadInv => DownloadTypeOK /\ DownloadedIsWhole
BY DEF DownloadInv, DownloadTyped, Sound, Finished, DownloadedIsWhole

\* However many downloads there are, and wherever one fails: no more than
\* maximumConcurrentDownloads run at once, and what the tab calls a success
\* was put on the stream, and saved, as a whole (DownloadState).
THEOREM DownloadPromise == DownloadSpec => [](DownloadTypeOK /\ DownloadedIsWhole)
<1>1. DownloadSpec => []DownloadInv
  BY DownloadStarts, DownloadKeeps, PTL DEF DownloadSpec
<1> QED
  BY <1>1, DownloadInvPromise, PTL

-----------------------------------------------------------------------------
(* Forwarded ports                                                         *)
(*                                                                         *)
(* Each direction is on its own: what its two ends did not agree on is     *)
(* what the relay holds.  It takes units only when it holds none.          *)

StreamRecord == [said : 0 .. MaxUnits, taken : Nat, pending : Seq(1 .. MaxUnits), got : Seq(1 .. MaxUnits)]

InOrder(s) ==
  /\ s \in StreamRecord
  /\ s.taken <= s.said
  /\ s.got \o s.pending = Numbered(0, s.taken)

ForwardInv ==
  /\ forward \in {"none", "starting", "listening", "opening", "relaying", "failed"}
  /\ asked \in BOOLEAN
  /\ ended \subseteq {"client", "remote"}
  /\ InOrder(up) /\ InOrder(down)

-----------------------------------------------------------------------------
\* Units are numbered on.
LEMMA NumberedType ==
  ASSUME NEW first \in Nat, NEW n \in Nat, first + n <= MaxUnits
  PROVE  /\ Numbered(first, n) \in Seq(1 .. MaxUnits)
         /\ Len(Numbered(first, n)) = n
         /\ \A i \in 1 .. n : Numbered(first, n)[i] = first + i
<1>1. \A i \in 1 .. n : first + i \in 1 .. MaxUnits
  BY ForwardAssumption
<1>2. Numbered(first, n) \in [1 .. n -> 1 .. MaxUnits]
  BY <1>1 DEF Numbered
<1> QED
  BY <1>2 DEF Numbered

LEMMA QuietInOrder == InOrder(Quiet)
<1>1. Quiet.got \o Quiet.pending = Numbered(0, 0)
  <2>1. Numbered(0, 0) \in Seq(1 .. MaxUnits) /\ Len(Numbered(0, 0)) = 0
    BY NumberedType, ForwardAssumption
  <2>2. Numbered(0, 0) = <<>>
    BY <2>1
  <2> QED
    BY <2>2 DEF Quiet
<1>2. Quiet \in StreamRecord
  BY ForwardAssumption DEF Quiet, StreamRecord
<1> QED
  BY <1>1, <1>2 DEF Quiet, InOrder

\* What Take and Deliver make of a stream.
LEMMA StreamChange ==
  ASSUME NEW s \in StreamRecord, NEW x, NEW y
  PROVE  /\ [s EXCEPT !.taken = x, !.pending = y]
              = [said |-> s.said, taken |-> x, pending |-> y, got |-> s.got]
         /\ [s EXCEPT !.got = x, !.pending = y]
              = [said |-> s.said, taken |-> s.taken, pending |-> y, got |-> x]
<1> DEFINE t == [s EXCEPT !.taken = x, !.pending = y]
           u == [s EXCEPT !.got = x, !.pending = y]
<1>1. s \in [{"said", "taken", "pending", "got"} -> {s.said, s.taken, s.pending, s.got}]
  BY DEF StreamRecord
<1>2. /\ t.said = s.said /\ t.taken = x /\ t.pending = y /\ t.got = s.got
      /\ u.said = s.said /\ u.taken = s.taken /\ u.pending = y /\ u.got = x
  BY <1>1
<1>3. /\ t = [f \in {"said", "taken", "pending", "got"} |-> t[f]]
      /\ u = [f \in {"said", "taken", "pending", "got"} |-> u[f]]
  BY <1>1
<1> HIDE DEF t, u
<1>4. /\ t = [said |-> t.said, taken |-> t.taken, pending |-> t.pending, got |-> t.got]
      /\ u = [said |-> u.said, taken |-> u.taken, pending |-> u.pending, got |-> u.got]
  BY <1>3
<1>5. t = [said |-> s.said, taken |-> x, pending |-> y, got |-> s.got]
  BY <1>2, <1>4
<1>6. u = [said |-> s.said, taken |-> s.taken, pending |-> y, got |-> x]
  BY <1>2, <1>4
<1> QED
  BY <1>5, <1>6 DEF t, u

LEMMA TakeFields ==
  ASSUME NEW s \in StreamRecord, NEW n \in Nat
  PROVE  Take(s, n) = [said |-> s.said, taken |-> s.taken + n,
                       pending |-> Numbered(s.taken, n), got |-> s.got]
BY ZenonT(30), StreamChange DEF Take

LEMMA DeliverFields ==
  ASSUME NEW s \in StreamRecord, NEW k \in Nat
  PROVE  Deliver(s, k) = [said |-> s.said, taken |-> s.taken,
                          pending |-> SubSeq(s.pending, k + 1, Len(s.pending)),
                          got |-> s.got \o SubSeq(s.pending, 1, k)]
BY StreamChange DEF Deliver

\* An empty relay takes what comes next.
LEMMA TakeInOrder ==
  ASSUME NEW s, InOrder(s), s.pending = <<>>, NEW n \in 0 .. s.said - s.taken
  PROVE  InOrder(Take(s, n))
<1>1. s \in StreamRecord /\ s.got \in Seq(1 .. MaxUnits)
  BY DEF InOrder, StreamRecord
<1>2. /\ s.taken \in Nat /\ s.said \in 0 .. MaxUnits /\ n \in Nat
      /\ s.taken + n \in Nat /\ s.taken + n <= s.said /\ s.taken + n <= MaxUnits /\ s.taken <= MaxUnits
  <2>1. s.taken \in Nat /\ s.said \in 0 .. MaxUnits /\ s.taken <= s.said
    BY <1>1 DEF InOrder, StreamRecord
  <2> QED
    BY <2>1, ForwardAssumption
<1> DEFINE p == Numbered(s.taken, n)
           q == Numbered(0, s.taken + n)
<1>3. p \in Seq(1 .. MaxUnits) /\ Len(p) = n /\ \A i \in 1 .. n : p[i] = s.taken + i
  BY <1>2, NumberedType
<1>4. q \in Seq(1 .. MaxUnits) /\ Len(q) = s.taken + n /\ \A i \in 1 .. s.taken + n : q[i] = i
  <2>1. 0 + (s.taken + n) <= MaxUnits
    BY <1>2
  <2>2. q \in Seq(1 .. MaxUnits) /\ Len(q) = s.taken + n /\ \A i \in 1 .. s.taken + n : q[i] = 0 + i
    BY <1>2, <2>1, NumberedType
  <2> HIDE DEF q
  <2> QED
    BY <2>2
<1>5. s.got = Numbered(0, s.taken)
  BY <1>1, ConcatEmptySeq DEF InOrder
<1>6. Len(s.got) = s.taken /\ \A i \in 1 .. s.taken : s.got[i] = i
  <2>1. 0 + s.taken <= MaxUnits
    BY <1>2
  <2>2. Len(Numbered(0, s.taken)) = s.taken /\ \A i \in 1 .. s.taken : Numbered(0, s.taken)[i] = 0 + i
    BY <1>2, <2>1, NumberedType
  <2>3. \A i \in 1 .. s.taken : 0 + i = i
    OBVIOUS
  <2> QED
    BY <1>5, <2>2, <2>3
<1> HIDE DEF p, q
<1>7. s.got \o p = q
  <2>1. /\ s.got \o p \in Seq(1 .. MaxUnits) /\ Len(s.got \o p) = Len(s.got) + Len(p)
        /\ \A i \in 1 .. Len(s.got) + Len(p) :
             (s.got \o p)[i] = IF i <= Len(s.got) THEN s.got[i] ELSE p[i - Len(s.got)]
    BY <1>1, <1>3, ConcatProperties
  <2>2. ASSUME NEW i \in 1 .. s.taken + n PROVE (s.got \o p)[i] = q[i]
    <3>1. i \in Nat /\ i >= 1 /\ i <= s.taken + n
      BY <1>2
    <3>2. CASE i <= s.taken
      BY <1>2, <1>3, <1>4, <1>6, <2>1, <3>1, <3>2
    <3>3. CASE i > s.taken
      <4>1. i - s.taken \in 1 .. n /\ s.taken + (i - s.taken) = i
        BY <1>2, <3>1, <3>3
      <4>2. (s.got \o p)[i] = p[i - s.taken]
        BY <1>2, <1>3, <1>6, <2>1, <3>1, <3>3
      <4> QED
        BY <1>3, <1>4, <4>1, <4>2
    <3>4. s.taken \in Nat
      BY <1>2
    <3>5. i <= s.taken \/ i > s.taken
      BY <3>1, <3>4
    <3> QED
      BY <3>2, <3>3, <3>5
  <2>3. Len(s.got \o p) = Len(q) /\ \A i \in 1 .. Len(s.got \o p) : (s.got \o p)[i] = q[i]
    BY <1>3, <1>4, <1>6, <2>1, <2>2
  <2> QED
    BY <1>4, <2>1, <2>3, SeqEqual
<1> DEFINE t == Take(s, n)
<1>8. /\ t.said = s.said /\ t.taken = s.taken + n /\ t.pending = p /\ t.got = s.got
      /\ t = [said |-> s.said, taken |-> s.taken + n, pending |-> p, got |-> s.got]
  <2>1. t = [said |-> s.said, taken |-> s.taken + n, pending |-> p, got |-> s.got]
    BY <1>1, <1>2, TakeFields DEF p
  <2> QED
    BY <2>1
<1>9. t \in StreamRecord
  BY <1>1, <1>2, <1>3, <1>8 DEF StreamRecord
<1> HIDE DEF t
<1>10. InOrder(t)
  BY <1>2, <1>7, <1>8, <1>9 DEF InOrder, q
<1> QED
  BY <1>10 DEF t

\* A short write leaves the rest where it was.
LEMMA DeliverInOrder ==
  ASSUME NEW s, InOrder(s), NEW k \in 0 .. Len(s.pending)
  PROVE  InOrder(Deliver(s, k))
<1> DEFINE p == s.pending
           g == s.got
           a == SubSeq(p, 1, k)
           b == SubSeq(p, k + 1, Len(p))
           t == Deliver(s, k)
<1>1. s \in StreamRecord /\ p \in Seq(1 .. MaxUnits) /\ g \in Seq(1 .. MaxUnits)
  BY DEF InOrder, StreamRecord
<1>2. Len(p) \in Nat /\ k \in 0 .. Len(p) /\ k \in Nat
  BY <1>1
<1>3. t = [said |-> s.said, taken |-> s.taken, pending |-> b, got |-> g \o a]
  BY <1>1, <1>2, DeliverFields
<1> HIDE DEF t, p, g
<1>4. \A i \in 1 .. Len(p) : p[i] \in 1 .. MaxUnits
  BY <1>1, ElementOfSeq
<1>5. a \in Seq(1 .. MaxUnits)
  <2>1. \A i \in 1 .. k : p[i] \in 1 .. MaxUnits
    BY <1>2, <1>4
  <2> QED
    BY <1>2, <2>1, SubSeqProperties
<1>6. b \in Seq(1 .. MaxUnits)
  <2>1. \A i \in k + 1 .. Len(p) : p[i] \in 1 .. MaxUnits
    BY <1>2, <1>4
  <2> QED
    BY <1>2, <2>1, SubSeqProperties
<1>7. a \o b = p
  <2>1. 1 \in 1 .. Len(p) + 1 /\ k \in 1 - 1 .. Len(p) /\ Len(p) \in k .. Len(p)
    BY <1>2
  <2>2. a \o b = SubSeq(p, 1, Len(p))
    BY <1>1, <2>1, ConcatAdjacentSubSeq
  <2> QED
    BY <1>1, <2>2, SubSeqFull
<1> HIDE DEF a, b
<1>8. (g \o a) \o b = g \o p
  <2>1. (g \o a) \o b = g \o (a \o b)
    BY SMTT(30), <1>1, <1>5, <1>6, ConcatAssociative
  <2> QED
    BY <1>7, <2>1
<1>9. g \o a \in Seq(1 .. MaxUnits)
  BY <1>1, <1>5, ConcatProperties
<1>10. t \in StreamRecord
  BY <1>1, <1>3, <1>6, <1>9 DEF StreamRecord
<1>11. InOrder(t)
  BY <1>3, <1>8, <1>10 DEF InOrder, p, g
<1> QED
  BY <1>11 DEF t

\* A round of one direction.
LEMMA RoundInOrder ==
  ASSUME NEW s, InOrder(s), NEW n \in Taken(s),
         NEW k \in 0 .. Len((IF n = 0 THEN s ELSE Take(s, n)).pending)
  PROVE  InOrder(Deliver(IF n = 0 THEN s ELSE Take(s, n), k))
<1>1. InOrder(IF n = 0 THEN s ELSE Take(s, n))
  <2>1. CASE n = 0
    BY <2>1
  <2>2. CASE n # 0
    BY <2>2, TakeInOrder DEF Taken, MayTake
  <2> QED
    BY <2>1, <2>2
<1> QED
  BY <1>1, DeliverInOrder

\* An end that speaks only adds to what is there to take.
LEMMA SayInOrder ==
  ASSUME NEW s, InOrder(s), s.said < MaxUnits
  PROVE  InOrder([s EXCEPT !.said = @ + 1])
<1> DEFINE t == [s EXCEPT !.said = @ + 1]
<1>1. /\ s \in StreamRecord /\ s.said \in 0 .. MaxUnits /\ s.taken \in Nat /\ s.taken <= s.said
      /\ s.got \o s.pending = Numbered(0, s.taken)
  BY DEF InOrder, StreamRecord
<1>2. s.said + 1 \in 0 .. MaxUnits /\ s.taken <= s.said + 1
  BY <1>1, ForwardAssumption
<1>3. t.said = s.said + 1 /\ t.taken = s.taken /\ t.pending = s.pending /\ t.got = s.got /\ t \in StreamRecord
  BY <1>1, <1>2 DEF StreamRecord
<1> HIDE DEF t
<1>4. InOrder(t)
  BY <1>1, <1>2, <1>3 DEF InOrder
<1> QED
  BY <1>4 DEF t

LEMMA ForwardStarts == ForwardInit => ForwardInv
BY QuietInOrder DEF ForwardInit, ForwardInv

\* Every step keeps ForwardInv.
LEMMA ForwardKeeps == ForwardInv /\ [ForwardNext]_forwardVars => ForwardInv'
<1> SUFFICES ASSUME ForwardInv, [ForwardNext]_forwardVars PROVE ForwardInv'
  OBVIOUS
<1>1. CASE UNCHANGED forwardVars
  BY <1>1 DEF forwardVars, ForwardInv
<1>2. CASE RelayRound
  <2>1. PICK n \in Taken(up), m \in Taken(down) :
          /\ \E k \in 0 .. Len((IF n = 0 THEN up ELSE Take(up, n)).pending) :
               up' = Deliver(IF n = 0 THEN up ELSE Take(up, n), k)
          /\ \E k \in 0 .. Len(down.pending) :
               down' = Deliver(IF m = 0 THEN down ELSE Take(down, m), k)
    BY <1>2 DEF RelayRound
  <2>2. InOrder(up')
    BY <2>1, RoundInOrder DEF ForwardInv
  <2>3. InOrder(down')
    <3>1. CASE m = 0
      BY <2>1, <3>1, RoundInOrder DEF ForwardInv
    <3>2. CASE m # 0
      <4>1. down.pending = <<>> /\ Len(down.pending) = 0
        BY <3>2 DEF Taken, MayTake
      <4>2. Take(down, m).pending \in Seq(1 .. MaxUnits)
        BY <3>2, <4>1, TakeInOrder DEF ForwardInv, Taken, MayTake, InOrder, StreamRecord
      <4>3. 0 \in 0 .. Len(Take(down, m).pending)
        BY <4>2
      <4>4. down' = Deliver(Take(down, m), 0)
        BY <2>1, <3>2, <4>1
      <4>5. InOrder(Take(down, m))
        BY <3>2, <4>1, TakeInOrder DEF ForwardInv, Taken, MayTake
      <4> QED
        BY <4>3, <4>4, <4>5, DeliverInOrder
    <3> QED
      BY <3>1, <3>2
  <2> QED
    BY <1>2, <2>2, <2>3 DEF ForwardInv, RelayRound, InOrder
<1>3. CASE AcceptClient \/ JoinForward
  BY <1>3, QuietInOrder DEF ForwardInv, AcceptClient, JoinForward, InOrder, Quiet
<1>4. CASE ClientSpeaks \/ RemoteSpeaks
  <2>1. InOrder(up') /\ InOrder(down')
    BY <1>4, SayInOrder DEF ForwardInv, ClientSpeaks, RemoteSpeaks, Say
  <2> QED
    BY <1>4, <2>1 DEF ForwardInv, ClientSpeaks, RemoteSpeaks, InOrder
<1>5. CASE StartForward \/ Listen \/ OpenChannel \/ RelayFails \/ EndRelay \/ AskForwardToStop
  BY <1>5 DEF ForwardInv, StartForward, Listen, OpenChannel, RelayFails, EndRelay, AskForwardToStop, InOrder
<1>6. ASSUME NEW end \in {"client", "remote"}, EndCloses(end) PROVE ForwardInv'
  BY <1>6 DEF ForwardInv, EndCloses, InOrder
<1> QED
  BY <1>1, <1>2, <1>3, <1>4, <1>5, <1>6 DEF ForwardNext

LEMMA ForwardInvPromise == ForwardInv => ForwardTypeOK /\ RelayedInOrder
<1> SUFFICES ASSUME ForwardInv PROVE ForwardTypeOK /\ RelayedInOrder
  OBVIOUS
<1>1. ASSUME NEW s, InOrder(s)
      PROVE  /\ s.said \in 0 .. MaxUnits /\ s.taken \in 0 .. s.said
             /\ {s.pending, s.got} \subseteq Seq(1 .. MaxUnits)
             /\ s.got \o s.pending = Numbered(0, s.taken)
  BY <1>1, ForwardAssumption DEF InOrder, StreamRecord
<1> QED
  BY <1>1 DEF ForwardInv, ForwardTypeOK, RelayedInOrder

\* However short the reads and the writes of RelayForward are, in both
\* directions: nothing is lost, doubled or put in another order.
THEOREM ForwardPromise == ForwardSpec => [](ForwardTypeOK /\ RelayedInOrder)
<1>1. ForwardSpec => []ForwardInv
  BY ForwardStarts, ForwardKeeps, PTL DEF ForwardSpec
<1> QED
  BY <1>1, ForwardInvPromise, PTL

-----------------------------------------------------------------------------
(* Saved credentials *)

Vaults == UNION {[S -> Int] : S \in SUBSET Hosts}
RowType == [hosts : SUBSET Hosts, trusted : SUBSET Hosts, vault : Vaults]
WriteType ==
  [to : {"config", "key", "rows"}, dir : Directories, text : Directories \cup {Torn},
   key : Int, row : RowType, saves : SUBSET (Directories \X Hosts)]

\* The types of the variables.
StoreTyped ==
  /\ config \in Directories \cup {Torn}
  /\ rows \in [Directories -> RowType]
  /\ keyFile \in [Directories -> Int]
  /\ keys \in Nat
  /\ todo \in [Threads -> Seq(WriteType)]
  /\ owed \subseteq Directories \X Hosts

\* Only the operation that has the mutex has writes to make.
Exclusive == \A t \in Threads : todo[t] # <<>> => storeMutex = t

\* A vault is readable with a key, and has what is owed in a directory.
Readable(vault, key) == \A h \in DOMAIN vault : vault[h] = key
Keeps(held, d, vault) == \A o \in held : o[1] = d => o[2] \in DOMAIN vault

\* Every key that is in use is a real one.
Saved ==
  \A d \in Directories :
    /\ Readable(rows[d].vault, keyFile[d])
    /\ Keeps(owed, d, rows[d].vault)
    /\ keyFile[d] \in {0, TornKey} => DOMAIN rows[d].vault = {}

\* The key beside a database when write i of q reaches it.
KeyThen(q, i, files) ==
  IF i > 1 /\ q[i - 1].to = "key" THEN q[i - 1].key ELSE files[q[i].dir]

\* A new vault can be read with the key that is there by then, and keeps what
\* is owed.
RowIsSound(q, i, held, files) ==
  /\ Readable(q[i].row.vault, KeyThen(q, i, files))
  /\ Keeps(held, q[i].dir, q[i].row.vault)
  /\ KeyThen(q, i, files) \in {0, TornKey} => DOMAIN q[i].row.vault = {}
  /\ i > 1 /\ q[i - 1].to = "key" => q[i - 1].dir = q[i].dir

\* A key is only written where there are no credentials yet, and the new vault
\* follows it as the last write.
KeyIsSound(q, i, tables) ==
  /\ DOMAIN tables[q[i].dir].vault = {}
  /\ i < Len(q) /\ i + 2 >= Len(q)
  /\ q[Len(q) - 1].to = "key"
  /\ \A j \in 1 .. Len(q) - 1 : q[j].to # "rows"

\* What is answered for is in the vault that is written last.
SavesAreSound(q, i) ==
  q[i].saves # {} =>
    /\ i = Len(q) /\ q[i].to = "rows"
    /\ \A o \in q[i].saves : o[1] = q[i].dir /\ o[2] \in DOMAIN q[i].row.vault

StoreSound(q, held, files, tables) ==
  \A i \in 1 .. Len(q) :
    /\ q[i].to = "rows" => RowIsSound(q, i, held, files)
    /\ q[i].to = "key" => KeyIsSound(q, i, tables)
    /\ SavesAreSound(q, i)

Planned == \A t \in Threads : StoreSound(todo[t], owed, keyFile, rows)

StoreInv == StoreTyped /\ Exclusive /\ Saved /\ Planned

-----------------------------------------------------------------------------
(* Writes and sequences of them *)

\* A write is made from NoWrite by setting what it is and what it writes.
LEMMA MadeFrom ==
  ASSUME NEW P, NEW Q, NEW D, NEW T, NEW K, NEW R, NEW S, NEW x \in Q,
         NEW n \in [to : P, dir : D, text : T, key : K, row : R, saves : S]
  PROVE  /\ \A y \in T : [n EXCEPT !.to = x, !.text = y] \in
              [to : Q, dir : D, text : T, key : K, row : R, saves : S]
         /\ \A y \in K : [n EXCEPT !.to = x, !.key = y] \in
              [to : Q, dir : D, text : T, key : K, row : R, saves : S]
         /\ \A y \in R : [n EXCEPT !.to = x, !.row = y] \in
              [to : Q, dir : D, text : T, key : K, row : R, saves : S]
OBVIOUS

\* What the writes are made of.
LEMMA WritesTyped ==
  ASSUME StoreTyped
  PROVE  /\ Directory \in Directories
         /\ Rows = rows[Directory] /\ Rows \in RowType
         /\ \A d \in Directories \cup {Torn} :
              /\ WriteConfig(d) \in WriteType
              /\ WriteConfig(d).to = "config" /\ WriteConfig(d).saves = {}
         /\ \A k \in Int :
              /\ WriteKey(k) \in WriteType
              /\ WriteKey(k).to = "key" /\ WriteKey(k).saves = {}
              /\ WriteKey(k).dir = Directory /\ WriteKey(k).key = k
         /\ \A r \in RowType :
              /\ WriteRows(r) \in WriteType
              /\ WriteRows(r).to = "rows" /\ WriteRows(r).saves = {}
              /\ WriteRows(r).dir = Directory /\ WriteRows(r).row = r
<1>1. Directory \in Directories
  BY DirectoryAssumption DEF StoreTyped, Directory
<1>2. Rows = rows[Directory] /\ Rows \in RowType
  BY <1>1 DEF StoreTyped, Rows
<1> DEFINE Texts == Directories \cup {Torn}
           Debts == SUBSET (Directories \X Hosts)
           Kinds == {"config", "key", "rows"}
<1>3. NoWrite \in [to : {"nothing"}, dir : Directories, text : Texts,
                   key : Int, row : RowType, saves : Debts]
  <2>1. Torn \in Texts /\ {} \in Debts
    OBVIOUS
  <2> HIDE DEF Texts, Debts
  <2> QED
    BY <1>1, <1>2, <2>1 DEF NoWrite
<1>4. WriteType = [to : Kinds, dir : Directories, text : Texts,
                   key : Int, row : RowType, saves : Debts]
  BY DEF WriteType
<1>5. "config" \in Kinds /\ "key" \in Kinds /\ "rows" \in Kinds
  OBVIOUS
<1> HIDE DEF Texts, Debts, Kinds
<1>6. \A d \in Texts : WriteConfig(d) \in WriteType
  BY <1>3, <1>4, <1>5, MadeFrom DEF WriteConfig
<1>7. \A k \in Int : WriteKey(k) \in WriteType
  BY <1>3, <1>4, <1>5, MadeFrom DEF WriteKey
<1>8. \A r \in RowType : WriteRows(r) \in WriteType
  BY <1>3, <1>4, <1>5, MadeFrom DEF WriteRows
<1>9. /\ \A d : WriteConfig(d).to = "config" /\ WriteConfig(d).saves = {}
      /\ \A k : /\ WriteKey(k).to = "key" /\ WriteKey(k).saves = {}
                /\ WriteKey(k).dir = Directory /\ WriteKey(k).key = k
      /\ \A r : /\ WriteRows(r).to = "rows" /\ WriteRows(r).saves = {}
                /\ WriteRows(r).dir = Directory /\ WriteRows(r).row = r
  BY DEF WriteConfig, WriteKey, WriteRows, NoWrite
<1> QED
  BY <1>1, <1>2, <1>6, <1>7, <1>8, <1>9 DEF Texts

\* Writes of config.json before sound ones change nothing about them.
LEMMA ConfigFirst ==
  ASSUME NEW p \in Seq(WriteType), NEW q \in Seq(WriteType),
         NEW held, NEW files, NEW tables,
         \A i \in 1 .. Len(p) : p[i].to = "config" /\ p[i].saves = {},
         StoreSound(q, held, files, tables)
  PROVE  StoreSound(p \o q, held, files, tables)
<1> DEFINE s == p \o q
<1>1. /\ Len(p) \in Nat /\ Len(q) \in Nat /\ Len(s) = Len(p) + Len(q)
      /\ \A i \in 1 .. Len(p) : s[i] = p[i]
      /\ \A i \in 1 .. Len(q) : s[Len(p) + i] = q[i]
  OBVIOUS
<1> HIDE DEF s
<1>2. ASSUME NEW i \in 1 .. Len(s)
      PROVE  /\ s[i].to = "rows" => RowIsSound(s, i, held, files)
             /\ s[i].to = "key" => KeyIsSound(s, i, tables)
             /\ SavesAreSound(s, i)
  <2>1. CASE i <= Len(p)
    <3>1. s[i].to = "config" /\ s[i].saves = {}
      BY <1>1, <2>1
    <3> QED
      BY <3>1 DEF SavesAreSound
  <2>2. CASE i > Len(p)
    <3> DEFINE k == i - Len(p)
    <3>1. k \in 1 .. Len(q) /\ s[i] = q[k] /\ i = Len(p) + k
      BY <1>1, <2>2
    <3> HIDE DEF k
    <3>2. IF k > 1 THEN i > 1 /\ s[i - 1] = q[k - 1]
                   ELSE i > 1 => s[i - 1].to = "config"
      <4>1. CASE k > 1
        <5>1. k - 1 \in 1 .. Len(q) /\ i - 1 = Len(p) + (k - 1) /\ i > 1
          BY <1>1, <3>1, <4>1
        <5> QED
          BY <1>1, <4>1, <5>1
      <4>2. CASE ~(k > 1)
        <5>1. i > 1 => i - 1 \in 1 .. Len(p)
          BY <1>1, <3>1, <4>2
        <5> QED
          BY <1>1, <4>2, <5>1
      <4> QED
        BY <4>1, <4>2
    <3>3. KeyThen(s, i, files) = KeyThen(q, k, files)
      BY <3>1, <3>2 DEF KeyThen
    <3>4. s[i].to = "rows" => RowIsSound(s, i, held, files)
      BY <3>1, <3>2, <3>3 DEF StoreSound, RowIsSound
    <3>5. s[i].to = "key" => KeyIsSound(s, i, tables)
      <4> SUFFICES ASSUME s[i].to = "key" PROVE KeyIsSound(s, i, tables)
        OBVIOUS
      <4>1. KeyIsSound(q, k, tables)
        BY <3>1 DEF StoreSound
      <4>2. k < Len(q) /\ k + 2 >= Len(q) /\ q[Len(q) - 1].to = "key"
        BY <4>1 DEF KeyIsSound
      <4>3. i < Len(s) /\ i + 2 >= Len(s)
        BY <1>1, <3>1, <4>2
      <4>4. s[Len(s) - 1].to = "key"
        <5>1. Len(q) - 1 \in 1 .. Len(q) /\ Len(s) - 1 = Len(p) + (Len(q) - 1)
          BY <1>1, <3>1, <4>2
        <5> QED
          BY <1>1, <4>2, <5>1
      <4>5. ASSUME NEW j \in 1 .. Len(s) - 1
            PROVE  s[j].to # "rows"
        <5>1. CASE j <= Len(p)
          BY <1>1, <5>1
        <5>2. CASE j > Len(p)
          <6>1. j - Len(p) \in 1 .. Len(q) - 1 /\ j = Len(p) + (j - Len(p))
            BY <1>1, <5>2
          <6>2. s[j] = q[j - Len(p)]
            BY <1>1, <6>1
          <6> QED
            BY <4>1, <6>1, <6>2 DEF KeyIsSound
        <5> QED
          BY <1>1, <5>1, <5>2
      <4> QED
        BY <3>1, <4>1, <4>3, <4>4, <4>5 DEF KeyIsSound
    <3>6. SavesAreSound(s, i)
      <4>1. SavesAreSound(q, k)
        BY <3>1 DEF StoreSound
      <4>2. k = Len(q) => i = Len(s)
        BY <1>1, <3>1
      <4> QED
        BY <3>1, <4>1, <4>2 DEF SavesAreSound
    <3> QED
      BY <3>4, <3>5, <3>6
  <2> QED
    BY <1>1, <2>1, <2>2
<1> QED
  BY <1>2 DEF StoreSound, s

\* Writes of the database alone, under the key that is there.
LEMMA RowsOnly ==
  ASSUME NEW q \in Seq(WriteType), NEW held, NEW files, NEW tables,
         \A i \in 1 .. Len(q) :
           /\ q[i].to = "rows"
           /\ Readable(q[i].row.vault, files[q[i].dir])
           /\ Keeps(held, q[i].dir, q[i].row.vault)
           /\ files[q[i].dir] \in {0, TornKey} => DOMAIN q[i].row.vault = {}
           /\ SavesAreSound(q, i)
  PROVE  StoreSound(q, held, files, tables)
<1> SUFFICES ASSUME NEW i \in 1 .. Len(q)
             PROVE  RowIsSound(q, i, held, files)
  BY DEF StoreSound
<1>1. Len(q) \in Nat /\ (i > 1 => i - 1 \in 1 .. Len(q))
  OBVIOUS
<1>2. ~(i > 1 /\ q[i - 1].to = "key")
  BY <1>1
<1>3. KeyThen(q, i, files) = files[q[i].dir]
  BY <1>2 DEF KeyThen
<1> QED
  BY <1>2, <1>3 DEF RowIsSound

\* The key is torn, then written, then the vault, where there was none.
LEMMA KeyThenRows ==
  ASSUME NEW a \in WriteType, NEW b \in WriteType, NEW c \in WriteType,
         NEW held, NEW files, NEW tables,
         a.to = "key", b.to = "key", c.to = "rows", a.saves = {}, b.saves = {},
         a.dir = c.dir, b.dir = c.dir, b.key \notin {0, TornKey},
         DOMAIN tables[c.dir].vault = {},
         Readable(c.row.vault, b.key), Keeps(held, c.dir, c.row.vault),
         \A o \in c.saves : o[1] = c.dir /\ o[2] \in DOMAIN c.row.vault
  PROVE  StoreSound(<<a, b, c>>, held, files, tables)
<1> DEFINE q == <<a, b, c>>
<1>1. Len(q) = 3 /\ q[1] = a /\ q[2] = b /\ q[3] = c
  OBVIOUS
<1> HIDE DEF q
<1>2. RowIsSound(q, 3, held, files)
  <2>1. KeyThen(q, 3, files) = b.key
    BY <1>1 DEF KeyThen
  <2> QED
    BY <1>1, <2>1 DEF RowIsSound
<1>3. \A j \in 1 .. 2 : q[j].to = "key" /\ q[j].dir = c.dir
  BY <1>1
<1>4. \A i \in 1 .. 2 : KeyIsSound(q, i, tables)
  BY <1>1, <1>3 DEF KeyIsSound
<1>5. \A i \in 1 .. 3 : SavesAreSound(q, i)
  BY <1>1 DEF SavesAreSound
<1>6. \A i \in 1 .. Len(q) : i = 1 \/ i = 2 \/ i = 3
  BY <1>1
<1> QED
  BY <1>1, <1>2, <1>4, <1>5, <1>6 DEF StoreSound, q

-----------------------------------------------------------------------------
(* The steps *)

\* An operation that plans sound writes, having read what it needs.
LEMMA BeginStep ==
  ASSUME StoreInv, NEW t \in Threads, NEW writes \in Seq(WriteType), Begin(t, writes),
         keys' \in Nat, owed' \subseteq owed, StoreSound(writes, owed', keyFile, rows)
  PROVE  StoreInv'
<1> USE DEF StoreInv
<1> DEFINE q == RepairConfig \o writes
<1>1. /\ storeMutex = NoThread /\ storeMutex' = t
      /\ todo' = [todo EXCEPT ![t] = q]
      /\ UNCHANGED <<config, rows, keyFile>>
  BY DEF Begin, StoreFree
<1>2. /\ RepairConfig \in Seq(WriteType)
      /\ \A i \in 1 .. Len(RepairConfig) :
           RepairConfig[i].to = "config" /\ RepairConfig[i].saves = {}
  <2>1. CASE config = Torn
    <3> DEFINE a == WriteConfig(Torn)
               b == WriteConfig(DefaultDirectory)
    <3>1. /\ a \in WriteType /\ a.to = "config" /\ a.saves = {}
          /\ b \in WriteType /\ b.to = "config" /\ b.saves = {}
      BY DirectoryAssumption, WritesTyped
    <3>2. RepairConfig = <<a, b>>
      BY <2>1 DEF RepairConfig, RewriteConfig
    <3> HIDE DEF a, b
    <3> QED
      BY <3>1, <3>2
  <2>2. CASE config # Torn
    BY <2>2 DEF RepairConfig
  <2> QED
    BY <2>1, <2>2
<1>3. StoreSound(q, owed', keyFile, rows) /\ q \in Seq(WriteType)
  BY <1>2, ConfigFirst
<1> HIDE DEF q
<1>4. \A u \in Threads : u # t => todo[u] = <<>> /\ todo'[u] = <<>>
  BY <1>1, ThreadAssumption DEF Exclusive, StoreTyped
<1>5. todo'[t] = q
  BY <1>1 DEF StoreTyped
<1>6. StoreTyped'
  BY <1>1, <1>3 DEF StoreTyped
<1>7. Exclusive'
  BY <1>1, <1>4 DEF Exclusive
<1>8. Saved'
  BY <1>1 DEF Saved, Keeps
<1>9. \A u \in Threads : StoreSound(todo'[u], owed', keyFile, rows)
  BY <1>3, <1>4, <1>5 DEF StoreSound
<1>10. Planned'
  BY <1>1, <1>9 DEF Planned
<1> QED
  BY <1>6, <1>7, <1>8, <1>10

\* The browser's list is saved, and what it lacks is removed from the vault.
LEMMA SaveHostsStep ==
  ASSUME StoreInv, NEW t \in Threads, NEW list \in SUBSET Hosts,
         NEW trust \in SUBSET list, SaveSshHosts(t, list, trust)
  PROVE  StoreInv'
<1> USE DEF StoreInv
<1> DEFINE D == Directory
           r == [Rows EXCEPT !.hosts = list, !.trusted = trust]
           kept == [h \in DOMAIN r.vault \cap list |-> r.vault[h]]
           v == [r EXCEPT !.vault = kept]
           more == IF kept # r.vault THEN <<WriteRows(v)>> ELSE <<>>
           writes == <<WriteRows(r)>> \o more
<1>1. /\ Begin(t, writes) /\ keys' = keys
      /\ owed' = {o \in owed : o[1] # D \/ o[2] \in list}
  BY DEF SaveSshHosts
<1>2. D \in Directories /\ Rows = rows[D] /\ Rows \in RowType
  BY WritesTyped
<1>3. r \in RowType /\ r.vault = rows[D].vault
  BY <1>2 DEF RowType
<1>4. kept \in Vaults
  <2>1. r.vault \in Vaults
    BY <1>3 DEF RowType
  <2>2. PICK S \in SUBSET Hosts : r.vault \in [S -> Int]
    BY <2>1 DEF Vaults
  <2>3. kept \in [S \cap list -> Int]
    BY <2>2
  <2> QED
    BY <2>2, <2>3 DEF Vaults
<1>5. v \in RowType /\ v.vault = kept
  BY <1>3, <1>4 DEF RowType
<1>6. /\ Readable(r.vault, keyFile[D]) /\ Readable(kept, keyFile[D])
      /\ keyFile[D] \in {0, TornKey} => DOMAIN r.vault = {} /\ DOMAIN kept = {}
  BY <1>2, <1>3 DEF Saved, Readable
<1>7. Keeps(owed', D, r.vault) /\ Keeps(owed', D, kept)
  BY <1>1, <1>2, <1>3 DEF Saved, Keeps
<1>8. /\ WriteRows(r) \in WriteType /\ WriteRows(r).to = "rows"
      /\ WriteRows(r).saves = {} /\ WriteRows(r).dir = D /\ WriteRows(r).row = r
      /\ WriteRows(v) \in WriteType /\ WriteRows(v).to = "rows"
      /\ WriteRows(v).saves = {} /\ WriteRows(v).dir = D /\ WriteRows(v).row = v
  BY <1>3, <1>5, WritesTyped
<1> HIDE DEF D, r, kept, v
<1>9. /\ writes \in Seq(WriteType)
      /\ \A i \in 1 .. Len(writes) :
           /\ writes[i].to = "rows" /\ writes[i].saves = {} /\ writes[i].dir = D
           /\ writes[i].row = r \/ writes[i].row = v
  <2> DEFINE x == WriteRows(r)
             y == WriteRows(v)
  <2>1. x \in WriteType /\ y \in WriteType
    BY <1>8
  <2>2. CASE kept = r.vault
    <3>1. writes = <<x>> \o <<>>
      BY <2>2
    <3> HIDE DEF writes, x
    <3>2. writes \in Seq(WriteType) /\ Len(writes) = 1 /\ writes[1] = x
      BY <2>1, <3>1
    <3> QED
      BY <1>8, <3>2 DEF x
  <2>3. CASE kept # r.vault
    <3>1. writes = <<x>> \o <<y>>
      BY <2>3
    <3> HIDE DEF writes, x, y
    <3>2. writes \in Seq(WriteType) /\ Len(writes) = 2 /\ writes[1] = x /\ writes[2] = y
      BY <2>1, <3>1
    <3> QED
      BY <1>8, <3>2 DEF x, y
  <2> QED
    BY <2>2, <2>3
<1> HIDE DEF writes
<1>10. StoreSound(writes, owed', keyFile, rows)
  BY <1>5, <1>6, <1>7, <1>9, RowsOnly DEF SavesAreSound
<1>11. owed' \subseteq owed /\ keys' \in Nat
  BY <1>1 DEF StoreTyped
<1> QED
  BY <1>1, <1>9, <1>10, <1>11, BeginStep

\* A fingerprint is saved, the vault with the rest of the database unchanged.
LEMMA SaveFingerprintStep ==
  ASSUME StoreInv, NEW t \in Threads, NEW h \in Hosts, SaveSshHostFingerprint(t, h)
  PROVE  StoreInv'
<1> USE DEF StoreInv
<1> DEFINE D == Directory
           r == [Rows EXCEPT !.trusted = @ \cup {h}]
           w == WriteRows(r)
<1>1. Begin(t, <<w>>) /\ keys' = keys /\ owed' = owed
  BY DEF SaveSshHostFingerprint
<1>2. D \in Directories /\ Rows = rows[D] /\ Rows \in RowType
  BY WritesTyped
<1>3. r \in RowType /\ r.vault = rows[D].vault
  BY <1>2 DEF RowType
<1>4. w \in WriteType /\ w.to = "rows" /\ w.saves = {} /\ w.dir = D /\ w.row = r
  BY <1>3, WritesTyped
<1> HIDE DEF D, r, w
<1>5. /\ <<w>> \in Seq(WriteType) /\ Len(<<w>>) = 1 /\ <<w>>[1] = w
  BY <1>4
<1>6. /\ Readable(r.vault, keyFile[D]) /\ Keeps(owed, D, r.vault)
      /\ keyFile[D] \in {0, TornKey} => DOMAIN r.vault = {}
  BY <1>2, <1>3 DEF Saved
<1>7. StoreSound(<<w>>, owed, keyFile, rows)
  <2>1. \A i \in 1 .. Len(<<w>>) : <<w>>[i] = w
    BY <1>5
  <2> QED
    BY <1>4, <1>5, <1>6, <2>1, RowsOnly DEF SavesAreSound
<1> QED
  BY <1>1, <1>5, <1>7, BeginStep DEF StoreTyped

\* A credential is removed, and no longer owed.
LEMMA DeleteStep ==
  ASSUME StoreInv, NEW t \in Threads, NEW h \in Hosts, DeleteSshCredential(t, h)
  PROVE  StoreInv'
<1> USE DEF StoreInv
<1> DEFINE D == Directory
           left == Without(Rows.vault, h)
           r == [Rows EXCEPT !.vault = left]
           w == WriteRows(r)
<1>1. Begin(t, <<w>>) /\ keys' = keys /\ owed' = owed \ {<<D, h>>}
  BY DEF DeleteSshCredential
<1>2. D \in Directories /\ Rows = rows[D] /\ Rows \in RowType
  BY WritesTyped
<1>3. left \in Vaults /\ DOMAIN left = DOMAIN Rows.vault \ {h}
      /\ \A k \in DOMAIN left : left[k] = Rows.vault[k]
  <2>1. Rows.vault \in Vaults
    BY <1>2 DEF RowType
  <2>2. PICK S \in SUBSET Hosts : Rows.vault \in [S -> Int]
    BY <2>1 DEF Vaults
  <2>3. left \in [S \ {h} -> Int]
    BY <2>2 DEF Without
  <2> QED
    BY <2>2, <2>3 DEF Vaults, Without
<1>4. r \in RowType /\ r.vault = left
  BY <1>2, <1>3 DEF RowType
<1>5. w \in WriteType /\ w.to = "rows" /\ w.saves = {} /\ w.dir = D /\ w.row = r
  BY <1>4, WritesTyped
<1>6. \A o \in owed : o = <<o[1], o[2]>>
  BY DEF StoreTyped
<1> HIDE DEF D, left, r, w
<1>7. <<w>> \in Seq(WriteType) /\ \A i \in 1 .. Len(<<w>>) : <<w>>[i] = w
  BY <1>5
<1>8. /\ Readable(left, keyFile[D]) /\ Keeps(owed', D, left)
      /\ keyFile[D] \in {0, TornKey} => DOMAIN left = {}
  <2>1. Readable(left, keyFile[D]) /\ (keyFile[D] \in {0, TornKey} => DOMAIN left = {})
    BY <1>2, <1>3 DEF Saved, Readable
  <2>2. Keeps(owed', D, left)
    BY <1>1, <1>2, <1>3, <1>6 DEF Saved, Keeps
  <2> QED
    BY <2>1, <2>2
<1>9. StoreSound(<<w>>, owed', keyFile, rows)
  BY <1>4, <1>5, <1>7, <1>8, RowsOnly DEF SavesAreSound
<1> QED
  BY <1>1, <1>7, <1>9, BeginStep DEF StoreTyped

\* A credential is saved under the key that is there, or under a new one where
\* there is no key file and hence no credential.
LEMMA SaveCredentialStep ==
  ASSUME StoreInv, NEW t \in Threads, NEW h \in Hosts, SaveSshCredential(t, h)
  PROVE  StoreInv'
<1> USE DEF StoreInv
<1> DEFINE D == Directory
           file == keyFile[D]
           key == IF file = 0 THEN keys + 1 ELSE file
           new == [k \in DOMAIN Rows.vault \cup {h} |-> IF k = h THEN key ELSE Rows.vault[k]]
           r == [Rows EXCEPT !.vault = new]
           w == [WriteRows(r) EXCEPT !.saves = {<<D, h>>}]
<1>1. D \in Directories /\ Rows = rows[D] /\ Rows \in RowType
  BY WritesTyped
<1>2. file \in Int /\ keys \in Nat /\ key \in Int
  BY <1>1 DEF StoreTyped
<1>3. /\ new \in Vaults /\ DOMAIN new = DOMAIN Rows.vault \cup {h}
      /\ new[h] = key /\ \A k \in DOMAIN Rows.vault : k # h => new[k] = Rows.vault[k]
  <2>1. Rows.vault \in Vaults
    BY <1>1 DEF RowType
  <2>2. PICK S \in SUBSET Hosts : Rows.vault \in [S -> Int]
    BY <2>1 DEF Vaults
  <2>3. new \in [S \cup {h} -> Int]
    <3> HIDE DEF key
    <3> QED
      BY <1>2, <2>2
  <2>4. new \in Vaults
    BY <2>2, <2>3 DEF Vaults
  <2> QED
    BY <2>2, <2>4
<1>4. r \in RowType /\ r.vault = new
  <2> HIDE DEF new
  <2> QED
    BY <1>1, <1>3 DEF RowType
<1>5. /\ w \in WriteType /\ w.to = "rows" /\ w.saves = {<<D, h>>}
      /\ w.dir = D /\ w.row = r
  <2> DEFINE n == WriteRows(r)
             x == {<<D, h>>}
  <2> HIDE DEF r
  <2>1. n \in WriteType /\ n.to = "rows" /\ n.dir = D /\ n.row = r
    BY <1>4, WritesTyped
  <2>2. x \in SUBSET (Directories \X Hosts)
    BY <1>1
  <2>3. w = [n EXCEPT !.saves = x]
    OBVIOUS
  <2> HIDE DEF w, n, x
  <2>4. w \in WriteType /\ w.to = "rows" /\ w.dir = D /\ w.row = r /\ w.saves = x
    BY <2>1, <2>2, <2>3 DEF WriteType
  <2> QED
    BY <2>4 DEF x
<1>6. CASE file = TornKey
  <2>1. Begin(t, <<>>) /\ keys' = keys /\ owed' = owed
    BY <1>6 DEF SaveSshCredential
  <2>2. <<>> \in Seq(WriteType) /\ StoreSound(<<>>, owed, keyFile, rows)
    BY DEF StoreSound
  <2> QED
    BY <1>2, <2>1, <2>2, BeginStep
<1>7. CASE file # TornKey /\ file # 0
  <2>1. Begin(t, <<w>>) /\ keys' = keys /\ owed' = owed
    BY <1>7 DEF SaveSshCredential
  <2>2. Readable(new, file) /\ Keeps(owed, D, new)
    BY <1>1, <1>3, <1>7 DEF Saved, Readable, Keeps
  <2> HIDE DEF w, r, new, file, D
  <2>3. /\ <<w>> \in Seq(WriteType) /\ Len(<<w>>) = 1
        /\ \A i \in 1 .. Len(<<w>>) : <<w>>[i] = w
    BY <1>5
  <2>4. \A i \in 1 .. Len(<<w>>) : SavesAreSound(<<w>>, i)
    BY <1>3, <1>4, <1>5, <2>3 DEF SavesAreSound
  <2>5. StoreSound(<<w>>, owed, keyFile, rows)
    BY <1>4, <1>5, <1>7, <2>2, <2>3, <2>4, RowsOnly DEF file
  <2> QED
    BY <1>2, <2>1, <2>3, <2>5, BeginStep
<1>8. CASE file = 0
  <2> DEFINE a == WriteKey(TornKey)
             b == WriteKey(key)
             writes == <<a, b>> \o <<w>>
  <2>1. Begin(t, writes) /\ keys' = keys + 1 /\ owed' = owed
    BY <1>8 DEF SaveSshCredential, KeyFirst, TornKey
  <2>2. DOMAIN rows[D].vault = {} /\ key \notin {0, TornKey}
    BY <1>1, <1>2, <1>8 DEF Saved, TornKey
  <2>3. DOMAIN new = {h} /\ new[h] = key
    BY <1>1, <1>3, <2>2
  <2>4. Readable(new, key) /\ Keeps(owed, D, new)
    BY <1>1, <2>2, <2>3 DEF Readable, Saved, Keeps
  <2>5. /\ a \in WriteType /\ a.to = "key" /\ a.saves = {} /\ a.dir = D
        /\ b \in WriteType /\ b.to = "key" /\ b.saves = {} /\ b.dir = D /\ b.key = key
    BY <1>2, WritesTyped DEF TornKey
  <2> HIDE DEF a, b, w, r, new, key, file, D
  <2>6. \A o \in w.saves : o[1] = w.dir /\ o[2] \in DOMAIN w.row.vault
    BY <1>4, <1>5, <2>3
  <2>7. StoreSound(<<a, b, w>>, owed, keyFile, rows)
    BY <1>4, <1>5, <2>2, <2>4, <2>5, <2>6, KeyThenRows
  <2>8. writes \in Seq(WriteType) /\ writes = <<a, b, w>>
    <3>1. /\ writes \in Seq(WriteType) /\ Len(writes) = 3
          /\ writes[1] = a /\ writes[2] = b /\ writes[3] = w
      BY <1>5, <2>5
    <3> HIDE DEF writes
    <3> QED
      BY <1>5, <2>5, <3>1
  <2>9. keys + 1 \in Nat
    BY <1>2
  <2> QED
    BY <2>1, <2>7, <2>8, <2>9, BeginStep
<1> QED
  BY <1>6, <1>7, <1>8

\* config.json is rewritten.
LEMMA SavePartialStep ==
  ASSUME StoreInv, NEW t \in Threads, NEW d \in Directories, SavePartial(t, d)
  PROVE  StoreInv'
<1> USE DEF StoreInv
<1> DEFINE a == WriteConfig(Torn)
           b == WriteConfig(d)
<1>1. Begin(t, <<a, b>>) /\ keys' = keys /\ owed' = owed
  BY DEF SavePartial, RewriteConfig
<1>2. /\ a \in WriteType /\ a.to = "config" /\ a.saves = {}
      /\ b \in WriteType /\ b.to = "config" /\ b.saves = {}
  BY WritesTyped
<1> HIDE DEF a, b
<1>3. /\ <<a, b>> \in Seq(WriteType)
      /\ \A i \in 1 .. Len(<<a, b>>) : <<a, b>>[i].to = "config" /\ <<a, b>>[i].saves = {}
  BY <1>2
<1>4. StoreSound(<<a, b>>, owed, keyFile, rows)
  BY <1>3 DEF StoreSound, SavesAreSound
<1> QED
  BY <1>1, <1>3, <1>4, BeginStep DEF StoreTyped

\* What is sound stays so when the first write has been made.
LEMMA TailSound ==
  ASSUME NEW q \in Seq(WriteType), q # <<>>, NEW held, NEW files, NEW tables,
         StoreSound(q, held, files, tables), NEW later, NEW files2, NEW tables2,
         files \in [Directories -> Int],
         q[1].to = "key" \/ files2 = files,
         q[1].to = "key" => files2 = [files EXCEPT ![q[1].dir] = q[1].key],
         q[1].to = "rows" \/ tables2 = tables,
         Len(q) = 1 \/ later = held
  PROVE  StoreSound(Tail(q), later, files2, tables2)
<1> DEFINE s == Tail(q)
<1>1. /\ Len(q) \in Nat \ {0} /\ Len(s) = Len(q) - 1 /\ 1 \in 1 .. Len(q)
      /\ \A i \in 1 .. Len(s) : s[i] = q[i + 1] /\ i + 1 \in 1 .. Len(q)
      /\ \A i \in 1 .. Len(q) : q[i] \in WriteType
  OBVIOUS
<1> HIDE DEF s
<1>2. ASSUME NEW i \in 1 .. Len(s)
      PROVE  /\ s[i].to = "rows" => RowIsSound(s, i, later, files2)
             /\ s[i].to = "key" => KeyIsSound(s, i, tables2)
             /\ SavesAreSound(s, i)
  <2> DEFINE k == i + 1
  <2>1. /\ k \in 1 .. Len(q) /\ k > 1 /\ k - 1 = i /\ s[i] = q[k] /\ later = held
        /\ (i > 1 => s[i - 1] = q[k - 1]) /\ (i = 1 => q[k - 1] = q[1])
    <3>1. i > 1 => i - 1 \in 1 .. Len(s) /\ (i - 1) + 1 = i
      BY <1>1
    <3> QED
      BY <1>1, <3>1
  <2>2. /\ q[k].to = "rows" => RowIsSound(q, k, held, files)
        /\ q[k].to = "key" => KeyIsSound(q, k, tables)
        /\ SavesAreSound(q, k)
    BY <2>1 DEF StoreSound
  <2>3. q[1].to = "key" => KeyIsSound(q, 1, tables)
    BY <1>1 DEF StoreSound
  <2> HIDE DEF k
  <2>4. s[i].to = "rows" => RowIsSound(s, i, later, files2)
    <3> SUFFICES ASSUME q[k].to = "rows"
                 PROVE  RowIsSound(s, i, held, files2)
      BY <2>1
    <3>1. KeyThen(s, i, files2) = KeyThen(q, k, files)
      <4>1. CASE q[1].to = "key" /\ i = 1
        <5>1. q[k - 1] = q[1] /\ KeyThen(q, k, files) = q[1].key
          BY <2>1, <4>1 DEF KeyThen
        <5>2. q[1].dir = q[k].dir /\ q[1].dir \in Directories
          BY <1>1, <2>1, <2>2, <4>1, <5>1 DEF RowIsSound, WriteType
        <5>3. KeyThen(s, i, files2) = files2[q[k].dir]
          BY <2>1, <4>1 DEF KeyThen
        <5> QED
          BY <4>1, <5>1, <5>2, <5>3
      <4>2. CASE q[1].to = "key" /\ i # 1
        <5>1. k = Len(q) /\ q[k - 1].to = "key"
          <6>1. \A j \in 1 .. Len(q) - 1 : q[j].to # "rows"
            BY <2>3, <4>2 DEF KeyIsSound
          <6>2. k = Len(q)
            BY <1>1, <2>1, <6>1
          <6> QED
            BY <2>3, <4>2, <6>2 DEF KeyIsSound
        <5>2. i > 1 /\ s[i - 1] = q[k - 1]
          BY <1>1, <2>1, <4>2
        <5> QED
          BY <2>1, <5>1, <5>2 DEF KeyThen
      <4>3. CASE q[1].to # "key"
        <5>1. files2 = files
          BY <4>3
        <5>2. CASE i = 1
          BY <2>1, <4>3, <5>1, <5>2 DEF KeyThen
        <5>3. CASE i # 1
          <6>1. i > 1
            BY <1>1, <5>3
          <6> QED
            BY <2>1, <5>1, <6>1 DEF KeyThen
        <5> QED
          BY <5>2, <5>3
      <4> QED
        BY <4>1, <4>2, <4>3
    <3> QED
      BY <2>1, <2>2, <3>1 DEF RowIsSound
  <2>5. s[i].to = "key" => KeyIsSound(s, i, tables2)
    <3> SUFFICES ASSUME q[k].to = "key"
                 PROVE  KeyIsSound(s, i, tables2)
      BY <2>1
    <3>1. /\ DOMAIN tables[q[k].dir].vault = {}
          /\ k < Len(q) /\ k + 2 >= Len(q) /\ q[Len(q) - 1].to = "key"
          /\ \A j \in 1 .. Len(q) - 1 : q[j].to # "rows"
      BY <2>2 DEF KeyIsSound
    <3>2. q[1].to # "rows"
      BY <1>1, <2>1, <3>1
    <3>3. i < Len(s) /\ i + 2 >= Len(s)
      BY <1>1, <2>1, <3>1
    <3>4. s[Len(s) - 1] = q[Len(q) - 1]
      <4>1. Len(s) - 1 \in 1 .. Len(s) /\ (Len(s) - 1) + 1 = Len(q) - 1
        BY <1>1, <3>3
      <4> QED
        BY <1>1, <4>1
    <3>5. \A j \in 1 .. Len(s) - 1 : s[j].to # "rows"
      BY <1>1, <3>1
    <3> QED
      BY <2>1, <3>1, <3>2, <3>3, <3>4, <3>5 DEF KeyIsSound
  <2>6. SavesAreSound(s, i)
    <3>1. k = Len(q) => i = Len(s)
      BY <1>1, <2>1
    <3> QED
      BY <2>1, <2>2, <3>1 DEF SavesAreSound
  <2> QED
    BY <2>4, <2>5, <2>6
<1> QED
  BY <1>2 DEF StoreSound, s

\* A write is made, and the last one answered for.
LEMMA MakeWriteStep ==
  ASSUME StoreInv, NEW t \in Threads, MakeWrite(t)
  PROVE  StoreInv'
<1> USE DEF StoreInv
<1> DEFINE q == todo[t]
           w == q[1]
<1>1. q \in Seq(WriteType) /\ q # <<>> /\ Head(q) = w /\ w \in WriteType
      /\ Tail(q) \in Seq(WriteType) /\ Len(q) \in Nat \ {0} /\ 1 \in 1 .. Len(q)
      /\ (q = <<w>> => Len(q) = 1) /\ (Len(q) = 1 => Tail(q) = <<>>)
  <2>1. q \in Seq(WriteType) /\ q # <<>>
    BY DEF MakeWrite, StoreTyped
  <2> HIDE DEF q
  <2>2. Len(q) \in Nat \ {0} /\ Head(q) = q[1] /\ 1 \in 1 .. Len(q)
        /\ Tail(q) \in Seq(WriteType) /\ w \in WriteType
    BY <2>1
  <2>3. q = <<w>> => Len(q) = 1
    OBVIOUS
  <2>4. Len(q) = 1 => Len(Tail(q)) = 0
    BY <2>1
  <2>5. Len(q) = 1 => Tail(q) = <<>>
    <3> DEFINE x == Tail(q)
    <3>1. x \in Seq(WriteType) /\ (Len(q) = 1 => Len(x) = 0)
      BY <2>2, <2>4
    <3> HIDE DEF x
    <3>2. Len(q) = 1 => x = <<>>
      BY <3>1
    <3> QED
      BY <3>2 DEF x
  <2> QED
    BY <2>1, <2>2, <2>3, <2>5
<1>2. /\ config' = IF w.to = "config" THEN w.text ELSE config
      /\ keyFile' = IF w.to = "key" THEN [keyFile EXCEPT ![w.dir] = w.key] ELSE keyFile
      /\ rows' = IF w.to = "rows" THEN [rows EXCEPT ![w.dir] = w.row] ELSE rows
      /\ owed' = IF q = <<w>> THEN owed \cup w.saves ELSE owed
      /\ todo' = [todo EXCEPT ![t] = Tail(q)]
      /\ storeMutex' = IF Len(q) = 1 THEN NoThread ELSE storeMutex
      /\ keys' = keys
  BY <1>1 DEF MakeWrite
<1>3. /\ w.to = "rows" => RowIsSound(q, 1, owed, keyFile)
      /\ w.to = "key" => KeyIsSound(q, 1, rows)
      /\ SavesAreSound(q, 1) /\ StoreSound(q, owed, keyFile, rows)
  BY <1>1 DEF Planned, StoreSound
<1>4. storeMutex = t /\ \A u \in Threads : u # t => todo[u] = <<>> /\ todo'[u] = <<>>
  BY <1>1, <1>2 DEF Exclusive, StoreTyped
<1>5. todo'[t] = Tail(q)
  BY <1>2 DEF StoreTyped
<1> HIDE DEF q
<1>6. w.dir \in Directories /\ w.key \in Int /\ w.row \in RowType
      /\ w.text \in Directories \cup {Torn} /\ w.saves \subseteq Directories \X Hosts
  BY <1>1 DEF WriteType
<1>7. StoreTyped'
  <2> HIDE DEF w
  <2>1. config' \in Directories \cup {Torn} /\ keys' \in Nat
        /\ owed' \subseteq Directories \X Hosts
    BY <1>2, <1>6 DEF StoreTyped
  <2>2. keyFile' \in [Directories -> Int]
    BY <1>2, <1>6 DEF StoreTyped
  <2>3. rows' \in [Directories -> RowType]
    BY <1>2, <1>6 DEF StoreTyped
  <2>4. todo' \in [Threads -> Seq(WriteType)]
    BY <1>1, <1>2 DEF StoreTyped
  <2> QED
    BY <2>1, <2>2, <2>3, <2>4 DEF StoreTyped
<1>8. Exclusive'
  BY <1>1, <1>2, <1>4, <1>5 DEF Exclusive
<1>9. Saved'
  <2> SUFFICES ASSUME NEW d \in Directories
               PROVE  /\ Readable(rows'[d].vault, keyFile'[d])
                      /\ Keeps(owed', d, rows'[d].vault)
                      /\ keyFile'[d] \in {0, TornKey} => DOMAIN rows'[d].vault = {}
    BY DEF Saved
  <2>1. /\ Readable(rows[d].vault, keyFile[d]) /\ Keeps(owed, d, rows[d].vault)
        /\ keyFile[d] \in {0, TornKey} => DOMAIN rows[d].vault = {}
    BY DEF Saved
  <2>2. CASE w.to = "config"
    <3>1. w.saves = {}
      BY <1>3, <2>2 DEF SavesAreSound
    <3>2. rows' = rows /\ keyFile' = keyFile /\ owed' = owed
      BY <1>2, <2>2, <3>1
    <3> QED
      BY <2>1, <3>2
  <2>3. CASE w.to = "key"
    <3>1. w.saves = {}
      BY <1>3, <2>3 DEF SavesAreSound
    <3>2. rows' = rows /\ owed' = owed
          /\ keyFile' = [keyFile EXCEPT ![w.dir] = w.key]
      BY <1>2, <2>3, <3>1
    <3>3. DOMAIN rows[w.dir].vault = {}
      BY <1>3, <2>3 DEF KeyIsSound
    <3>4. CASE d = w.dir
      BY <2>1, <3>2, <3>3, <3>4 DEF Readable
    <3>5. CASE d # w.dir
      BY <2>1, <3>2, <3>5 DEF StoreTyped
    <3> QED
      BY <3>4, <3>5
  <2>4. CASE w.to = "rows"
    <3>1. keyFile' = keyFile /\ rows' = [rows EXCEPT ![w.dir] = w.row]
          /\ owed' \subseteq owed \cup w.saves
      BY <1>2, <2>4
    <3>2. \A o \in w.saves : o[1] = w.dir /\ o[2] \in DOMAIN w.row.vault
      BY <1>3 DEF SavesAreSound
    <3>3. KeyThen(q, 1, keyFile) = keyFile[w.dir]
      BY DEF KeyThen
    <3>4. /\ Readable(w.row.vault, keyFile[w.dir]) /\ Keeps(owed, w.dir, w.row.vault)
          /\ keyFile[w.dir] \in {0, TornKey} => DOMAIN w.row.vault = {}
      BY <1>3, <2>4, <3>3 DEF RowIsSound
    <3>5. CASE d = w.dir
      <4>1. rows'[d] = w.row
        BY <1>6, <3>1, <3>5 DEF StoreTyped
      <4>2. Keeps(owed', d, w.row.vault)
        BY <3>1, <3>2, <3>4, <3>5 DEF Keeps
      <4> QED
        BY <3>1, <3>4, <3>5, <4>1, <4>2
    <3>6. CASE d # w.dir
      <4>1. rows'[d] = rows[d]
        BY <3>1, <3>6 DEF StoreTyped
      <4>2. Keeps(owed', d, rows[d].vault)
        BY <2>1, <3>1, <3>2, <3>6 DEF Keeps
      <4> QED
        BY <2>1, <3>1, <4>1, <4>2
    <3> QED
      BY <3>5, <3>6
  <2> QED
    BY <1>1, <2>2, <2>3, <2>4 DEF WriteType
<1>10. Planned'
  <2>1. Len(q) = 1 \/ owed' = owed
    BY <1>1, <1>2
  <2>2. StoreSound(Tail(q), owed', keyFile', rows')
    <3>1. /\ w.to = "key" \/ keyFile' = keyFile
          /\ w.to = "key" => keyFile' = [keyFile EXCEPT ![w.dir] = w.key]
          /\ w.to = "rows" \/ rows' = rows
      BY <1>2
    <3>2. keyFile \in [Directories -> Int]
      BY DEF StoreTyped
    <3> QED
      BY <1>1, <1>3, <2>1, <3>1, <3>2, TailSound
  <2>3. StoreSound(<<>>, owed', keyFile', rows')
    BY DEF StoreSound
  <2>4. \A u \in Threads : StoreSound(todo'[u], owed', keyFile', rows')
    BY <1>4, <1>5, <2>2, <2>3
  <2> QED
    BY <2>4 DEF Planned
<1> QED
  BY <1>7, <1>8, <1>9, <1>10

\* After a crash nothing is left to do, and what has been written is safe.
LEMMA CrashStep ==
  ASSUME StoreInv, CrashStore
  PROVE  StoreInv'
<1> USE DEF StoreInv
<1>1. /\ todo' = [t \in Threads |-> <<>>]
      /\ UNCHANGED <<config, rows, keyFile, keys, owed>>
  BY DEF CrashStore
<1>2. StoreTyped'
  BY <1>1 DEF StoreTyped
<1>3. Exclusive' /\ Planned'
  BY <1>1 DEF Exclusive, Planned, StoreSound
<1>4. Saved'
  BY <1>1 DEF Saved, Keeps
<1> QED
  BY <1>2, <1>3, <1>4

\* The first state: there is no database, no key and no vault.
LEMMA StoreStarts == StoreInit => StoreInv
<1> SUFFICES ASSUME StoreInit PROVE StoreInv
  OBVIOUS
<1>1. NoVault \in Vaults /\ DOMAIN NoVault = {}
  <2>1. NoVault \in [{} -> Int] /\ {} \in SUBSET Hosts
    BY DEF NoVault
  <2> QED
    BY <2>1 DEF Vaults, NoVault
<1>2. StoreTyped
  <2> HIDE DEF NoVault
  <2>1. \A d \in Directories : rows[d] \in RowType
    BY <1>1 DEF StoreInit, RowType
  <2>2. rows \in [Directories -> RowType]
    BY <2>1 DEF StoreInit
  <2>3. keyFile \in [Directories -> Int] /\ todo \in [Threads -> Seq(WriteType)]
    BY DEF StoreInit
  <2> QED
    BY <2>2, <2>3 DEF StoreInit, StoreTyped
<1>3. Exclusive /\ Planned
  BY DEF StoreInit, Exclusive, Planned, StoreSound
<1>4. Saved
  BY <1>1 DEF StoreInit, Saved, Readable, Keeps
<1> QED
  BY <1>2, <1>3, <1>4 DEF StoreInv

\* Every step keeps the vaults readable and what was answered for.
LEMMA StoreKeeps == StoreInv /\ [StoreNext]_storeVars => StoreInv'
<1> SUFFICES ASSUME StoreInv, [StoreNext]_storeVars PROVE StoreInv'
  OBVIOUS
<1>1. CASE UNCHANGED storeVars
  BY <1>1 DEF storeVars, StoreInv, StoreTyped, Exclusive, Saved, Planned, Keeps
<1>2. CASE StoreNext
  BY <1>2, SaveHostsStep, SaveFingerprintStep, SaveCredentialStep, DeleteStep,
     SavePartialStep, MakeWriteStep, CrashStep DEF StoreNext
<1> QED
  BY <1>1, <1>2

-----------------------------------------------------------------------------
\* A credential in a database can be decrypted with the key beside it, and one
\* whose saving was answered for is there until it is removed, wherever the
\* process crashes.
THEOREM CredentialsPromise == StoreSpec => []CredentialsAreSafe
<1>1. StoreInv => CredentialsAreSafe
  <2> SUFFICES ASSUME StoreInv PROVE CredentialsAreSafe
    OBVIOUS
  <2>1. VaultIsReadable
    BY DEF StoreInv, Saved, Readable, VaultIsReadable
  <2>2. \A o \in owed : o[1] \in Directories
    BY DEF StoreInv, StoreTyped
  <2>3. AcknowledgedSurvives
    BY <2>2 DEF StoreInv, Saved, Keeps, AcknowledgedSurvives
  <2> QED
    BY <2>1, <2>3 DEF CredentialsAreSafe
<1> QED
  BY <1>1, StoreStarts, StoreKeeps, PTL DEF StoreSpec

-----------------------------------------------------------------------------
\* A key that is written is Torn or one of those made, and a host that is
\* trusted is in the list.
KeyNumbers == {TornKey} \cup 0 .. MaxKeys

FitWrite(w) ==
  /\ w.to = "key" => w.key \in KeyNumbers
  /\ w.to = "rows" => w.row.trusted \subseteq w.row.hosts

StoreBounded ==
  /\ keys <= MaxKeys
  /\ \A d \in Directories : keyFile[d] \in KeyNumbers /\ rows[d].trusted \subseteq rows[d].hosts
  /\ storeMutex \in Threads \cup {NoThread}
  /\ \A t \in Threads : \A i \in 1 .. Len(todo[t]) : FitWrite(todo[t][i])

LEMMA FitWrites ==
  /\ \A d : FitWrite(WriteConfig(d))
  /\ \A k \in KeyNumbers : FitWrite(WriteKey(k))
  /\ \A r : r.trusted \subseteq r.hosts =>
       FitWrite(WriteRows(r)) /\ \A s : FitWrite([WriteRows(r) EXCEPT !.saves = s])
<1>1. \A d : WriteConfig(d).to = "config"
  BY DEF WriteConfig, NoWrite
<1>2. \A k : WriteKey(k).to = "key" /\ WriteKey(k).key = k
  BY DEF WriteKey, NoWrite
<1>3. \A r : /\ WriteRows(r).to = "rows" /\ WriteRows(r).row = r
             /\ \A s : LET w == [WriteRows(r) EXCEPT !.saves = s] IN w.to = "rows" /\ w.row = r
  BY DEF WriteRows, NoWrite
<1> QED
  BY <1>1, <1>2, <1>3 DEF FitWrite

LEMMA BeginFits ==
  ASSUME StoreTyped, StoreBounded, NEW t \in Threads, NEW W, \A w \in W : FitWrite(w),
         NEW writes \in Seq(W), Begin(t, writes), keys' <= MaxKeys
  PROVE  StoreBounded'
<1> DEFINE V == W \cup {WriteConfig(Torn), WriteConfig(DefaultDirectory)}
           q == RepairConfig \o writes
<1>1. \A w \in V : FitWrite(w)
  BY FitWrites
<1>2. q \in Seq(V)
  <2>1. writes \in Seq(V)
    OBVIOUS
  <2>2. RepairConfig \in Seq(V)
    <3> DEFINE a == WriteConfig(Torn)
               b == WriteConfig(DefaultDirectory)
    <3>1. a \in V /\ b \in V
      OBVIOUS
    <3>2. RepairConfig \in {<<>>, <<a, b>>}
      BY DEF RepairConfig, RewriteConfig
    <3> HIDE DEF a, b, V
    <3>3. <<>> \in Seq(V) /\ <<a, b>> \in Seq(V)
      BY <3>1
    <3> QED
      BY <3>2, <3>3
  <2> HIDE DEF V
  <2> QED
    BY <2>1, <2>2
<1> HIDE DEF V, q
<1>3. \A i \in 1 .. Len(q) : FitWrite(q[i])
  BY <1>1, <1>2
<1>4. /\ storeMutex' = t /\ todo' = [todo EXCEPT ![t] = q] /\ keyFile' = keyFile /\ rows' = rows
  BY DEF Begin, q
<1>5. \A u \in Threads : todo'[u] = IF u = t THEN q ELSE todo[u]
  BY <1>4 DEF StoreTyped
<1> QED
  BY <1>3, <1>4, <1>5 DEF StoreBounded

LEMMA StoreBoundedKept ==
  ASSUME StoreTyped, StoreBounded, [StoreNext]_storeVars
  PROVE  StoreBounded'
<1>0. /\ Directory \in Directories /\ Rows \in RowType /\ Rows.trusted \subseteq Rows.hosts
      /\ keyFile[Directory] \in KeyNumbers /\ keys \in Nat /\ keys <= MaxKeys /\ MaxKeys \in Nat
  BY DirectoryAssumption, WritesTyped DEF StoreBounded, StoreTyped
<1>1. ASSUME NEW t \in Threads, NEW list \in SUBSET Hosts, NEW trust \in SUBSET list, SaveSshHosts(t, list, trust)
      PROVE  StoreBounded'
  <2> DEFINE r == [Rows EXCEPT !.hosts = list, !.trusted = trust]
             kept == [h \in DOMAIN r.vault \cap list |-> r.vault[h]]
             r2 == [r EXCEPT !.vault = kept]
             a == WriteRows(r)
             b == WriteRows(r2)
             writes == <<a>> \o (IF kept # r.vault THEN <<b>> ELSE <<>>)
  <2>1. Begin(t, writes) /\ keys' = keys
    BY <1>1 DEF SaveSshHosts
  <2>2. r.trusted = trust /\ r.hosts = list /\ r2.trusted = trust /\ r2.hosts = list
    <3>1. r.trusted = trust /\ r.hosts = list /\ r \in [{"hosts", "trusted", "vault"} -> {list, trust, Rows.vault}]
      BY <1>0 DEF RowType
    <3> HIDE DEF r, kept
    <3> QED
      BY <3>1
  <2>3. FitWrite(a) /\ FitWrite(b)
    BY <2>2, FitWrites
  <2>4. writes \in Seq({a, b})
    <3> DEFINE more == kept # r.vault
    <3> HIDE DEF a, b, more
    <3>1. <<a>> \in Seq({a, b}) /\ <<b>> \in Seq({a, b}) /\ <<>> \in Seq({a, b})
      OBVIOUS
    <3>2. (IF more THEN <<b>> ELSE <<>>) \in Seq({a, b})
      BY <3>1
    <3> QED
      BY <3>1, <3>2 DEF more
  <2> HIDE DEF writes, a, b
  <2> QED
    BY <1>0, <2>1, <2>3, <2>4, BeginFits
<1>2. ASSUME NEW t \in Threads, NEW h \in Hosts, SaveSshHostFingerprint(t, h) PROVE StoreBounded'
  <2> DEFINE r == [Rows EXCEPT !.trusted = @ \cup {h}]
             w == WriteRows(r)
  <2>1. Begin(t, <<w>>) /\ keys' = keys /\ h \in Rows.hosts
    BY <1>2 DEF SaveSshHostFingerprint
  <2>2. r.trusted \subseteq r.hosts
    BY <1>0, <2>1 DEF RowType
  <2>3. FitWrite(w)
    BY <2>2, FitWrites
  <2> HIDE DEF w
  <2>4. <<w>> \in Seq({w})
    OBVIOUS
  <2> QED
    BY <1>0, <2>1, <2>3, <2>4, BeginFits
<1>3. ASSUME NEW t \in Threads, NEW h \in Hosts, DeleteSshCredential(t, h) PROVE StoreBounded'
  <2> DEFINE r == [Rows EXCEPT !.vault = Without(@, h)]
             w == WriteRows(r)
  <2>1. Begin(t, <<w>>) /\ keys' = keys
    BY <1>3 DEF DeleteSshCredential
  <2>2. r.trusted \subseteq r.hosts
    BY <1>0 DEF RowType
  <2>3. FitWrite(w)
    BY <2>2, FitWrites
  <2> HIDE DEF w
  <2>4. <<w>> \in Seq({w})
    OBVIOUS
  <2> QED
    BY <1>0, <2>1, <2>3, <2>4, BeginFits
<1>4. ASSUME NEW t \in Threads, NEW h \in Hosts, SaveSshCredential(t, h) PROVE StoreBounded'
  <2> DEFINE file == keyFile[Directory]
             key == IF file = 0 THEN keys + 1 ELSE file
             r == [Rows EXCEPT !.vault = [k \in DOMAIN @ \cup {h} |-> IF k = h THEN key ELSE @[k]]]
             w == [WriteRows(r) EXCEPT !.saves = {<<Directory, h>>}]
             a == WriteKey(TornKey)
             b == WriteKey(key)
  <2>1. r.trusted \subseteq r.hosts
    BY <1>0 DEF RowType
  <2>2. FitWrite(w)
    BY <2>1, FitWrites
  <2>3. CASE file = TornKey
    <3>1. Begin(t, <<>>) /\ keys' = keys
      BY <1>4, <2>3 DEF SaveSshCredential
    <3>2. <<>> \in Seq({})
      OBVIOUS
    <3> QED
      BY <1>0, <3>1, <3>2, BeginFits
  <2>4. CASE file # TornKey /\ file # 0
    <3>1. Begin(t, <<w>>) /\ keys' = keys
      BY <1>4, <2>4 DEF SaveSshCredential
    <3> HIDE DEF w
    <3>2. <<w>> \in Seq({w})
      OBVIOUS
    <3> QED
      BY <1>0, <2>2, <3>1, <3>2, BeginFits
  <2>5. CASE file = 0
    <3>1. Begin(t, <<a, b>> \o <<w>>) /\ keys' = keys + 1 /\ keys < MaxKeys
      BY <1>4, <2>5 DEF SaveSshCredential, KeyFirst, TornKey
    <3>2. key \in KeyNumbers /\ TornKey \in KeyNumbers /\ keys' <= MaxKeys
      BY <1>0, <2>5, <3>1 DEF KeyNumbers
    <3>3. FitWrite(a) /\ FitWrite(b)
      BY <3>2, FitWrites
    <3> HIDE DEF w, a, b
    <3>4. <<a, b>> \o <<w>> \in Seq({a, b, w})
      OBVIOUS
    <3> QED
      BY <2>2, <3>1, <3>2, <3>3, <3>4, BeginFits
  <2> QED
    BY <2>3, <2>4, <2>5
<1>5. ASSUME NEW t \in Threads, NEW d \in Directories, SavePartial(t, d) PROVE StoreBounded'
  <2> DEFINE a == WriteConfig(Torn)
             b == WriteConfig(d)
  <2>1. Begin(t, <<a, b>>) /\ keys' = keys
    BY <1>5 DEF SavePartial, RewriteConfig
  <2>2. FitWrite(a) /\ FitWrite(b)
    BY FitWrites
  <2> HIDE DEF a, b
  <2>3. <<a, b>> \in Seq({a, b})
    OBVIOUS
  <2> QED
    BY <1>0, <2>1, <2>2, <2>3, BeginFits
<1>6. ASSUME NEW t \in Threads, MakeWrite(t) PROVE StoreBounded'
  <2> DEFINE q == todo[t]
             w == Head(q)
  <2>1. q \in Seq(WriteType) /\ q # <<>>
    BY <1>6 DEF MakeWrite, StoreTyped
  <2>2. /\ keyFile' = IF w.to = "key" THEN [keyFile EXCEPT ![w.dir] = w.key] ELSE keyFile
        /\ rows' = IF w.to = "rows" THEN [rows EXCEPT ![w.dir] = w.row] ELSE rows
        /\ todo' = [todo EXCEPT ![t] = Tail(q)] /\ storeMutex' \in {storeMutex, NoThread}
        /\ keys' = keys
    BY <1>6 DEF MakeWrite
  <2>3. FitWrite(w) /\ \A i \in 1 .. Len(Tail(q)) : FitWrite(Tail(q)[i])
    <3>1. \A i \in 1 .. Len(q) : FitWrite(q[i])
      BY DEF StoreBounded
    <3> HIDE DEF q
    <3>2. /\ Len(q) \in Nat \ {0} /\ w = q[1] /\ Len(Tail(q)) = Len(q) - 1
          /\ \A i \in 1 .. Len(Tail(q)) : Tail(q)[i] = q[i + 1] /\ i + 1 \in 1 .. Len(q)
      BY <2>1
    <3> QED
      BY <3>1, <3>2
  <2> HIDE DEF w
  <2>4. \A d \in Directories : /\ keyFile'[d] = keyFile[d] \/ (w.to = "key" /\ keyFile'[d] = w.key)
                               /\ rows'[d] = rows[d] \/ (w.to = "rows" /\ rows'[d] = w.row)
    BY <2>2 DEF StoreTyped
  <2>5. \A d \in Directories : keyFile'[d] \in KeyNumbers /\ rows'[d].trusted \subseteq rows'[d].hosts
    BY <2>3, <2>4 DEF StoreBounded, FitWrite
  <2>6. \A u \in Threads : todo'[u] = IF u = t THEN Tail(q) ELSE todo[u]
    BY <2>2 DEF StoreTyped
  <2>7. \A u \in Threads : \A i \in 1 .. Len(todo'[u]) : FitWrite(todo'[u][i])
    BY <2>3, <2>6 DEF StoreBounded
  <2> QED
    BY <2>2, <2>5, <2>7 DEF StoreBounded
<1>7. CASE CrashStore
  BY <1>7 DEF CrashStore, StoreBounded
<1>8. CASE UNCHANGED storeVars
  BY <1>8 DEF storeVars, StoreBounded
<1> QED
  BY <1>1, <1>2, <1>3, <1>4, <1>5, <1>6, <1>7, <1>8 DEF StoreNext

LEMMA StoreTypes == StoreSpec => []StoreTypeOK
<1>1. StoreInit => StoreBounded
  BY DirectoryAssumption DEF StoreInit, StoreBounded, KeyNumbers
<1>2. StoreInv /\ StoreBounded /\ [StoreNext]_storeVars => StoreBounded'
  BY StoreBoundedKept DEF StoreInv
<1>3. StoreInv /\ StoreBounded => StoreTypeOK
  <2> SUFFICES ASSUME StoreInv, StoreBounded PROVE StoreTypeOK
    OBVIOUS
  <2>1. \A d \in Directories : rows[d].hosts \subseteq Hosts /\ DOMAIN rows[d].vault \subseteq Hosts
    <3> TAKE d \in Directories
    <3>1. rows[d].hosts \subseteq Hosts /\ rows[d].vault \in Vaults
      BY DEF StoreInv, StoreTyped, RowType
    <3>2. PICK S \in SUBSET Hosts : rows[d].vault \in [S -> Int]
      BY <3>1 DEF Vaults
    <3> QED
      BY <3>1, <3>2
  <2> QED
    BY <2>1 DEF StoreInv, StoreTyped, StoreBounded, KeyNumbers, StoreTypeOK
<1> QED
  BY <1>1, <1>2, <1>3, StoreStarts, StoreKeeps, PTL DEF StoreSpec

-----------------------------------------------------------------------------
(* The scan of a network.                                                  *)
(*                                                                         *)
(* As long as nobody has asked for a stop, the addresses that were handed  *)
(* out are those the cursor has passed; each is in the hands of one worker *)
(* or among the results, and the totals count the workers that have passed *)
(* them (Exact).  A stop only ever ends in another verdict.                *)

Places == {"idle", "probing", "counting", "sending", "done"}
Busy == {"probing", "counting", "sending"}
WorkerRecord == [at : Places, host : Int, online : BOOLEAN]

\* The hosts scanned, those that answer, and those the cursor has passed.
ScanHosts == HostsOf(addresses)
Alive == pings \cup listening
Passed == {h \in ScanHosts : h < addresses.first + cursor}

ScanTyped ==
  /\ addresses \in [first : Int, count : Nat]
  /\ pings \subseteq ScanHosts /\ listening \subseteq ScanHosts
  /\ cursor \in Nat
  /\ prober \in [Probers -> WorkerRecord]
  /\ scanned \in Nat /\ reachable \in Nat

\* The hosts of the results sent, and of the workers at the places of S.
Reported == {r.host : r \in results}
ProbersAt(S) == {prober[w].host : w \in {v \in Probers : prober[v].at \in S}}

Counted == Reported \cup ProbersAt({"sending"})
Probed == Reported \cup ProbersAt({"counting", "sending"})
TakenHosts == Reported \cup ProbersAt(Busy)

\* Each host taken has been taken once.
Distinct ==
  \A v \in Probers : prober[v].at \in Busy =>
    /\ prober[v].host \notin Reported
    /\ \A w \in Probers : w # v /\ prober[w].at \in Busy => prober[w].host # prober[v].host

Answers == [h \in ScanHosts |-> [host |-> h, online |-> h \in Alive]]

\* What has been found out is true.
Truthful ==
  /\ \A w \in Probers : prober[w].at \in {"counting", "sending"} =>
       prober[w].host \in ScanHosts /\ prober[w].online = (prober[w].host \in Alive)
  /\ \A r \in results : r.host \in ScanHosts /\ r = Answers[r.host]

Totals ==
  /\ scanned = Cardinality(Counted)
  /\ reachable = Cardinality(Probed \cap Alive)

Exact ==
  /\ TakenHosts = Passed /\ Distinct /\ Truthful /\ Totals
  /\ cursor >= addresses.count \/ ~AllDone

Undisturbed == scanLink = "open" /\ ~stopScan

NInv ==
  /\ ScanTyped
  /\ runScan = "running" => verdict = "none" /\ (Undisturbed => Exact)
  /\ runScan # "running" => AllDone
  /\ runScan = "none" => verdict = "none"
  /\ CompleteIsComplete

-----------------------------------------------------------------------------
\* The addresses of an accepted network are a range.
LEMMA RangeTyped ==
  ASSUME NEW address \in Addresses, NEW prefix \in 0 .. Width, Accepted(prefix)
  PROVE  ExpandCidr(address, prefix) \in [first : Int, count : Nat \ {0}]
<1>1. Block(prefix) \in Nat \ {0}
  BY PowersAssumption
<1>2. address \in Int
  BY DEF Addresses
<1>3. Masked(address, prefix) \in Int
  BY <1>1, <1>2 DEF Masked
<1>4. UsableCount(prefix) \in Nat \ {0}
  BY DEF Accepted
<1> QED
  BY <1>3, <1>4 DEF ExpandCidr

\* A range holds as many hosts as it says.
LEMMA RangeSize ==
  ASSUME NEW r \in [first : Int, count : Nat]
  PROVE  IsFiniteSet(HostsOf(r)) /\ Cardinality(HostsOf(r)) = r.count
<1>1. r.first \in Int /\ r.count \in Nat /\ r.first + r.count - 1 \in Int
  OBVIOUS
<1>2. HostsOf(r) = r.first .. r.first + r.count - 1
  BY DEF HostsOf
<1> HIDE DEF HostsOf
<1> QED
  BY <1>1, <1>2, FS_Interval

\* What a step of worker w does to the hosts at some places.
Others(w, S) == {prober[v].host : v \in {u \in Probers : u # w /\ prober[u].at \in S}}

LEMMA PlacesStep ==
  ASSUME ScanTyped, NEW w \in Probers, NEW x, Moves(w, x), NEW S
  PROVE  /\ ProbersAt(S) = Others(w, S) \cup (IF prober[w].at \in S THEN {prober[w].host} ELSE {})
         /\ ProbersAt(S)' = Others(w, S) \cup (IF x.at \in S THEN {x.host} ELSE {})
<1>1. prober'[w] = x /\ \A v \in Probers : v # w => prober'[v] = prober[v]
  BY DEF Moves, ScanTyped
<1> QED
  BY <1>1 DEF ProbersAt, Others

LEMMA OneMoved ==
  ASSUME ScanTyped, NEW w \in Probers, NEW x \in WorkerRecord, Moves(w, x)
  PROVE  /\ prober'[w] = x /\ \A v \in Probers : v # w => prober'[v] = prober[v]
         /\ prober' \in [Probers -> WorkerRecord]
BY DEF Moves, ScanTyped

\* A host that is counted adds one to a total.
LEMMA OneCounted ==
  ASSUME NEW S, IsFiniteSet(S), NEW h, h \notin S
  PROVE  Cardinality(S \cup {h}) = Cardinality(S) + 1
BY FS_AddElement

-----------------------------------------------------------------------------
(* The handlers *)

\* Before the first scan there is nothing to do.
LEMMA NetworkStarts == NetworkInit => NInv
<1> SUFFICES ASSUME NetworkInit PROVE NInv
  OBVIOUS
<1>1. ScanTyped
  BY DEF NetworkInit, ScanTyped, ScanHosts, HostsOf, NoRange, Resting, WorkerRecord, Places
<1> QED
  BY <1>1 DEF NetworkInit, NInv, AllDone, Resting, CompleteIsComplete

\* A new scan has taken no host, and has a worker.
LEMMA LaunchStep ==
  ASSUME NEW address \in Addresses, NEW prefix \in 0 .. Width, Launch(address, prefix)
  PROVE  NInv'
<1>1. CASE ~Accepted(prefix)
  <2>1. Resting \in WorkerRecord /\ NoRange \in [first : Int, count : Nat]
    BY DEF Resting, WorkerRecord, Places, NoRange
  <2>2. /\ addresses' = NoRange /\ pings' = {} /\ listening' = {}
        /\ cursor' = 0 /\ scanned' = 0 /\ reachable' = 0
        /\ prober' = [w \in Probers |-> Resting]
    BY <1>1 DEF Launch
  <2>3. ScanTyped'
    BY <2>1, <2>2 DEF ScanTyped
  <2> QED
    BY <1>1, <2>3 DEF Launch, NInv, AllDone, Resting, CompleteIsComplete
<1>2. CASE Accepted(prefix)
  <2>1. addresses' \in [first : Int, count : Nat \ {0}]
    BY <1>2, RangeTyped DEF Launch
  <2>2. PICK team \in SUBSET Probers :
          /\ \/ Cardinality(team) = addresses'.count
             \/ team = Probers /\ (Cardinality(team) < addresses'.count)
          /\ prober' = [w \in Probers |->
                          [Resting EXCEPT !.at = IF w \in team THEN "idle" ELSE "done"]]
    BY <1>2 DEF Launch, StartWorkers
  <2>3. team # {}
    BY <2>1, <2>2, ProbersAssumption, FS_EmptySet
  <2>4. /\ \A w \in Probers : prober'[w] \in WorkerRecord /\ prober'[w].at \in {"idle", "done"}
        /\ \A w \in team : prober'[w].at = "idle"
        /\ prober' \in [Probers -> WorkerRecord]
    <3>1. \A w \in Probers :
            prober'[w] = [Resting EXCEPT !.at = IF w \in team THEN "idle" ELSE "done"]
      BY <2>2
    <3>2. /\ [Resting EXCEPT !.at = "idle"] \in WorkerRecord
          /\ [Resting EXCEPT !.at = "done"] \in WorkerRecord
      <4>1. "idle" \in Places /\ "done" \in Places /\ Resting \in WorkerRecord
        BY DEF Resting, WorkerRecord, Places
      <4> QED
        BY <4>1 DEF WorkerRecord
    <3>3. [Resting EXCEPT !.at = "idle"].at = "idle"
      BY DEF Resting
    <3>4. [Resting EXCEPT !.at = "done"].at = "done"
      BY DEF Resting
    <3>5. \A w \in Probers :
            prober'[w] = IF w \in team THEN [Resting EXCEPT !.at = "idle"]
                                      ELSE [Resting EXCEPT !.at = "done"]
      BY <3>1
    <3>6. \A w \in Probers : prober'[w] \in WorkerRecord
      BY <3>2, <3>5
    <3>7. \A w \in Probers : prober'[w].at = IF w \in team THEN "idle" ELSE "done"
      BY <3>5, <3>3, <3>4
    <3> QED
      BY <2>2, <3>6, <3>7
  <2>5. ScanTyped'
    BY <1>2, <2>1, <2>4 DEF Launch, ScanTyped, ScanHosts
  <2>6. /\ runScan' = "running" /\ verdict' = "none" /\ results' = {} /\ cursor' = 0
        /\ scanned' = 0 /\ reachable' = 0
    BY <1>2 DEF Launch
  <2>7. Reported' = {} /\ ProbersAt(Busy)' = {} /\ ProbersAt({"sending"})' = {} /\ ProbersAt({"counting", "sending"})' = {}
    BY <2>4, <2>6 DEF Reported, ProbersAt, Busy
  <2>8. Passed' = {}
    BY <2>1, <2>6 DEF Passed, ScanHosts, HostsOf
  <2>9. TakenHosts' = Passed' /\ Distinct' /\ Truthful'
    BY <2>4, <2>6, <2>7, <2>8 DEF TakenHosts, Distinct, Truthful, Busy
  <2>10. Totals'
    <3>1. Counted' = {} /\ (Probed \cap Alive)' = {}
      BY <2>7 DEF Counted, Probed
    <3> QED
      BY <2>6, <3>1, FS_EmptySet DEF Totals
  <2>11. ~AllDone'
    BY <2>3, <2>4 DEF AllDone
  <2> QED
    BY <2>5, <2>6, <2>9, <2>10, <2>11 DEF NInv, Exact, CompleteIsComplete
<1> QED
  BY <1>1, <1>2

\* The other handlers leave the threads alone; a stop or a connection that is
\* lost stays that way.
LEMMA HandlerStep ==
  ASSUME NInv, UNCHANGED <<runScan, threadVars>>, Undisturbed' => Undisturbed,
         scanLink' = "open" => scanLink = "open"
  PROVE  NInv'
<1>1. ScanTyped'
  BY DEF NInv, ScanTyped, ScanHosts, threadVars
<1>2. AllDone' <=> AllDone
  BY DEF AllDone, threadVars
<1>3. Exact' <=> Exact
  BY <1>2 DEF Exact, TakenHosts, Passed, Distinct, Truthful, Totals, Counted, Probed, Reported, ProbersAt, ScanHosts,
              Alive, Answers, threadVars
<1>4. CompleteIsComplete'
  BY DEF NInv, CompleteIsComplete, threadVars
<1> QED
  BY <1>1, <1>2, <1>3, <1>4 DEF NInv, threadVars

-----------------------------------------------------------------------------
(* The workers *)

\* What every step of a worker has in common.
Works(w, x) == Moves(w, x) /\ UNCHANGED <<scanLink, waitsFor, runScan, stopScan, addresses, pings,
                                          listening, verdict>>

\* A worker at work is one of a scan that runs, and it is enough to show that
\* the books are right afterwards.
LEMMA WorkerStep ==
  ASSUME NInv, NEW w \in Probers, NEW x \in WorkerRecord, Works(w, x), prober[w].at # "done",
         cursor' \in Nat, scanned' \in Nat, reachable' \in Nat,
         Undisturbed /\ Exact => Exact'
  PROVE  NInv'
<1>1. runScan = "running"
  BY DEF NInv, AllDone
<1>2. ScanTyped'
  BY OneMoved DEF NInv, ScanTyped, Works, ScanHosts
<1> QED
  BY <1>1, <1>2 DEF NInv, Works, Undisturbed, CompleteIsComplete

\* The sets the totals count are finite.
LEMMA BooksFinite ==
  ASSUME ScanTyped, Exact
  PROVE  /\ IsFiniteSet(ScanHosts) /\ TakenHosts \subseteq ScanHosts
         /\ Counted \subseteq TakenHosts /\ Probed \subseteq TakenHosts
         /\ IsFiniteSet(Counted) /\ IsFiniteSet(Probed \cap Alive)
<1>1. IsFiniteSet(ScanHosts)
  BY RangeSize DEF ScanTyped, ScanHosts
<1>2. TakenHosts \subseteq ScanHosts
  BY DEF Exact, Passed
<1>3. Counted \subseteq TakenHosts /\ Probed \subseteq TakenHosts
  BY DEF Counted, Probed, TakenHosts, ProbersAt, Busy
<1> QED
  BY <1>1, <1>2, <1>3, FS_Subset

\* An address is taken, or there is none left.
LEMMA FetchStep ==
  ASSUME NInv, NEW w \in Probers, FetchAddress(w)
  PROVE  NInv'
<1> DEFINE x == IF cursor >= addresses.count THEN Resting
                ELSE [Resting EXCEPT !.at = "probing", !.host = addresses.first + cursor]
           h == addresses.first + cursor
<1>1. ScanTyped /\ cursor \in Nat /\ addresses.first \in Int /\ addresses.count \in Nat /\ h \in Int
  BY DEF NInv, ScanTyped
<1>2. CASE cursor >= addresses.count
  <2>1. x = Resting /\ x \in WorkerRecord /\ x.at = "done"
    BY <1>2 DEF Resting, WorkerRecord, Places
  <2>2. ASSUME Undisturbed, Exact PROVE Exact'
    <3>1. /\ ProbersAt(Busy)' = ProbersAt(Busy) /\ ProbersAt({"sending"})' = ProbersAt({"sending"})
          /\ ProbersAt({"counting", "sending"})' = ProbersAt({"counting", "sending"})
      <4>1. Moves(w, x) /\ prober[w].at = "idle"
        BY DEF FetchAddress
      <4> HIDE DEF x
      <4>2. ASSUME NEW S, "idle" \notin S, "done" \notin S
            PROVE  ProbersAt(S)' = ProbersAt(S)
        <5>1. /\ ProbersAt(S) = Others(w, S) \cup (IF prober[w].at \in S THEN {prober[w].host} ELSE {})
              /\ ProbersAt(S)' = Others(w, S) \cup (IF x.at \in S THEN {x.host} ELSE {})
          BY <1>1, <4>1, PlacesStep
        <5> QED
          BY <2>1, <4>1, <4>2, <5>1
      <4> QED
        BY <4>2 DEF Busy
    <3>2. prober'[w] = x /\ \A v \in Probers : v # w => prober'[v] = prober[v]
      BY <1>1, <2>1, OneMoved DEF FetchAddress
    <3>3. Passed' = Passed
      BY <1>1, <1>2 DEF FetchAddress, Passed, ScanHosts, HostsOf
    <3>4. TakenHosts' = Passed' /\ Totals'
      BY <2>2, <3>1, <3>3 DEF Exact, TakenHosts, Totals, Counted, Probed, Reported, Alive, FetchAddress
    <3>5. Distinct' /\ Truthful'
      BY <2>1, <2>2, <3>2 DEF Exact, Distinct, Truthful, Busy, Reported, ScanHosts, Alive, Answers,
                              FetchAddress
    <3> QED
      BY <1>1, <1>2, <3>4, <3>5 DEF Exact, FetchAddress
  <2>3. Works(w, x) /\ cursor' \in Nat /\ scanned' \in Nat /\ reachable' \in Nat
    BY <1>1 DEF Works, FetchAddress, ScanTyped
  <2> QED
    BY <2>1, <2>2, <2>3, WorkerStep DEF FetchAddress
<1>3. CASE ~(cursor >= addresses.count)
  <2>1. x = [at |-> "probing", host |-> h, online |-> FALSE] /\ x \in WorkerRecord
    BY <1>1, <1>3 DEF Resting, WorkerRecord, Places
  <2>2. ASSUME Undisturbed, Exact PROVE Exact'
    <3>1. /\ ProbersAt(Busy)' = ProbersAt(Busy) \cup {h} /\ ProbersAt({"sending"})' = ProbersAt({"sending"})
          /\ ProbersAt({"counting", "sending"})' = ProbersAt({"counting", "sending"})
      <4>1. Moves(w, x) /\ prober[w].at = "idle" /\ x.at = "probing" /\ x.host = h
        BY <2>1 DEF FetchAddress
      <4> HIDE DEF x, h
      <4>2. ASSUME NEW S, "idle" \notin S
            PROVE  ProbersAt(S)' = ProbersAt(S) \cup (IF "probing" \in S THEN {h} ELSE {})
        BY <1>1, <4>1, <4>2, PlacesStep
      <4>3. ProbersAt(Busy)' = ProbersAt(Busy) \cup {h}
        BY <4>2 DEF Busy
      <4>4. ProbersAt({"sending"})' = ProbersAt({"sending"}) \cup {}
        BY <4>2
      <4>5. ProbersAt({"counting", "sending"})' = ProbersAt({"counting", "sending"}) \cup {}
        BY <4>2
      <4> QED
        BY <4>3, <4>4, <4>5
    <3>2. prober'[w] = x /\ \A v \in Probers : v # w => prober'[v] = prober[v]
      BY <1>1, <2>1, OneMoved DEF FetchAddress
    <3>3. Passed' = Passed \cup {h} /\ h \notin Passed
      BY <1>1, <1>3 DEF FetchAddress, Passed, ScanHosts, HostsOf
    <3>4. TakenHosts' = Passed' /\ Totals'
      BY <2>2, <3>1, <3>3 DEF Exact, TakenHosts, Totals, Counted, Probed, Reported, Alive, FetchAddress
    <3>5. h \notin Reported /\ \A v \in Probers : prober[v].at \in Busy => prober[v].host # h
      BY <2>2, <3>3 DEF Exact, TakenHosts, ProbersAt
    <3>6. Distinct'
      BY <2>1, <2>2, <3>2, <3>5 DEF Exact, Distinct, Reported, FetchAddress
    <3>7. Truthful'
      BY <2>1, <2>2, <3>2 DEF Exact, Truthful, ScanHosts, Alive, Answers, FetchAddress
    <3>8. ~AllDone'
      BY <2>1, <3>2 DEF AllDone
    <3> QED
      BY <3>4, <3>6, <3>7, <3>8 DEF Exact
  <2>3. Works(w, x) /\ cursor' \in Nat /\ scanned' \in Nat /\ reachable' \in Nat
    BY <1>1 DEF Works, FetchAddress, ScanTyped
  <2> QED
    BY <2>1, <2>2, <2>3, WorkerStep DEF FetchAddress
<1> QED
  BY <1>2, <1>3

\* A worker that sees the stop belongs to a scan that is disturbed already.
LEMMA SeeStopStep ==
  ASSUME NInv, NEW w \in Probers, SeeStopScan(w)
  PROVE  NInv'
<1>1. Resting \in WorkerRecord
  BY DEF Resting, WorkerRecord, Places
<1>2. Works(w, Resting) /\ cursor' \in Nat /\ scanned' \in Nat /\ reachable' \in Nat
  BY DEF Works, SeeStopScan, NInv, ScanTyped
<1> QED
  BY <1>1, <1>2, WorkerStep DEF SeeStopScan, Undisturbed

\* A worker at work that goes on with its host leaves what was taken.
LEMMA SameHost ==
  ASSUME ScanTyped, Exact, NEW w \in Probers, NEW x \in WorkerRecord, Moves(w, x),
         prober[w].at \in Busy, x.at \in Busy, x.host = prober[w].host,
         UNCHANGED <<addresses, pings, listening, results, cursor>>
  PROVE  TakenHosts' = Passed' /\ Distinct' /\ ~AllDone'
<1>1. ProbersAt(Busy)' = ProbersAt(Busy)
  BY PlacesStep
<1>2. prober'[w] = x /\ \A v \in Probers : v # w => prober'[v] = prober[v]
  BY OneMoved
<1>3. TakenHosts' = Passed'
  BY <1>1 DEF Exact, TakenHosts, Passed, Reported, ScanHosts
<1>4. Distinct'
  BY <1>2 DEF Exact, Distinct, Reported
<1>5. ~AllDone'
  BY <1>2 DEF AllDone, Busy
<1> QED
  BY <1>3, <1>4, <1>5

\* The answer of an undisturbed probe is true, and counts if it is yes.
LEMMA ProbeStep ==
  ASSUME NInv, NEW w \in Probers, Probe(w)
  PROVE  NInv'
<1> DEFINE h == prober[w].host
<1>1. ScanTyped /\ prober[w] \in WorkerRecord /\ prober[w].at = "probing" /\ reachable \in Nat
  BY DEF NInv, ScanTyped, Probe
<1>2. PICK ping \in Ping(h), open \in ProbePort(h) :
        /\ Moves(w, [prober[w] EXCEPT !.at = "counting", !.online = ping \/ open])
        /\ reachable' = reachable + (IF ping \/ open THEN 1 ELSE 0)
  BY DEF Probe
<1>3. ping \in BOOLEAN /\ open \in BOOLEAN
  <2>1. ping \in {(h \in pings), FALSE} /\ open \in {(h \in listening), FALSE}
    BY <1>2 DEF Ping, ProbePort, UnlessStopped
  <2>2. (h \in pings) \in BOOLEAN /\ (h \in listening) \in BOOLEAN
    OBVIOUS
  <2> HIDE DEF h
  <2> QED
    BY <2>1, <2>2, Zenon
<1> DEFINE x == [prober[w] EXCEPT !.at = "counting", !.online = ping \/ open]
<1>4. x \in WorkerRecord /\ x.at = "counting" /\ x.host = h /\ x.online = (ping \/ open)
  BY <1>1, <1>3 DEF WorkerRecord, Places
<1>5. Works(w, x) /\ cursor' \in Nat /\ scanned' \in Nat /\ reachable' \in Nat
  BY <1>1, <1>2 DEF Works, Probe, ScanTyped
<1>6. ASSUME Undisturbed, Exact PROVE Exact'
  <2>1. (ping \/ open) <=> h \in Alive
    BY <1>2, <1>6 DEF Undisturbed, Ping, ProbePort, UnlessStopped, Alive
  <2>2. h \in ScanHosts /\ h \notin Probed
    <3>1. h \in ProbersAt(Busy)
      BY <1>1 DEF ProbersAt, Busy
    <3>2. h \in ScanHosts
      BY <1>6, <3>1 DEF Exact, TakenHosts, Passed
    <3>3. h \notin Reported /\ h \notin ProbersAt({"counting", "sending"})
      BY <1>1, <1>6 DEF Exact, Distinct, ProbersAt, Busy
    <3> QED
      BY <3>2, <3>3 DEF Probed
  <2>3. TakenHosts' = Passed' /\ Distinct' /\ ~AllDone'
    <3> HIDE DEF x
    <3> QED
      BY <1>1, <1>4, <1>5, <1>6, SameHost DEF Works, Probe, Busy
  <2>4. Truthful'
    <3>1. prober'[w] = x /\ \A v \in Probers : v # w => prober'[v] = prober[v]
      BY <1>1, <1>2, <1>4, OneMoved
    <3>2. x.online = (h \in Alive)
      BY <1>4, <2>1
    <3> HIDE DEF x
    <3> QED
      BY <1>4, <1>6, <2>2, <3>1, <3>2 DEF Exact, Truthful, ScanHosts, Alive, Answers, Probe
  <2>5. ProbersAt({"sending"})' = ProbersAt({"sending"}) /\
        ProbersAt({"counting", "sending"})' = ProbersAt({"counting", "sending"}) \cup {h}
    <3> HIDE DEF x
    <3>1. ASSUME NEW S, "probing" \notin S
          PROVE  ProbersAt(S)' = ProbersAt(S) \cup (IF "counting" \in S THEN {h} ELSE {})
      BY <1>1, <1>4, <1>5, <3>1, PlacesStep DEF Works
    <3>2. ProbersAt({"sending"})' = ProbersAt({"sending"}) \cup {}
      BY <3>1
    <3>3. ProbersAt({"counting", "sending"})' = ProbersAt({"counting", "sending"}) \cup {h}
      BY <3>1
    <3> QED
      BY <3>2, <3>3
  <2>6. Totals'
    <3>1. Counted' = Counted /\ scanned' = scanned
      BY <2>5 DEF Counted, Reported, Probe
    <3>2. (Probed \cap Alive)' = (Probed \cap Alive) \cup (IF h \in Alive THEN {h} ELSE {})
      BY <2>5 DEF Probed, Reported, Alive, Probe
    <3>3. reachable' = reachable + (IF h \in Alive THEN 1 ELSE 0)
      BY <1>2, <2>1
    <3>4. IsFiniteSet(Probed \cap Alive) /\ h \notin Probed \cap Alive
      BY <1>1, <1>6, <2>2, BooksFinite
    <3>5. Cardinality((Probed \cap Alive)') = reachable'
      <4>1. CASE h \in Alive
        BY <1>6, <3>2, <3>3, <3>4, <4>1, OneCounted DEF Exact, Totals
      <4>2. CASE h \notin Alive
        <5>1. (Probed \cap Alive)' = Probed \cap Alive
          BY <3>2, <4>2
        <5>2. reachable' = reachable
          BY <1>1, <3>3, <4>2
        <5> QED
          BY <1>6, <5>1, <5>2 DEF Exact, Totals
      <4> QED
        BY <4>1, <4>2
    <3> QED
      BY <1>6, <3>1, <3>5 DEF Exact, Totals
  <2> QED
    BY <2>3, <2>4, <2>6 DEF Exact
<1> QED
  <2> HIDE DEF x
  <2> QED
    BY <1>1, <1>4, <1>5, <1>6, WorkerStep

\* A host whose answer is known adds one to the total.
LEMMA CountStep ==
  ASSUME NInv, NEW w \in Probers, CountHost(w)
  PROVE  NInv'
<1> DEFINE h == prober[w].host
           x == [prober[w] EXCEPT !.at = "sending"]
<1>1. ScanTyped /\ prober[w] \in WorkerRecord /\ prober[w].at = "counting" /\ scanned \in Nat
  BY DEF NInv, ScanTyped, CountHost
<1>2. x \in WorkerRecord /\ x.at = "sending" /\ x.host = h /\ x.online = prober[w].online
  BY <1>1 DEF WorkerRecord, Places
<1>3. Works(w, x) /\ cursor' \in Nat /\ scanned' \in Nat /\ reachable' \in Nat
  BY <1>1 DEF Works, CountHost, ScanTyped
<1>4. ASSUME Undisturbed, Exact PROVE Exact'
  <2> HIDE DEF x
  <2>1. TakenHosts' = Passed' /\ Distinct' /\ ~AllDone'
    BY <1>1, <1>2, <1>3, <1>4, SameHost DEF Works, CountHost, Busy
  <2>2. Truthful'
    <3>1. prober'[w] = x /\ \A v \in Probers : v # w => prober'[v] = prober[v]
      BY <1>1, <1>2, <1>3, OneMoved DEF Works
    <3>2. h \in ScanHosts /\ x.online = (h \in Alive)
      BY <1>1, <1>2, <1>4 DEF Exact, Truthful
    <3> QED
      BY <1>2, <1>4, <3>1, <3>2 DEF Exact, Truthful, ScanHosts, Alive, Answers, CountHost
  <2>3. ASSUME NEW S, "sending" \in S
        PROVE  ProbersAt(S)' = ProbersAt(S) \cup {h}
    <3>1. /\ ProbersAt(S) = Others(w, S) \cup (IF prober[w].at \in S THEN {prober[w].host} ELSE {})
          /\ ProbersAt(S)' = Others(w, S) \cup (IF x.at \in S THEN {x.host} ELSE {})
      BY <1>1, <1>3, PlacesStep DEF Works
    <3> QED
      BY <1>1, <1>2, <2>3, <3>1
  <2>4. h \in ProbersAt({"counting", "sending"}) /\ h \notin Counted
    BY <1>1, <1>4 DEF Exact, Distinct, Counted, ProbersAt, Busy
  <2>5. Counted' = Counted \cup {h}
    BY <2>3 DEF Counted, Reported, CountHost
  <2>6. (Probed \cap Alive)' = Probed \cap Alive
    <3>1. ProbersAt({"counting", "sending"})' = ProbersAt({"counting", "sending"}) \cup {h}
      BY <2>3
    <3> QED
      BY <2>4, <3>1 DEF Probed, Reported, Alive, CountHost
  <2>7. Totals'
    <3>1. Cardinality(Counted \cup {h}) = Cardinality(Counted) + 1
      BY <1>1, <1>4, <2>4, BooksFinite, OneCounted
    <3> QED
      BY <1>4, <2>5, <2>6, <3>1 DEF Exact, Totals, CountHost
  <2> QED
    BY <2>1, <2>2, <2>7 DEF Exact
<1> QED
  <2> HIDE DEF x
  <2> QED
    BY <1>1, <1>2, <1>3, <1>4, WorkerStep

\* The host passes from the worker to the results.
LEMMA SendStep ==
  ASSUME NInv, NEW w \in Probers, SendResult(w)
  PROVE  NInv'
<1> DEFINE h == prober[w].host
           x == [Resting EXCEPT !.at = "idle"]
           r == [host |-> h, online |-> prober[w].online]
<1>1. ScanTyped /\ prober[w] \in WorkerRecord /\ prober[w].at = "sending"
  BY DEF NInv, ScanTyped, SendResult
<1>2. x \in WorkerRecord /\ x.at = "idle"
  <2>1. "idle" \in Places /\ Resting \in WorkerRecord
    BY DEF Resting, WorkerRecord, Places
  <2>2. x \in WorkerRecord
    BY <2>1 DEF WorkerRecord
  <2>3. x.at = "idle"
    BY DEF Resting
  <2> QED
    BY <2>2, <2>3
<1>3. Works(w, x) /\ cursor' \in Nat /\ scanned' \in Nat /\ reachable' \in Nat
  BY <1>1 DEF Works, SendResult, ScanTyped
<1>4. ASSUME Undisturbed, Exact PROVE Exact'
  <2> HIDE DEF x
  <2>1. results' = results \cup {r}
    BY <1>4 DEF SendResult, Undisturbed
  <2>2. Reported' = Reported \cup {h}
    <3>1. r.host = h
      OBVIOUS
    <3> HIDE DEF r, h
    <3> QED
      BY <2>1, <3>1 DEF Reported
  <2>3. prober'[w] = x /\ \A v \in Probers : v # w => prober'[v] = prober[v]
    BY <1>1, <1>2, <1>3, OneMoved DEF Works
  <2>4. ASSUME NEW S, "sending" \in S, "idle" \notin S
        PROVE  ProbersAt(S)' \cup {h} = ProbersAt(S)
    <3>1. /\ ProbersAt(S) = Others(w, S) \cup (IF prober[w].at \in S THEN {prober[w].host} ELSE {})
          /\ ProbersAt(S)' = Others(w, S) \cup (IF x.at \in S THEN {x.host} ELSE {})
      BY <1>1, <1>3, PlacesStep DEF Works
    <3> QED
      BY <1>1, <1>2, <2>4, <3>1
  <2>5. /\ Reported' \cup ProbersAt(Busy)' = Reported \cup ProbersAt(Busy)
        /\ Reported' \cup ProbersAt({"sending"})' = Reported \cup ProbersAt({"sending"})
        /\ Reported' \cup ProbersAt({"counting", "sending"})' = Reported \cup ProbersAt({"counting", "sending"})
    <3>1. ProbersAt(Busy)' \cup {h} = ProbersAt(Busy)
      BY <2>4 DEF Busy
    <3>2. ProbersAt({"sending"})' \cup {h} = ProbersAt({"sending"})
      BY <2>4
    <3>3. ProbersAt({"counting", "sending"})' \cup {h} = ProbersAt({"counting", "sending"})
      BY <2>4
    <3> QED
      BY <2>2, <3>1, <3>2, <3>3
  <2>6. TakenHosts' = Passed' /\ Totals'
    BY <1>4, <2>5 DEF Exact, TakenHosts, Totals, Counted, Probed, Passed, ScanHosts, Alive, SendResult
  <2>7. Distinct'
    BY <1>1, <1>2, <1>4, <2>2, <2>3 DEF Exact, Distinct, Busy
  <2>8. Truthful'
    <3>1. h \in ScanHosts /\ prober[w].online = (h \in Alive)
      BY <1>1, <1>4 DEF Exact, Truthful
    <3>2. r.host \in ScanHosts /\ r = Answers[r.host]
      BY <3>1 DEF Answers
    <3>3. ScanHosts' = ScanHosts /\ Alive' = Alive /\ Answers' = Answers
      BY DEF SendResult, ScanHosts, Alive, Answers
    <3> HIDE DEF r
    <3> QED
      BY <1>2, <1>4, <2>1, <2>3, <3>2, <3>3 DEF Exact, Truthful
  <2>9. ~AllDone'
    BY <1>2, <2>3 DEF AllDone
  <2> QED
    BY <2>6, <2>7, <2>8, <2>9 DEF Exact
<1> QED
  <2> HIDE DEF x
  <2> QED
    BY <1>1, <1>2, <1>3, <1>4, WorkerStep

-----------------------------------------------------------------------------
(* The verdict *)

\* When all workers are through and nobody asked for a stop, every host is
\* among the results, and the totals have counted them all.
LEMMA AllReported ==
  ASSUME ScanTyped, Exact, AllDone
  PROVE  /\ results = {[host |-> h, online |-> h \in pings \cup listening] : h \in ScanHosts}
         /\ scanned = addresses.count
         /\ reachable = Cardinality(pings \cup listening)
<1>1. Passed = ScanHosts
  BY DEF Exact, Passed, ScanHosts, HostsOf, ScanTyped
<1>2. ProbersAt(Busy) = {} /\ ProbersAt({"sending"}) = {} /\ ProbersAt({"counting", "sending"}) = {}
  BY DEF AllDone, ProbersAt, Busy
<1>3. Reported = ScanHosts /\ Counted = ScanHosts /\ Probed = ScanHosts
  BY <1>1, <1>2 DEF Exact, TakenHosts, Counted, Probed
<1>4. results = {Answers[h] : h \in ScanHosts}
  BY <1>3 DEF Exact, Truthful, Reported
<1>5. results = {[host |-> h, online |-> h \in pings \cup listening] : h \in ScanHosts}
  BY <1>4 DEF Answers, Alive
<1>6. Probed \cap Alive = pings \cup listening
  BY <1>3 DEF ScanTyped, Alive
<1>7. Cardinality(ScanHosts) = addresses.count
  BY RangeSize DEF ScanTyped, ScanHosts
<1> QED
  BY <1>3, <1>5, <1>6, <1>7 DEF Exact, Totals

LEMMA ReportStep ==
  ASSUME NInv, ReportVerdict
  PROVE  NInv'
<1>1. runScan = "running" /\ AllDone /\ runScan' = "ended" /\ stopScan' = stopScan
  BY DEF ReportVerdict, WorkersJoined
<1>2. ScanTyped' /\ AllDone'
  BY <1>1 DEF NInv, ScanTyped, ScanHosts, AllDone, ReportVerdict
<1>3. CompleteIsComplete'
  <2> SUFFICES ASSUME verdict' = "complete", scanLink' = "open" PROVE CompleteIsComplete'
    BY DEF CompleteIsComplete
  <2>1. Undisturbed /\ Exact /\ ScanTyped
    BY <1>1 DEF NInv, ReportVerdict, Undisturbed
  <2> QED
    BY <1>1, <2>1, AllReported DEF CompleteIsComplete, ReportVerdict, ScanHosts
<1> QED
  BY <1>1, <1>2, <1>3 DEF NInv

\* Every step keeps the books of the scan right.
LEMMA NetworkKeeps == NInv /\ [NetworkNext]_scanNetVars => NInv'
<1> SUFFICES ASSUME NInv, [NetworkNext]_scanNetVars PROVE NInv'
  OBVIOUS
<1>1. CASE UNCHANGED scanNetVars
  BY <1>1, HandlerStep DEF scanNetVars, threadVars, Undisturbed
<1>2. CASE \E address \in Addresses, prefix \in 0 .. Width :
             StartScan(address, prefix) \/ ReplacementStarts(address, prefix)
  BY <1>2, LaunchStep DEF StartScan, ReplacementStarts
<1>3. CASE ReplaceScan
  BY <1>3, HandlerStep DEF ReplaceScan, Undisturbed
<1>4. CASE CancelScan
  BY <1>4, HandlerStep DEF CancelScan, Undisturbed
<1>5. CASE LoseScanner
  BY <1>5, HandlerStep DEF LoseScanner, Undisturbed
<1>6. CASE CloseScanner
  BY <1>6, HandlerStep DEF CloseScanner, Undisturbed
<1>7. CASE ScannerGone
  BY <1>7, HandlerStep DEF ScannerGone, Undisturbed
<1>8. CASE \E w \in Probers : FetchAddress(w) \/ SeeStopScan(w) \/ Probe(w) \/ CountHost(w)
                              \/ SendResult(w)
  BY <1>8, FetchStep, SeeStopStep, ProbeStep, CountStep, SendStep
<1>9. CASE ReportVerdict
  BY <1>9, ReportStep
<1> QED
  BY <1>1, <1>2, <1>3, <1>4, <1>5, <1>6, <1>7, <1>8, <1>9 DEF NetworkNext

\* A browser that is told that its scan is complete has a true result for
\* each address of the network, and true totals, however many workers shared
\* the cursor and whatever was cancelled, replaced or closed before.
THEOREM ScanPromise == NetworkSpec => []CompleteIsComplete
<1>1. NInv => CompleteIsComplete
  BY DEF NInv
<1> QED
  BY <1>1, NetworkStarts, NetworkKeeps, PTL DEF NetworkSpec

-----------------------------------------------------------------------------
(* The types of the network scan: the hosts counted and those in the hands  *)
(* of a worker are no more than the addresses that were handed out, and     *)
(* each worker passes the last address at most once.                        *)

ProbersIn(S) == {w \in Probers : prober[w].at \in S}
Hands(S) == Cardinality(ProbersIn(S))

NetworkPlaces ==
  /\ scanLink \in {"open", "closing", "gone"}
  /\ waitsFor \in {"nothing", "next", "end"}
  /\ runScan \in {"none", "running", "ended"} /\ stopScan \in BOOLEAN
  /\ verdict \in {"none", "complete", "cancelled"}
  /\ HostsOf(addresses) \subseteq Addresses

TotalsBounded ==
  /\ cursor <= addresses.count + Hands({"done"})
  /\ scanned + Hands({"probing", "counting"}) <= cursor
  /\ scanned + Hands({"probing", "counting"}) <= addresses.count
  /\ reachable + Hands({"probing"}) <= cursor
  /\ reachable + Hands({"probing"}) <= addresses.count

NetworkBounded == NetworkPlaces /\ TotalsBounded

\* The workers at some places are so many.
LEMMA HandsTyped ==
  ASSUME NEW S
  PROVE  /\ IsFiniteSet(ProbersIn(S)) /\ Hands(S) \in Nat /\ Hands(S) <= Cardinality(Probers)
         /\ Cardinality(Probers) \in Nat
<1>1. ProbersIn(S) \subseteq Probers
  BY DEF ProbersIn
<1> QED
  BY <1>1, ProbersAssumption, FS_Subset, FS_CardinalityType DEF Hands

\* A worker that moves leaves the others where they are.
LEMMA HandsStep ==
  ASSUME ScanTyped, NEW w \in Probers, NEW x \in WorkerRecord, Moves(w, x), NEW S
  PROVE  Hands(S)' = Hands(S) + ((IF x.at \in S THEN 1 ELSE 0) - (IF prober[w].at \in S THEN 1 ELSE 0))
<1>1. prober'[w] = x /\ \A v \in Probers : v # w => prober'[v] = prober[v]
  BY OneMoved
<1>2. IsFiniteSet(ProbersIn(S)) /\ IsFiniteSet(ProbersIn(S)') /\ Hands(S) \in Nat /\ Hands(S)' \in Nat
  <2>1. ProbersIn(S)' \subseteq Probers
    BY DEF ProbersIn
  <2> QED
    BY <2>1, HandsTyped, ProbersAssumption, FS_Subset, FS_CardinalityType DEF Hands
<1>3. CASE x.at \in S /\ prober[w].at \in S
  <2>1. ProbersIn(S)' = ProbersIn(S)
    BY <1>1, <1>3 DEF ProbersIn
  <2> QED
    BY <1>2, <1>3, <2>1 DEF Hands
<1>4. CASE x.at \notin S /\ prober[w].at \notin S
  <2>1. ProbersIn(S)' = ProbersIn(S)
    BY <1>1, <1>4 DEF ProbersIn
  <2> QED
    BY <1>2, <1>4, <2>1 DEF Hands
<1>5. CASE x.at \in S /\ prober[w].at \notin S
  <2>1. ProbersIn(S)' = ProbersIn(S) \cup {w} /\ w \notin ProbersIn(S)
    BY <1>1, <1>5 DEF ProbersIn
  <2>2. Hands(S)' = Hands(S) + 1
    BY <1>2, <2>1, FS_AddElement DEF Hands
  <2> QED
    BY <1>2, <1>5, <2>2
<1>6. CASE x.at \notin S /\ prober[w].at \in S
  <2>1. ProbersIn(S) = ProbersIn(S)' \cup {w} /\ w \notin ProbersIn(S)'
    BY <1>1, <1>6 DEF ProbersIn
  <2>2. Hands(S) = Hands(S)' + 1
    BY <1>2, <2>1, FS_AddElement DEF Hands
  <2> QED
    BY <1>2, <1>6, <2>2
<1> QED
  BY <1>3, <1>4, <1>5, <1>6

\* The addresses of a network are addresses.
LEMMA RangeWithin ==
  ASSUME NEW address \in Addresses, NEW prefix \in 0 .. Width, Accepted(prefix)
  PROVE  HostsOf(ExpandCidr(address, prefix)) \subseteq Addresses
<1> DEFINE b == Block(prefix)
           m == Masked(address, prefix)
           q == address \div b
           k == 2 ^ prefix
           top == 2 ^ Width
<1>1. b \in Nat \ {0} /\ k \in Nat /\ top = k * b
  BY PowersAssumption
<1>2. top \in Nat /\ address \in Nat /\ address < top
  <2>1. k * b \in Nat
    <3> HIDE DEF k, b
    <3> QED
      BY <1>1
  <2> QED
    BY <1>1, <2>1 DEF Addresses
<1>3. q \in Nat /\ m = q * b /\ m <= address
  <2>1. m = address - (address % b)
    BY DEF Masked
  <2> HIDE DEF m, b
  <2>2. address = b * q + (address % b) /\ q \in Nat /\ address % b \in 0 .. b - 1
    BY <1>1, <1>2
  <2> HIDE DEF q
  <2> QED
    BY <1>1, <1>2, <2>1, <2>2
<1>4. m + b <= top
  <2> HIDE DEF m, b, q, k, top
  <2>1. q < k
    <3> SUFFICES ASSUME k <= q PROVE FALSE
      BY <1>1, <1>3
    <3>1. k * b <= q * b
      BY <1>1, <1>3
    <3> QED
      BY <1>1, <1>2, <1>3, <3>1
  <2>2. (q + 1) * b <= k * b
    <3>1. q + 1 <= k /\ q + 1 \in Nat
      BY <1>1, <1>3, <2>1
    <3> QED
      BY <1>1, <3>1
  <2>3. (q + 1) * b = q * b + b
    BY <1>1, <1>3
  <2> QED
    BY <1>1, <1>3, <2>2, <2>3
<1>5. m \in Nat
  <2> HIDE DEF m, b, q
  <2> QED
    BY <1>1, <1>3
<1>6. HostsOf(ExpandCidr(address, prefix)) \subseteq m .. m + b - 1
  <2> DEFINE f == ExpandCidr(address, prefix).first
             c == ExpandCidr(address, prefix).count
  <2>1. \/ f = m + 1 /\ c = b - 2
        \/ f = m + 0 /\ c = b
    BY DEF ExpandCidr, UsableCount
  <2>2. HostsOf(ExpandCidr(address, prefix)) = f .. f + c - 1
    BY DEF HostsOf
  <2> HIDE DEF f, c, m, b
  <2> QED
    BY <1>1, <1>5, <2>1, <2>2
<1>7. Addresses = 0 .. top - 1
  BY DEF Addresses
<1> HIDE DEF m, b, q, k, top
<1> QED
  BY <1>1, <1>2, <1>4, <1>5, <1>6, <1>7

\* A new scan has handed out nothing.
LEMMA LaunchBounded ==
  ASSUME NetworkPlaces, NEW address \in Addresses, NEW prefix \in 0 .. Width, Launch(address, prefix)
  PROVE  NetworkBounded'
<1>1. /\ stopScan' = FALSE /\ waitsFor' = "nothing" /\ scanLink' = scanLink /\ verdict' = "none"
      /\ runScan' \in {"none", "running"}
      /\ cursor' = 0 /\ scanned' = 0 /\ reachable' = 0
  BY DEF Launch
<1>2. /\ HostsOf(addresses') \subseteq Addresses
      /\ addresses' \in [first : Int, count : Nat]
      /\ \A w \in Probers : prober'[w].at \in {"idle", "done"}
  <2>1. CASE Accepted(prefix)
    <3>1. addresses' = ExpandCidr(address, prefix) /\ StartWorkers(addresses'.count)
      BY <2>1 DEF Launch
    <3>2. \A w \in Probers : prober'[w].at \in {"idle", "done"}
      BY <3>1 DEF StartWorkers, Resting
    <3>3. addresses' \in [first : Int, count : Nat]
      BY <2>1, <3>1, RangeTyped
    <3> QED
      BY <2>1, <3>1, <3>2, <3>3, RangeWithin
  <2>2. CASE ~Accepted(prefix)
    <3>1. addresses' = NoRange /\ prober' = [w \in Probers |-> Resting]
      BY <2>2 DEF Launch
    <3>2. HostsOf(NoRange) = {}
      BY DEF HostsOf, NoRange
    <3> QED
      BY <3>1, <3>2 DEF NoRange, Resting
  <2> QED
    BY <2>1, <2>2
<1>3. ProbersIn({"probing"})' = {} /\ ProbersIn({"probing", "counting"})' = {}
  BY <1>2 DEF ProbersIn
<1>4. Hands({"probing"})' = 0 /\ Hands({"probing", "counting"})' = 0
  BY <1>3, FS_EmptySet DEF Hands
<1>5. Hands({"done"})' \in Nat
  <2>1. ProbersIn({"done"})' \subseteq Probers
    BY DEF ProbersIn
  <2> QED
    BY <2>1, ProbersAssumption, FS_Subset, FS_CardinalityType DEF Hands
<1>6. NetworkPlaces'
  BY <1>1, <1>2 DEF NetworkPlaces
<1>7. TotalsBounded'
  BY <1>1, <1>2, <1>4, <1>5 DEF TotalsBounded
<1> QED
  BY <1>6, <1>7 DEF NetworkBounded

\* Every step of a worker hands out, or passes on, what the totals allow.
LEMMA WorkersBounded ==
  ASSUME ScanTyped, NetworkBounded, NEW w \in Probers,
         FetchAddress(w) \/ SeeStopScan(w) \/ Probe(w) \/ CountHost(w) \/ SendResult(w)
  PROVE  NetworkBounded'
<1> DEFINE D == Hands({"done"})
           P == Hands({"probing"})
           C == Hands({"probing", "counting"})
           n == addresses.count
<1>1. /\ addresses' = addresses /\ scanLink' = scanLink /\ waitsFor' = waitsFor
      /\ runScan' = runScan /\ stopScan' = stopScan /\ verdict' = verdict
  BY DEF FetchAddress, SeeStopScan, Probe, CountHost, SendResult
<1>2. NetworkPlaces'
  BY <1>1 DEF NetworkBounded, NetworkPlaces
<1>3. /\ n \in Nat /\ cursor \in Nat /\ scanned \in Nat /\ reachable \in Nat
      /\ prober[w] \in WorkerRecord /\ addresses \in [first : Int, count : Nat]
  BY DEF ScanTyped
<1>4. D \in Nat /\ P \in Nat /\ C \in Nat
  BY HandsTyped
<1>5. /\ cursor <= n + D /\ scanned + C <= cursor /\ scanned + C <= n
      /\ reachable + P <= cursor /\ reachable + P <= n
  BY DEF NetworkBounded, TotalsBounded
<1>6. SUFFICES /\ cursor' <= n + D' /\ scanned' + C' <= cursor' /\ scanned' + C' <= n
               /\ reachable' + P' <= cursor' /\ reachable' + P' <= n
  BY <1>1, <1>2 DEF NetworkBounded, TotalsBounded
<1>7. ASSUME NEW x \in WorkerRecord, Moves(w, x)
      PROVE  /\ D' = D + ((IF x.at = "done" THEN 1 ELSE 0) - (IF prober[w].at = "done" THEN 1 ELSE 0))
             /\ P' = P + ((IF x.at = "probing" THEN 1 ELSE 0) - (IF prober[w].at = "probing" THEN 1 ELSE 0))
             /\ C' = C + ((IF x.at \in {"probing", "counting"} THEN 1 ELSE 0)
                          - (IF prober[w].at \in {"probing", "counting"} THEN 1 ELSE 0))
  <2>1. ASSUME NEW S
        PROVE  Hands(S)' = Hands(S) + ((IF x.at \in S THEN 1 ELSE 0) - (IF prober[w].at \in S THEN 1 ELSE 0))
    BY <1>7, HandsStep
  <2>2. \A s \in {x.at, prober[w].at} : (s \in {"done"} <=> s = "done") /\ (s \in {"probing"} <=> s = "probing")
    OBVIOUS
  <2>3. D' = D + ((IF x.at \in {"done"} THEN 1 ELSE 0) - (IF prober[w].at \in {"done"} THEN 1 ELSE 0))
    BY <2>1
  <2>4. P' = P + ((IF x.at \in {"probing"} THEN 1 ELSE 0) - (IF prober[w].at \in {"probing"} THEN 1 ELSE 0))
    BY <2>1
  <2>5. C' = C + ((IF x.at \in {"probing", "counting"} THEN 1 ELSE 0)
                  - (IF prober[w].at \in {"probing", "counting"} THEN 1 ELSE 0))
    BY <2>1
  <2> HIDE DEF D, P, C
  <2> QED
    BY <2>2, <2>3, <2>4, <2>5
<1>8. CASE FetchAddress(w)
  <2>1. prober[w].at = "idle" /\ cursor' = cursor + 1 /\ scanned' = scanned /\ reachable' = reachable
    BY <1>8 DEF FetchAddress
  <2>2. CASE cursor >= n
    <3>1. Moves(w, Resting) /\ Resting \in WorkerRecord /\ Resting.at = "done"
      BY <1>8, <2>2 DEF FetchAddress, Resting, WorkerRecord, Places
    <3>2. D' = D + 1 /\ P' = P /\ C' = C
      <4>1. /\ D' = D + ((IF Resting.at = "done" THEN 1 ELSE 0) - (IF prober[w].at = "done" THEN 1 ELSE 0))
            /\ P' = P + ((IF Resting.at = "probing" THEN 1 ELSE 0) - (IF prober[w].at = "probing" THEN 1 ELSE 0))
            /\ C' = C + ((IF Resting.at \in {"probing", "counting"} THEN 1 ELSE 0)
                          - (IF prober[w].at \in {"probing", "counting"} THEN 1 ELSE 0))
        BY <1>7, <3>1
      <4> HIDE DEF D, P, C
      <4> QED
        BY <1>4, <2>1, <3>1, <4>1
    <3> HIDE DEF D, P, C, n
    <3> QED
      BY <1>3, <1>4, <1>5, <2>1, <3>2
  <2>3. CASE ~(cursor >= n)
    <3> DEFINE x == [Resting EXCEPT !.at = "probing", !.host = addresses.first + cursor]
    <3>1. Moves(w, x) /\ x \in WorkerRecord /\ x.at = "probing"
      <4>1. Moves(w, x)
        BY <1>8, <2>3 DEF FetchAddress
      <4>2. Resting \in WorkerRecord /\ "probing" \in Places /\ addresses.first + cursor \in Int
        BY <1>3 DEF Resting, WorkerRecord, Places
      <4>3. x \in WorkerRecord /\ x.at = "probing"
        <5> HIDE DEF Resting
        <5> QED
          BY <4>2 DEF WorkerRecord
      <4> QED
        BY <4>1, <4>3
    <3> HIDE DEF x
    <3>2. D' = D /\ P' = P + 1 /\ C' = C + 1
      <4>1. /\ D' = D + ((IF x.at = "done" THEN 1 ELSE 0) - (IF prober[w].at = "done" THEN 1 ELSE 0))
            /\ P' = P + ((IF x.at = "probing" THEN 1 ELSE 0) - (IF prober[w].at = "probing" THEN 1 ELSE 0))
            /\ C' = C + ((IF x.at \in {"probing", "counting"} THEN 1 ELSE 0)
                          - (IF prober[w].at \in {"probing", "counting"} THEN 1 ELSE 0))
        BY <1>7, <3>1
      <4> HIDE DEF D, P, C
      <4> QED
        BY <1>4, <2>1, <3>1, <4>1
    <3> HIDE DEF D, P, C, n
    <3> QED
      BY <1>3, <1>4, <1>5, <2>1, <2>3, <3>2
  <2> QED
    BY <2>2, <2>3
<1>9. CASE SeeStopScan(w)
  <2>1. prober[w].at = "idle" /\ cursor' = cursor /\ scanned' = scanned /\ reachable' = reachable
    BY <1>9 DEF SeeStopScan
  <2>2. Moves(w, Resting) /\ Resting \in WorkerRecord /\ Resting.at = "done"
    BY <1>9 DEF SeeStopScan, Resting, WorkerRecord, Places
  <2>3. D' = D + 1 /\ P' = P /\ C' = C
    <3>1. /\ D' = D + ((IF Resting.at = "done" THEN 1 ELSE 0) - (IF prober[w].at = "done" THEN 1 ELSE 0))
          /\ P' = P + ((IF Resting.at = "probing" THEN 1 ELSE 0) - (IF prober[w].at = "probing" THEN 1 ELSE 0))
          /\ C' = C + ((IF Resting.at \in {"probing", "counting"} THEN 1 ELSE 0)
                        - (IF prober[w].at \in {"probing", "counting"} THEN 1 ELSE 0))
      BY <1>7, <2>2
    <3> HIDE DEF D, P, C
    <3> QED
      BY <1>4, <2>1, <2>2, <3>1
  <2> HIDE DEF D, P, C, n
  <2> QED
    BY <1>3, <1>4, <1>5, <2>1, <2>3
<1>10. CASE Probe(w)
  <2>1. /\ prober[w].at = "probing" /\ cursor' = cursor /\ scanned' = scanned
        /\ reachable' = reachable \/ reachable' = reachable + 1
    <3>1. PICK ping \in Ping(prober[w].host), open \in ProbePort(prober[w].host) :
            reachable' = reachable + (IF ping \/ open THEN 1 ELSE 0)
      BY <1>10 DEF Probe
    <3>2. reachable' = reachable \/ reachable' = reachable + 1
      <4>1. CASE ping \/ open
        BY <3>1, <4>1
      <4>2. CASE ~(ping \/ open)
        BY <1>3, <3>1, <4>2
      <4> QED
        BY <4>1, <4>2
    <3> QED
      BY <1>10, <3>2 DEF Probe
  <2>2. PICK x \in WorkerRecord : Moves(w, x) /\ x.at = "counting"
    <3>1. PICK ping \in Ping(prober[w].host), open \in ProbePort(prober[w].host) :
            Moves(w, [prober[w] EXCEPT !.at = "counting", !.online = ping \/ open])
      BY <1>10 DEF Probe
    <3>2. (ping \/ open) \in BOOLEAN
      BY Zenon
    <3>3. /\ [prober[w] EXCEPT !.at = "counting", !.online = ping \/ open] \in WorkerRecord
          /\ [prober[w] EXCEPT !.at = "counting", !.online = ping \/ open].at = "counting"
      BY <1>3, <3>2 DEF WorkerRecord, Places
    <3> QED
      BY <3>1, <3>3
  <2>3. D' = D /\ P' = P - 1 /\ C' = C
    <3>1. /\ D' = D + ((IF x.at = "done" THEN 1 ELSE 0) - (IF prober[w].at = "done" THEN 1 ELSE 0))
          /\ P' = P + ((IF x.at = "probing" THEN 1 ELSE 0) - (IF prober[w].at = "probing" THEN 1 ELSE 0))
          /\ C' = C + ((IF x.at \in {"probing", "counting"} THEN 1 ELSE 0)
                        - (IF prober[w].at \in {"probing", "counting"} THEN 1 ELSE 0))
      BY <1>7, <2>2
    <3> HIDE DEF D, P, C
    <3> QED
      BY <1>4, <2>1, <2>2, <3>1
  <2> HIDE DEF D, P, C, n
  <2> QED
    BY <1>3, <1>4, <1>5, <2>1, <2>3
<1>11. CASE CountHost(w)
  <2>1. /\ prober[w].at = "counting" /\ cursor' = cursor /\ scanned' = scanned + 1
        /\ reachable' = reachable
    BY <1>11 DEF CountHost
  <2> DEFINE x == [prober[w] EXCEPT !.at = "sending"]
  <2>2. Moves(w, x) /\ x \in WorkerRecord /\ x.at = "sending"
    BY <1>3, <1>11 DEF CountHost, WorkerRecord, Places
  <2> HIDE DEF x
  <2>3. D' = D /\ P' = P /\ C' = C - 1
    <3>1. /\ D' = D + ((IF x.at = "done" THEN 1 ELSE 0) - (IF prober[w].at = "done" THEN 1 ELSE 0))
          /\ P' = P + ((IF x.at = "probing" THEN 1 ELSE 0) - (IF prober[w].at = "probing" THEN 1 ELSE 0))
          /\ C' = C + ((IF x.at \in {"probing", "counting"} THEN 1 ELSE 0)
                        - (IF prober[w].at \in {"probing", "counting"} THEN 1 ELSE 0))
      BY <1>7, <2>2
    <3> HIDE DEF D, P, C
    <3> QED
      BY <1>4, <2>1, <2>2, <3>1
  <2> HIDE DEF D, P, C, n
  <2> QED
    BY <1>3, <1>4, <1>5, <2>1, <2>3
<1>12. CASE SendResult(w)
  <2>1. /\ prober[w].at = "sending" /\ cursor' = cursor /\ scanned' = scanned /\ reachable' = reachable
    BY <1>12 DEF SendResult
  <2> DEFINE x == [Resting EXCEPT !.at = "idle"]
  <2>2. Moves(w, x) /\ x \in WorkerRecord /\ x.at = "idle"
    <3>1. Resting \in WorkerRecord /\ "idle" \in Places
      BY DEF Resting, WorkerRecord, Places
    <3>2. x \in WorkerRecord /\ x.at = "idle"
      BY <3>1 DEF WorkerRecord
    <3> QED
      BY <1>12, <3>2 DEF SendResult
  <2> HIDE DEF x
  <2>3. D' = D /\ P' = P /\ C' = C
    <3>1. /\ D' = D + ((IF x.at = "done" THEN 1 ELSE 0) - (IF prober[w].at = "done" THEN 1 ELSE 0))
          /\ P' = P + ((IF x.at = "probing" THEN 1 ELSE 0) - (IF prober[w].at = "probing" THEN 1 ELSE 0))
          /\ C' = C + ((IF x.at \in {"probing", "counting"} THEN 1 ELSE 0)
                        - (IF prober[w].at \in {"probing", "counting"} THEN 1 ELSE 0))
      BY <1>7, <2>2
    <3> HIDE DEF D, P, C
    <3> QED
      BY <1>4, <2>1, <2>2, <3>1
  <2> HIDE DEF D, P, C, n
  <2> QED
    BY <1>3, <1>4, <1>5, <2>1, <2>3
<1> QED
  BY <1>8, <1>9, <1>10, <1>11, <1>12

\* Each step keeps the totals within the network.
LEMMA NetworkBoundedKept ==
  ASSUME ScanTyped, NetworkBounded, [NetworkNext]_scanNetVars
  PROVE  NetworkBounded'
<1>1. ASSUME NetworkPlaces', UNCHANGED <<addresses, cursor, prober, scanned, reachable>>
      PROVE  NetworkBounded'
  BY <1>1 DEF NetworkBounded, TotalsBounded, Hands, ProbersIn
<1>2. CASE \E address \in Addresses, prefix \in 0 .. Width :
             StartScan(address, prefix) \/ ReplacementStarts(address, prefix)
  BY <1>2, LaunchBounded DEF StartScan, ReplacementStarts, NetworkBounded
<1>3. CASE \/ ReplaceScan \/ CancelScan \/ LoseScanner \/ CloseScanner \/ ScannerGone \/ ReportVerdict
           \/ UNCHANGED scanNetVars
  <2>1. UNCHANGED <<addresses, cursor, prober, scanned, reachable>>
    BY <1>3 DEF ReplaceScan, CancelScan, LoseScanner, CloseScanner, ScannerGone, ReportVerdict,
                scanNetVars, threadVars
  <2>2. NetworkPlaces'
    BY <1>3 DEF NetworkBounded, NetworkPlaces, ReplaceScan, CancelScan, LoseScanner, CloseScanner,
                ScannerGone, ReportVerdict, scanNetVars, threadVars
  <2> QED
    BY <1>1, <2>1, <2>2
<1>4. CASE \E w \in Probers : FetchAddress(w) \/ SeeStopScan(w) \/ Probe(w) \/ CountHost(w)
                              \/ SendResult(w)
  BY <1>4, WorkersBounded
<1> QED
  BY <1>2, <1>3, <1>4 DEF NetworkNext

\* The types of the network scan.
LEMMA NetworkTypes == NetworkSpec => []NetworkTypeOK
<1>1. NetworkInit => NetworkBounded
  <2> SUFFICES ASSUME NetworkInit PROVE NetworkBounded
    OBVIOUS
  <2>1. HostsOf(NoRange) = {}
    BY DEF HostsOf, NoRange
  <2>2. ProbersIn({"probing"}) = {} /\ ProbersIn({"probing", "counting"}) = {}
    BY DEF NetworkInit, ProbersIn, Resting
  <2>3. Hands({"probing"}) = 0 /\ Hands({"probing", "counting"}) = 0 /\ Hands({"done"}) \in Nat
    BY <2>2, FS_EmptySet, HandsTyped DEF Hands
  <2>4. NetworkPlaces
    BY <2>1 DEF NetworkInit, NetworkPlaces
  <2>5. TotalsBounded
    BY <2>3 DEF NetworkInit, TotalsBounded, NoRange
  <2> QED
    BY <2>4, <2>5 DEF NetworkBounded
<1>2. NInv /\ NetworkBounded /\ [NetworkNext]_scanNetVars => NetworkBounded'
  BY NetworkBoundedKept DEF NInv
<1>3. NInv /\ NetworkBounded => NetworkTypeOK
  <2> SUFFICES ASSUME ScanTyped, NetworkBounded PROVE NetworkTypeOK
    BY DEF NInv
  <2>1. /\ addresses.count \in Nat /\ cursor \in Nat /\ scanned \in Nat /\ reachable \in Nat
        /\ {pings, listening} \subseteq SUBSET HostsOf(addresses)
    BY DEF ScanTyped, ScanHosts
  <2>2. /\ Hands({"done"}) \in Nat /\ Hands({"done"}) <= Cardinality(Probers)
        /\ Hands({"probing"}) \in Nat /\ Hands({"probing", "counting"}) \in Nat
        /\ Cardinality(Probers) \in Nat
    BY HandsTyped
  <2>3. /\ cursor \in 0 .. addresses.count + Cardinality(Probers)
        /\ {scanned, reachable} \subseteq 0 .. addresses.count
    BY <2>1, <2>2 DEF NetworkBounded, TotalsBounded
  <2> QED
    BY <2>1, <2>3 DEF NetworkTypeOK, NetworkBounded, NetworkPlaces
<1> QED
  BY <1>1, <1>2, <1>3, NetworkStarts, NetworkKeeps, PTL DEF NetworkSpec

-----------------------------------------------------------------------------
(* The search for a block.                                                 *)
(*                                                                         *)
(* The rolling checksum is the one of the window from scratch: what the    *)
(* two loops add up differs by multiples of the modulus at every byte.     *)

Multiple(x) == \E q \in Int : x = q * WeakModulus
Halves == 0 .. WeakModulus - 1

LEMMA MultiplesAdd ==
  ASSUME NEW x \in Int, NEW y \in Int, Multiple(x), Multiple(y)
  PROVE  Multiple(x + y) /\ Multiple(x - y)
<1>1. PICK q \in Int : x = q * WeakModulus
  BY DEF Multiple
<1>2. PICK r \in Int : y = r * WeakModulus
  BY DEF Multiple
<1>3. WeakModulus \in Int
  BY ScanAssumption
<1>4. x + y = (q + r) * WeakModulus /\ x - y = (q - r) * WeakModulus
  BY <1>1, <1>2, <1>3
<1>5. q + r \in Int /\ q - r \in Int
  OBVIOUS
<1> QED
  BY <1>4, <1>5 DEF Multiple

LEMMA Remainder ==
  ASSUME NEW x \in Int
  PROVE  Wrap(x) \in Halves /\ Wrap(x) \in Int /\ Multiple(x - Wrap(x))
<1>1. WeakModulus \in Nat \ {0}
  BY ScanAssumption
<1>2. Wrap(x) \in 0 .. WeakModulus - 1
  BY <1>1 DEF Wrap
<1>3. x = Wrap(x) + (x \div WeakModulus) * WeakModulus /\ x \div WeakModulus \in Int
  BY <1>1 DEF Wrap
<1>4. \E q \in Int : x = Wrap(x) + q * WeakModulus
  BY <1>3, Zenon
<1>5. PICK q \in Int : x = Wrap(x) + q * WeakModulus
  BY <1>4
<1>6. x - Wrap(x) = q * WeakModulus
  BY <1>1, <1>2, <1>5
<1>7. Multiple(x - Wrap(x))
  BY <1>6 DEF Multiple
<1> QED
  BY <1>1, <1>2, <1>7 DEF Halves

LEMMA SameRemainder ==
  ASSUME NEW x \in Halves, NEW y \in Halves, Multiple(x - y)
  PROVE  x = y
<1>1. WeakModulus \in Nat \ {0}
  BY ScanAssumption
<1>2. PICK q \in Int : x - y = q * WeakModulus
  BY DEF Multiple
<1>3. q * WeakModulus < WeakModulus /\ q * WeakModulus > 0 - WeakModulus
  BY <1>1, <1>2 DEF Halves
<1>4. q = 0
  BY <1>1, <1>3
<1> QED
  BY <1>1, <1>2, <1>4 DEF Halves

\* What the function that WeakChecksum adds up has to be.
Sums(g, w, n) ==
  /\ g \in [0 .. n -> [a : Halves, b : Halves]]
  /\ g[0] = [a |-> 0, b |-> 0]
  /\ \A k \in 1 .. n :
       g[k] = [a |-> Wrap(g[k - 1].a + w[k]),
               b |-> Wrap(g[k - 1].b + (BlockLength - k + 1) * w[k])]

LEMMA BlockFacts ==
  /\ BlockLength \in Nat \ {0} /\ MaxByte \in Nat /\ WeakModulus \in Nat \ {0}
  /\ \A w \in Blocks : /\ w \in Seq(Bytes) /\ Len(w) = BlockLength
                       /\ \A k \in 1 .. BlockLength : w[k] \in Bytes /\ w[k] \in Int
<1>1. BlockLength \in Nat \ {0} /\ MaxByte \in Nat /\ WeakModulus \in Nat \ {0}
  BY ScanAssumption
<1>2. ASSUME NEW w \in Blocks
      PROVE  /\ w \in Seq(Bytes) /\ Len(w) = BlockLength
             /\ \A k \in 1 .. BlockLength : w[k] \in Bytes /\ w[k] \in Int
  BY <1>1 DEF Blocks, Bytes
<1> QED
  BY <1>1, <1>2

LEMMA NextSums ==
  ASSUME NEW w \in Blocks, NEW k \in 1 .. BlockLength, NEW s \in [a : Halves, b : Halves]
  PROVE  /\ s.a + w[k] \in Int /\ s.b + (BlockLength - k + 1) * w[k] \in Int
         /\ [a |-> Wrap(s.a + w[k]),
             b |-> Wrap(s.b + (BlockLength - k + 1) * w[k])] \in [a : Halves, b : Halves]
<1>1. s.a \in Int /\ s.b \in Int
  BY BlockFacts DEF Halves
<1>2. w[k] \in Int /\ BlockLength - k + 1 \in Int
  BY BlockFacts
<1>3. (BlockLength - k + 1) * w[k] \in Int
  BY <1>2
<1>4. s.a + w[k] \in Int /\ s.b + (BlockLength - k + 1) * w[k] \in Int
  BY <1>1, <1>2, <1>3
<1>5. Wrap(s.a + w[k]) \in Halves /\ Wrap(s.b + (BlockLength - k + 1) * w[k]) \in Halves
  BY <1>4, Remainder
<1> QED
  BY <1>4, <1>5

LEMMA WeakSumsExist ==
  ASSUME NEW w \in Blocks
  PROVE  \E g : Sums(g, w, BlockLength)
<1> DEFINE S == {n \in Nat : n <= BlockLength => \E g : Sums(g, w, n)}
<1>0. BlockLength \in Nat
  BY BlockFacts
<1>1. 0 \in S
  <2>1. 0 \in Halves
    BY BlockFacts DEF Halves
  <2>2. Sums([k \in 0 .. 0 |-> [a |-> 0, b |-> 0]], w, 0)
    BY <2>1 DEF Sums
  <2> QED
    BY <2>2
<1>2. ASSUME NEW n \in Nat, n \in S PROVE n + 1 \in S
  <2> SUFFICES ASSUME n + 1 <= BlockLength PROVE \E g : Sums(g, w, n + 1)
    OBVIOUS
  <2>1. PICK g : Sums(g, w, n)
    BY <1>0, <1>2
  <2> DEFINE x == [a |-> Wrap(g[n].a + w[n + 1]),
                   b |-> Wrap(g[n].b + (BlockLength - (n + 1) + 1) * w[n + 1])]
             h == [k \in 0 .. n + 1 |-> IF k = n + 1 THEN x ELSE g[k]]
  <2>2. /\ n + 1 \in 1 .. BlockLength /\ n \in 0 .. n
        /\ \A k \in 0 .. n : g[k] \in [a : Halves, b : Halves]
    BY <1>0, <2>1 DEF Sums
  <2>3. x \in [a : Halves, b : Halves]
    BY <2>2, NextSums
  <2> HIDE DEF x
  <2>4. h \in [0 .. n + 1 -> [a : Halves, b : Halves]]
    BY <2>2, <2>3
  <2>5. h[n + 1] = x /\ \A k \in 0 .. n : h[k] = g[k]
    OBVIOUS
  <2> HIDE DEF h
  <2>6. h[0] = [a |-> 0, b |-> 0]
    BY <2>1, <2>5 DEF Sums
  <2>7. ASSUME NEW k \in 1 .. n + 1
        PROVE  h[k] = [a |-> Wrap(h[k - 1].a + w[k]),
                       b |-> Wrap(h[k - 1].b + (BlockLength - k + 1) * w[k])]
    <3>1. CASE k = n + 1
      <4>1. h[k - 1] = g[n]
        BY <2>2, <2>5, <3>1
      <4> QED
        BY <2>5, <3>1, <4>1 DEF x
    <3>2. CASE k # n + 1
      <4>1. k \in 1 .. n /\ k \in 0 .. n /\ k - 1 \in 0 .. n
        BY <3>2
      <4> QED
        BY <2>1, <2>5, <4>1 DEF Sums
    <3> QED
      BY <3>1, <3>2
  <2>8. Sums(h, w, n + 1)
    BY <2>4, <2>6, <2>7 DEF Sums
  <2> QED
    BY <2>8
<1>3. Nat \subseteq S
  <2> HIDE DEF S
  <2> QED
    BY <1>1, <1>2, SetInduction
<1> QED
  BY <1>0, <1>3

LEMMA WeakIs ==
  ASSUME NEW w \in Blocks
  PROVE  \E g : Sums(g, w, BlockLength) /\ WeakChecksum(w) = g[BlockLength]
<1> DEFINE n == BlockLength
           Def(f) == f = [i \in 0 .. n |->
                            IF i = 0 THEN [a |-> 0, b |-> 0]
                            ELSE [a |-> Wrap(f[i - 1].a + w[i]),
                                  b |-> Wrap(f[i - 1].b + (n - i + 1) * w[i])]]
           h == CHOOSE f : Def(f)
<1>1. n \in Nat /\ n \in 0 .. n /\ Len(w) = n
  BY BlockFacts
<1>2. \E g : Def(g)
  <2>1. PICK g : Sums(g, w, n)
    BY WeakSumsExist
  <2>2. g = [i \in 0 .. n |-> g[i]]
    BY <2>1 DEF Sums
  <2>3. ASSUME NEW i \in 0 .. n
        PROVE  g[i] = IF i = 0 THEN [a |-> 0, b |-> 0]
                      ELSE [a |-> Wrap(g[i - 1].a + w[i]),
                            b |-> Wrap(g[i - 1].b + (n - i + 1) * w[i])]
    <3>1. CASE i = 0
      BY <2>1, <3>1 DEF Sums
    <3>2. CASE i # 0
      <4>1. i \in 1 .. n
        BY <1>1, <3>2
      <4> QED
        BY <2>1, <3>2, <4>1 DEF Sums
    <3> QED
      BY <3>1, <3>2
  <2>4. Def(g)
    BY <2>2, <2>3
  <2> QED
    BY <2>4
<1>3. Def(h)
  <2> HIDE DEF Def
  <2> QED
    BY <1>2
<1>4. WeakChecksum(w) = h[n]
  BY <1>1 DEF WeakChecksum
<1> HIDE DEF h
<1>5. h[0] = [a |-> 0, b |-> 0]
  BY <1>1, <1>3
<1>6. \A k \in 1 .. n :
        h[k] = [a |-> Wrap(h[k - 1].a + w[k]),
                b |-> Wrap(h[k - 1].b + (n - k + 1) * w[k])]
  <2> SUFFICES ASSUME NEW k \in 1 .. n
               PROVE  h[k] = [a |-> Wrap(h[k - 1].a + w[k]),
                              b |-> Wrap(h[k - 1].b + (n - k + 1) * w[k])]
    OBVIOUS
  <2>1. k \in 0 .. n /\ k # 0
    BY <1>1
  <2> QED
    BY <1>3, <2>1
<1> DEFINE S == {k \in Nat : k <= n => h[k] \in [a : Halves, b : Halves]}
<1>7. Nat \subseteq S
  <2>1. 0 \in S
    BY <1>5, BlockFacts DEF Halves
  <2>2. ASSUME NEW k \in Nat, k \in S PROVE k + 1 \in S
    <3> SUFFICES ASSUME k + 1 <= n PROVE h[k + 1] \in [a : Halves, b : Halves]
      OBVIOUS
    <3>1. k + 1 \in 1 .. n /\ (k + 1) - 1 = k /\ h[k] \in [a : Halves, b : Halves]
      BY <1>1, <2>2
    <3> QED
      BY <1>6, <3>1, NextSums
  <2> HIDE DEF S
  <2> QED
    BY <2>1, <2>2, SetInduction
<1>8. h \in [0 .. n -> [a : Halves, b : Halves]]
  <2>1. \A k \in 0 .. n : h[k] \in [a : Halves, b : Halves]
    BY <1>1, <1>7
  <2>2. h = [k \in 0 .. n |-> h[k]]
    BY <1>3
  <2> QED
    BY <2>1, <2>2
<1>9. Sums(h, w, n)
  BY <1>5, <1>6, <1>8 DEF Sums
<1> QED
  BY <1>4, <1>9

\* Moving the window by a byte changes the checksum as Roll does: up to the
\* byte before the new one, the sums of the two windows differ by what the old
\* byte added, and by one more of every byte in between.
LEMMA RollIs ==
  ASSUME NEW w \in Blocks, NEW v \in Blocks,
         \A i \in 1 .. BlockLength - 1 : v[i] = w[i + 1]
  PROVE  Roll(WeakChecksum(w), w[1], v[BlockLength]) = WeakChecksum(v)
<1> DEFINE n == BlockLength
           m == WeakModulus
           old == w[1]
           next == v[n]
<1>1. n \in Nat \ {0} /\ m \in Nat \ {0} /\ m \in Int /\ old \in Int /\ next \in Int
      /\ \A k \in 1 .. n : w[k] \in Int /\ v[k] \in Int
  <2>1. 1 \in 1 .. n /\ n \in 1 .. n
    BY BlockFacts
  <2> QED
    BY <2>1, BlockFacts
<1>2. PICK g : Sums(g, w, n) /\ WeakChecksum(w) = g[n]
  BY WeakIs
<1>3. PICK h : Sums(h, v, n) /\ WeakChecksum(v) = h[n]
  BY WeakIs
<1>4. ASSUME NEW k \in 0 .. n
      PROVE  g[k].a \in Int /\ g[k].b \in Int /\ h[k].a \in Int /\ h[k].b \in Int
  <2>1. g[k] \in [a : Halves, b : Halves] /\ h[k] \in [a : Halves, b : Halves]
    BY <1>2, <1>3 DEF Sums
  <2> QED
    BY <1>1, <2>1 DEF Halves
\* How far each step is from adding without a modulus.
<1>5. ASSUME NEW k \in 1 .. n
      PROVE  /\ k - 1 \in 0 .. n /\ k \in 0 .. n /\ (n - k + 1) * w[k] \in Int /\ (n - k + 1) * v[k] \in Int
             /\ Multiple((g[k - 1].a + w[k]) - g[k].a)
             /\ Multiple((g[k - 1].b + (n - k + 1) * w[k]) - g[k].b)
             /\ Multiple((h[k - 1].a + v[k]) - h[k].a)
             /\ Multiple((h[k - 1].b + (n - k + 1) * v[k]) - h[k].b)
  <2>1. k - 1 \in 0 .. n /\ k \in 0 .. n
    BY <1>1
  <2>2. (n - k + 1) * w[k] \in Int /\ (n - k + 1) * v[k] \in Int
    <3>1. n - k + 1 \in Int /\ w[k] \in Int /\ v[k] \in Int
      BY <1>1
    <3> QED
      BY <3>1
  <2>3. /\ g[k].a = Wrap(g[k - 1].a + w[k]) /\ g[k].b = Wrap(g[k - 1].b + (n - k + 1) * w[k])
        /\ h[k].a = Wrap(h[k - 1].a + v[k]) /\ h[k].b = Wrap(h[k - 1].b + (n - k + 1) * v[k])
    <3>1. g[k] = [a |-> Wrap(g[k - 1].a + w[k]), b |-> Wrap(g[k - 1].b + (n - k + 1) * w[k])]
      BY <1>2 DEF Sums
    <3>2. h[k] = [a |-> Wrap(h[k - 1].a + v[k]), b |-> Wrap(h[k - 1].b + (n - k + 1) * v[k])]
      BY <1>3 DEF Sums
    <3> QED
      BY <3>1, <3>2
  <2>4. /\ g[k - 1].a + w[k] \in Int /\ g[k - 1].b + (n - k + 1) * w[k] \in Int
        /\ h[k - 1].a + v[k] \in Int /\ h[k - 1].b + (n - k + 1) * v[k] \in Int
    <3>1. w[k] \in Int /\ v[k] \in Int
      BY <1>1
    <3>2. g[k - 1].a \in Int /\ g[k - 1].b \in Int /\ h[k - 1].a \in Int /\ h[k - 1].b \in Int
      BY <1>4, <2>1
    <3> HIDE DEF n
    <3> QED
      BY <2>2, <3>1, <3>2
  <2>5. ASSUME NEW x \in Int, NEW y, y = Wrap(x) PROVE Multiple(x - y)
    <3>1. Multiple(x - Wrap(x))
      BY Remainder
    <3> QED
      BY <2>5, <3>1, Zenon
  <2> DEFINE ga == g[k - 1].a + w[k]
             gb == g[k - 1].b + (n - k + 1) * w[k]
             ha == h[k - 1].a + v[k]
             hb == h[k - 1].b + (n - k + 1) * v[k]
  <2>6. /\ ga \in Int /\ gb \in Int /\ ha \in Int /\ hb \in Int
        /\ g[k].a = Wrap(ga) /\ g[k].b = Wrap(gb) /\ h[k].a = Wrap(ha) /\ h[k].b = Wrap(hb)
    BY <2>3, <2>4
  <2> HIDE DEF ga, gb, ha, hb
  <2>7. Multiple(ga - g[k].a) /\ Multiple(gb - g[k].b) /\ Multiple(ha - h[k].a) /\ Multiple(hb - h[k].b)
    BY <2>5, <2>6, Zenon
  <2> USE DEF ga, gb, ha, hb
  <2> QED
    BY <2>1, <2>2, <2>7
<1> DEFINE DA(i) == h[i].a - g[i + 1].a + old
           DB(i) == h[i].b - g[i + 1].b + n * old - g[i + 1].a + old
           S == {i \in Nat : i < n => Multiple(DA(i)) /\ Multiple(DB(i))}
<1>6. n * old \in Int
  BY <1>1
<1>7. 0 \in S
  <2>1. 1 \in 1 .. n /\ 1 - 1 = 0 /\ 0 \in 0 .. n /\ 1 \in 0 .. n /\ n - 1 + 1 = n
    BY <1>1
  <2>2. h[0].a = 0 /\ h[0].b = 0 /\ g[0].a = 0 /\ g[0].b = 0
    BY <1>2, <1>3 DEF Sums
  <2>3. Multiple((0 + old) - g[1].a) /\ Multiple((0 + n * old) - g[1].b)
    BY <1>5, <2>1, <2>2
  <2>4. Multiple(((0 + n * old) - g[1].b) + ((0 + old) - g[1].a))
    <3> DEFINE y == (0 + n * old) - g[1].b
               z == (0 + old) - g[1].a
    <3>1. y \in Int /\ z \in Int
      BY <1>1, <1>4, <1>6, <2>1
    <3>2. Multiple(y) /\ Multiple(z)
      BY <2>3
    <3> HIDE DEF y, z
    <3>3. Multiple(y + z)
      BY <3>1, <3>2, MultiplesAdd
    <3> QED
      BY <3>3 DEF y, z
  <2>5. DA(0) = (0 + old) - g[1].a /\ DB(0) = ((0 + n * old) - g[1].b) + ((0 + old) - g[1].a)
    BY <1>1, <1>4, <1>6, <2>1, <2>2
  <2> QED
    BY <2>3, <2>4, <2>5
<1>8. ASSUME NEW i \in Nat, i \in S PROVE i + 1 \in S
  <2> SUFFICES ASSUME i + 1 < n PROVE Multiple(DA(i + 1)) /\ Multiple(DB(i + 1))
    OBVIOUS
  <2> DEFINE x == w[i + 2]
             j == i + 1
  <2>1. /\ j \in 1 .. n /\ j + 1 \in 1 .. n /\ j - 1 = i /\ (j + 1) - 1 = j /\ i \in 0 .. n
        /\ j \in 0 .. n /\ j + 1 \in 0 .. n /\ j \in 1 .. n - 1 /\ j + 1 = i + 2 /\ i < n
    BY <1>1
  <2>2. v[j] = x /\ x \in Int
    BY <1>1, <2>1
  <2> DEFINE p == n - (j + 1) + 1
  <2>3. p \in Int /\ n - j + 1 = p + 1 /\ (p + 1) * x = p * x + x /\ p * x \in Int
    BY <1>1, <2>1, <2>2
  <2>4. /\ Multiple((h[i].a + x) - h[j].a) /\ Multiple((g[j].a + x) - g[j + 1].a)
        /\ Multiple((h[i].b + (p * x + x)) - h[j].b) /\ Multiple((g[j].b + p * x) - g[j + 1].b)
    <3>1. Multiple((h[j - 1].a + v[j]) - h[j].a) /\ Multiple((h[j - 1].b + (n - j + 1) * v[j]) - h[j].b)
      BY <1>5, <2>1
    <3>2. Multiple((g[(j + 1) - 1].a + w[j + 1]) - g[j + 1].a) /\ Multiple((g[(j + 1) - 1].b + (n - (j + 1) + 1) * w[j + 1]) - g[j + 1].b)
      BY <1>5, <2>1
    <3>3. (n - j + 1) * v[j] = p * x + x
      BY <2>2, <2>3
    <3> QED
      BY <2>1, <2>2, <3>1, <3>2, <3>3
  <2>5. Multiple(DA(i)) /\ Multiple(DB(i))
    <3> HIDE DEF DA, DB
    <3> QED
      BY <1>8, <2>1
  <2> DEFINE px == p * x
             ha == h[i].a  hb == h[i].b  ja == h[j].a  jb == h[j].b
             ga == g[j].a  gb == g[j].b  ka == g[j + 1].a  kb == g[j + 1].b
             no == n * old
  <2>6. /\ px \in Int /\ x \in Int /\ no \in Int /\ old \in Int
        /\ ha \in Int /\ hb \in Int /\ ja \in Int /\ jb \in Int
        /\ ga \in Int /\ gb \in Int /\ ka \in Int /\ kb \in Int
    BY <1>1, <1>4, <1>6, <2>1, <2>2, <2>3
  <2>7. /\ Multiple((ha + x) - ja) /\ Multiple((ga + x) - ka) /\ Multiple((hb + (px + x)) - jb) /\ Multiple((gb + px) - kb)
        /\ Multiple(ha - ga + old) /\ Multiple(hb - gb + no - ga + old)
    BY <2>4, <2>5
  <2>8. DA(j) = ja - ka + old /\ DB(j) = jb - kb + no - ka + old
    OBVIOUS
  <2> HIDE DEF px, x, ha, hb, ja, jb, ga, gb, ka, kb, no, old, DA, DB
  <2>9. Multiple((ha - ga + old) - ((ha + x) - ja) + ((ga + x) - ka))
    <3>1. Multiple((ha - ga + old) - ((ha + x) - ja))
      BY <2>6, <2>7, MultiplesAdd
    <3> QED
      BY <2>6, <2>7, <3>1, MultiplesAdd
  <2>10. Multiple((hb - gb + no - ga + old) - ((hb + (px + x)) - jb) + ((gb + px) - kb) + ((ga + x) - ka))
    <3>1. Multiple((hb - gb + no - ga + old) - ((hb + (px + x)) - jb))
      BY <2>6, <2>7, MultiplesAdd
    <3>2. Multiple((hb - gb + no - ga + old) - ((hb + (px + x)) - jb) + ((gb + px) - kb))
      BY <2>6, <2>7, <3>1, MultiplesAdd
    <3> QED
      BY <2>6, <2>7, <3>2, MultiplesAdd
  <2>11. /\ (ha - ga + old) - ((ha + x) - ja) + ((ga + x) - ka) = ja - ka + old
         /\ (hb - gb + no - ga + old) - ((hb + (px + x)) - jb) + ((gb + px) - kb) + ((ga + x) - ka) = jb - kb + no - ka + old
    BY <2>6
  <2> QED
    BY <2>8, <2>9, <2>10, <2>11
<1>9. Nat \subseteq S
  <2> HIDE DEF S
  <2> QED
    BY <1>7, <1>8, SetInduction
<1>10. /\ n - 1 \in Nat /\ n - 1 < n /\ (n - 1) + 1 = n /\ n \in 1 .. n /\ n \in 0 .. n /\ n - 1 \in 0 .. n
       /\ n - n + 1 = 1
  BY <1>1
<1>11. Multiple(h[n - 1].a - g[n].a + old) /\ Multiple(h[n - 1].b - g[n].b + n * old - g[n].a + old)
  BY <1>9, <1>10
<1>12. Multiple((h[n - 1].a + next) - h[n].a) /\ Multiple((h[n - 1].b + next) - h[n].b)
  <2>1. (n - n + 1) * v[n] = next
    BY <1>1, <1>10
  <2> QED
    BY <1>5, <1>10, <2>1
<1> DEFINE ga == g[n].a  gb == g[n].b  ha == h[n].a  hb == h[n].b  la == h[n - 1].a  lb == h[n - 1].b
           no == n * old
           ra == Wrap(ga + m - old + next)
           rb == Wrap(gb + m - Wrap(no) + ra)
<1>13. /\ ga \in Int /\ gb \in Int /\ ha \in Int /\ hb \in Int /\ la \in Int /\ lb \in Int /\ no \in Int
       /\ ha \in Halves /\ hb \in Halves
  BY <1>3, <1>4, <1>6, <1>10 DEF Sums
<1>14. /\ Multiple(la - ga + old) /\ Multiple(lb - gb + no - ga + old)
       /\ Multiple((la + next) - ha) /\ Multiple((lb + next) - hb)
  BY <1>11, <1>12
<1>15. Roll(WeakChecksum(w), old, next) = [a |-> ra, b |-> rb] /\ h[n] = [a |-> ha, b |-> hb]
  BY <1>2, <1>3, <1>10 DEF Roll, Sums
<1> HIDE DEF ga, gb, ha, hb, la, lb, no, old, next
<1>16. Multiple(m)
  <2>1. m = 1 * WeakModulus
    BY <1>1
  <2> QED
    BY <2>1 DEF Multiple
<1>17. ra = ha
  <2>1. ga + m - old + next \in Int
    BY <1>1, <1>13
  <2>2. ra \in Halves /\ ra \in Int /\ Multiple((ga + m - old + next) - ra)
    BY <2>1, Remainder, Zenon
  <2> HIDE DEF ra, m
  <2>3. Multiple(((la + next) - ha) - (la - ga + old) + m)
    <3>1. Multiple(((la + next) - ha) - (la - ga + old))
      BY <1>1, <1>13, <1>14, MultiplesAdd
    <3> QED
      BY <1>1, <1>13, <1>16, <3>1, MultiplesAdd
  <2>4. Multiple(((la + next) - ha) - (la - ga + old) + m - ((ga + m - old + next) - ra))
    BY <1>1, <1>13, <2>2, <2>3, MultiplesAdd
  <2>5. ((la + next) - ha) - (la - ga + old) + m - ((ga + m - old + next) - ra) = ra - ha
    BY <1>1, <1>13, <2>2
  <2> QED
    BY <1>13, <2>2, <2>4, <2>5, SameRemainder
<1>18. rb = hb
  <2>1. Wrap(no) \in Int /\ Multiple(no - Wrap(no))
    BY <1>13, Remainder, Zenon
  <2> DEFINE q == Wrap(no)
  <2>2. q \in Int /\ Multiple(no - q) /\ ha \in Int
    BY <1>13, <2>1, Zenon
  <2> HIDE DEF q
  <2>3. gb + m - q + ha \in Int
    BY <1>1, <1>13, <2>2
  <2>4. rb \in Halves /\ rb \in Int /\ Multiple((gb + m - q + ha) - rb)
    <3>1. rb = Wrap(gb + m - q + ha)
      BY <1>17, Zenon DEF q
    <3> QED
      BY <2>3, <3>1, Remainder, Zenon
  <2> HIDE DEF rb, m
  <2>5. Multiple(((lb + next) - hb) - (lb - gb + no - ga + old))
    BY <1>1, <1>13, <1>14, MultiplesAdd
  <2>6. Multiple(((la + next) - ha) - (la - ga + old))
    BY <1>1, <1>13, <1>14, MultiplesAdd
  <2>7. Multiple((((lb + next) - hb) - (lb - gb + no - ga + old)) - (((la + next) - ha) - (la - ga + old)))
    BY <1>1, <1>13, <2>5, <2>6, MultiplesAdd
  <2>8. Multiple((((lb + next) - hb) - (lb - gb + no - ga + old)) - (((la + next) - ha) - (la - ga + old)) + (no - q))
    BY <1>1, <1>13, <2>2, <2>7, MultiplesAdd
  <2>9. Multiple((((lb + next) - hb) - (lb - gb + no - ga + old)) - (((la + next) - ha) - (la - ga + old)) + (no - q) + m)
    BY <1>1, <1>13, <1>16, <2>2, <2>8, MultiplesAdd
  <2>10. Multiple((((lb + next) - hb) - (lb - gb + no - ga + old)) - (((la + next) - ha) - (la - ga + old)) + (no - q) + m
                  - ((gb + m - q + ha) - rb))
    BY <1>1, <1>13, <2>2, <2>3, <2>4, <2>9, MultiplesAdd
  <2>11. (((lb + next) - hb) - (lb - gb + no - ga + old)) - (((la + next) - ha) - (la - ga + old)) + (no - q) + m
           - ((gb + m - q + ha) - rb) = rb - hb
    BY <1>1, <1>13, <2>2, <2>4
  <2> QED
    BY <1>13, <2>4, <2>10, <2>11, SameRemainder
<1> QED
  BY <1>3, <1>15, <1>17, <1>18 DEF old, next

\* A place of the ring, counted from 0 and once around at most.
Slot(x) == x % BlockLength

LEMMA Slots ==
  ASSUME NEW x \in Int, x >= 0, x < BlockLength + BlockLength
  PROVE  Slot(x) = IF x < BlockLength THEN x ELSE x - BlockLength
<1> DEFINE n == BlockLength
           q == x \div n
<1>1. n \in Nat \ {0}
  BY BlockFacts
<1>2. x = Slot(x) + q * n /\ q \in Int /\ Slot(x) \in 0 .. n - 1
  BY <1>1 DEF Slot
<1> HIDE DEF q, n
<1>3. q * n > 0 - n /\ q * n < n + n
  BY <1>1, <1>2 DEF n
<1>4. q = 0 \/ q = 1
  <2>1. q > -1
    BY <1>1, <1>2, <1>3
  <2>2. q < 2
    BY <1>1, <1>2, <1>3
  <2> QED
    BY <1>2, <2>1, <2>2
<1> QED
  BY <1>1, <1>2, <1>4 DEF n

\* The window that starts at the k-th byte of a file.
WindowOf(c, k) == [i \in 1 .. BlockLength |-> c[k + i - 1]]

LEMMA WindowFacts ==
  ASSUME NEW c \in Candidates
  PROVE  /\ c \in Seq(Bytes) /\ Len(c) \in Nat /\ Len(c) <= MaxFileLength
         /\ \A i \in 1 .. Len(c) : c[i] \in Bytes
         /\ \A k \in 1 .. Len(c) - BlockLength + 1 :
              WindowOf(c, k) \in Blocks /\ SubSeq(c, k, k + BlockLength - 1) = WindowOf(c, k)
<1>1. BlockLength \in Nat \ {0} /\ MaxFileLength \in Nat
  BY ScanAssumption
<1>2. c \in Seq(Bytes) /\ Len(c) \in Nat /\ Len(c) <= MaxFileLength
  <2>1. PICK n \in 0 .. MaxFileLength : c \in [1 .. n -> Bytes]
    BY DEF Candidates
  <2> QED
    BY <1>1, <2>1
<1>3. \A i \in 1 .. Len(c) : c[i] \in Bytes
  BY <1>2
<1>4. ASSUME NEW k \in 1 .. Len(c) - BlockLength + 1
      PROVE  WindowOf(c, k) \in Blocks /\ SubSeq(c, k, k + BlockLength - 1) = WindowOf(c, k)
  <2> DEFINE s == SubSeq(c, k, k + BlockLength - 1)
  <2>1. k \in 1 .. Len(c) + 1 /\ k + BlockLength - 1 \in k - 1 .. Len(c)
        /\ (k + BlockLength - 1) - k + 1 = BlockLength
    BY <1>1, <1>2
  <2>2. s \in Seq(Bytes) /\ Len(s) = BlockLength /\ \A i \in 1 .. BlockLength : s[i] = c[k + i - 1]
    BY <1>2, <2>1, SubSeqProperties
  <2>3. s = WindowOf(c, k)
    <3>1. s = [i \in 1 .. BlockLength |-> s[i]]
      BY SMTT(30), <2>2
    <3> HIDE DEF s
    <3> QED
      BY <2>2, <3>1 DEF WindowOf
  <2>4. s \in Blocks
    <3> HIDE DEF s
    <3> QED
      BY <2>2 DEF Blocks
  <2> QED
    BY <2>3, <2>4
<1> QED
  BY <1>2, <1>3, <1>4

LEMMA WeakTyped ==
  /\ \A w \in Blocks : WeakChecksum(w).a \in Halves /\ WeakChecksum(w).b \in Halves
  /\ WeakChecksum(<<>>).a \in Halves /\ WeakChecksum(<<>>).b \in Halves
<1>1. ASSUME NEW w \in Blocks
      PROVE  WeakChecksum(w).a \in Halves /\ WeakChecksum(w).b \in Halves
  <2>1. PICK g : Sums(g, w, BlockLength) /\ WeakChecksum(w) = g[BlockLength]
    BY WeakIs
  <2>2. g[BlockLength] \in [a : Halves, b : Halves]
    BY <2>1, BlockFacts DEF Sums
  <2> QED
    BY <2>1, <2>2
<1>2. WeakChecksum(<<>>) = [a |-> 0, b |-> 0]
  <2> DEFINE Def(f) == f = [i \in 0 .. Len(<<>>) |->
                              IF i = 0 THEN [a |-> 0, b |-> 0]
                              ELSE [a |-> Wrap(f[i - 1].a + (<<>>)[i]),
                                    b |-> Wrap(f[i - 1].b + (Len(<<>>) - i + 1) * (<<>>)[i])]]
             h == CHOOSE f : Def(f)
  <2>1. Len(<<>>) = 0 /\ 0 .. 0 = {0}
    OBVIOUS
  <2>2. \E f : Def(f)
    <3>1. Def([i \in {0} |-> [a |-> 0, b |-> 0]])
      BY <2>1
    <3> QED
      BY <3>1
  <2>3. Def(h)
    <3> HIDE DEF Def
    <3> QED
      BY <2>2
  <2>4. WeakChecksum(<<>>) = h[0]
    BY <2>1 DEF WeakChecksum
  <2> HIDE DEF h
  <2> QED
    BY <2>1, <2>3, <2>4
<1>3. 0 \in Halves
  BY BlockFacts DEF Halves
<1> QED
  BY <1>1, <1>2, <1>3

\* While the candidate is scanned, the ring holds the window that ends at
\* position, weak is its checksum, and found tells of the windows before it.
ScanWindow ==
  scan = "scanning" =>
    /\ position >= BlockLength
    /\ ring \in [1 .. BlockLength -> Bytes]
    /\ Ordered = WindowOf(candidate, position - BlockLength + 1)
    /\ weak = WeakChecksum(Ordered)
    /\ found <=> \E k \in 1 .. position - BlockLength : WindowOf(candidate, k) = block

ScanInv ==
  /\ ScanTypeOK
  /\ position <= Len(candidate)
  /\ scan = "new" => ~ found /\ ringStart = 0
  /\ ScanWindow
  /\ ScanIsExact

LEMMA RingShows ==
  /\ Ordered = [i \in 1 .. BlockLength |-> ring[Slot(ringStart + i - 1) + 1]]
  /\ Ordered' = [i \in 1 .. BlockLength |-> ring'[Slot(ringStart' + i - 1) + 1]]
  BY DEF Ordered, Slot

LEMMA ScanStarts == ScanInit => ScanInv
<1> SUFFICES ASSUME ScanInit PROVE ScanInv
  OBVIOUS
<1>1. candidate \in Candidates /\ Len(candidate) \in Nat /\ MaxFileLength \in Nat
      /\ BlockLength \in Nat \ {0}
  BY WindowFacts, ScanAssumption DEF ScanInit
<1>2. weak.a \in Halves /\ weak.b \in Halves
  BY WeakTyped DEF ScanInit
<1>3. ScanTypeOK
  <2>1. /\ candidate \in Candidates /\ block \in Blocks /\ ringStart = 0 /\ position = 0
        /\ found = FALSE /\ scan = "new"
    BY DEF ScanInit
  <2>2. ringStart \in 0 .. BlockLength - 1 /\ position \in 0 .. MaxFileLength
    BY <1>1, <2>1
  <2>3. {weak.a, weak.b} \subseteq 0 .. WeakModulus - 1
    BY <1>2 DEF Halves
  <2> QED
    BY <2>1, <2>2, <2>3 DEF ScanTypeOK
<1> QED
  BY <1>1, <1>3 DEF ScanInv, ScanInit, ScanWindow, ScanIsExact

LEMMA OpenKeeps == ScanInv /\ OpenCandidate => ScanInv'
<1> SUFFICES ASSUME ScanInv, OpenCandidate PROVE ScanInv'
  OBVIOUS
<1> DEFINE n == BlockLength
<1>1. /\ candidate' = candidate /\ block' = block /\ ringStart' = ringStart /\ found' = found
      /\ scan = "new" /\ ~ found /\ candidate \in Candidates /\ block \in Blocks
      /\ ringStart \in 0 .. n - 1 /\ position \in 0 .. MaxFileLength /\ found \in BOOLEAN
      /\ position <= Len(candidate)
  BY DEF ScanInv, OpenCandidate, ScanTypeOK
<1>2. n \in Nat \ {0} /\ Len(candidate) \in Nat /\ Len(candidate) <= MaxFileLength /\ MaxFileLength \in Nat
  BY <1>1, WindowFacts, ScanAssumption
<1>3. CASE Len(candidate) < n
  <2>1. scan' = "over" /\ ring' = ring /\ position' = position /\ weak' = weak
    BY <1>3 DEF OpenCandidate
  <2>2. 1 .. Len(candidate) - n + 1 = {}
    BY <1>2, <1>3
  <2>3. ScanTypeOK'
    BY <1>1, <2>1 DEF ScanInv, ScanTypeOK
  <2>4. ScanIsExact'
    BY <1>1, <2>2 DEF ScanIsExact
  <2> QED
    BY <1>1, <2>1, <2>3, <2>4 DEF ScanInv, ScanWindow
<1>4. CASE Len(candidate) >= n
  <2> DEFINE w == SubSeq(candidate, 1, n)
  <2>1. scan' = "scanning" /\ ring' = w /\ weak' = WeakChecksum(w) /\ position' = n
    BY <1>2, <1>4 DEF OpenCandidate
  <2>2. w \in Blocks /\ w = WindowOf(candidate, 1)
    <3>1. 1 \in 1 .. Len(candidate) - n + 1 /\ 1 + n - 1 = n
      BY <1>2, <1>4
    <3> QED
      BY <1>1, <3>1, WindowFacts
  <2> HIDE DEF w
  <2>3. w \in [1 .. n -> Bytes]
    BY <2>2 DEF Blocks
  <2>4. ringStart = 0 /\ ringStart' = 0
    BY <1>1 DEF ScanInv
  <2>5. Ordered' = w
    <3>1. \A i \in 1 .. n : Slot(0 + i - 1) + 1 = i
      <4> TAKE i \in 1 .. n
      <4>1. 0 + i - 1 \in Int /\ 0 + i - 1 >= 0 /\ 0 + i - 1 < n /\ 0 + i - 1 < n + n /\ 0 + i - 1 = i - 1
        BY <1>2
      <4>2. Slot(0 + i - 1) = 0 + i - 1
        BY <4>1, Slots
      <4> QED
        BY <1>2, <4>1, <4>2
    <3>2. Ordered' = [i \in 1 .. n |-> w[i]]
      BY <2>1, <2>4, <3>1, RingShows
    <3> QED
      BY <2>3, <3>2
  <2>6. 1 .. n - n = {} /\ n - n + 1 = 1
    BY <1>2
  <2>7. ScanWindow'
    <3>1. WindowOf(candidate, position - n + 1)' = WindowOf(candidate, 1)
      BY <1>1, <2>1, <2>6 DEF WindowOf
    <3>2. ~ \E k \in 1 .. position' - n : WindowOf(candidate', k) = block'
      BY <2>1, <2>6
    <3> QED
      BY <1>1, <1>2, <2>1, <2>2, <2>3, <2>5, <3>1, <3>2 DEF ScanWindow
  <2>8. ScanTypeOK'
    <3>1. weak'.a \in Halves /\ weak'.b \in Halves
      BY <2>1, <2>2, WeakTyped
    <3> QED
      BY <1>1, <1>2, <1>4, <2>1, <3>1 DEF ScanTypeOK, Halves
  <2> QED
    BY <1>1, <1>2, <1>4, <2>1, <2>7, <2>8 DEF ScanInv, ScanIsExact
<1> QED
  BY <1>2, <1>3, <1>4

LEMMA SlideKeeps == ScanInv /\ Slide => ScanInv'
<1> SUFFICES ASSUME ScanInv, Slide PROVE ScanInv'
  OBVIOUS
<1> DEFINE n == BlockLength
           W(k) == WindowOf(candidate, k)
<1>1. /\ candidate' = candidate /\ block' = block /\ scan = "scanning"
      /\ candidate \in Candidates /\ block \in Blocks
      /\ ringStart \in 0 .. n - 1 /\ position \in 0 .. MaxFileLength /\ found \in BOOLEAN
      /\ position <= Len(candidate)
  BY DEF ScanInv, Slide, ScanTypeOK
<1>2. /\ n \in Nat \ {0} /\ Len(candidate) \in Nat /\ Len(candidate) <= MaxFileLength /\ MaxFileLength \in Nat
      /\ \A i \in 1 .. Len(candidate) : candidate[i] \in Bytes
      /\ \A k \in 1 .. Len(candidate) - n + 1 : W(k) \in Blocks /\ SubSeq(candidate, k, k + n - 1) = W(k)
  BY SMTT(30), <1>1, WindowFacts, ScanAssumption
<1> DEFINE s == position - n + 1
<1>3. /\ position >= n /\ ring \in [1 .. n -> Bytes]
      /\ Ordered = W(s) /\ weak = WeakChecksum(Ordered)
      /\ found <=> \E k \in 1 .. position - n : W(k) = block
  BY <1>1 DEF ScanInv, ScanWindow
<1>4. s \in 1 .. Len(candidate) - n + 1 /\ s \in Int /\ position \in Int
      /\ 1 .. s = (1 .. position - n) \cup {s}
  BY <1>1, <1>2, <1>3
<1>5. Matches <=> W(s) = block
  BY <1>3 DEF Matches
<1>6. found' \in BOOLEAN /\ (found' <=> (found \/ Matches))
  <2>1. found' = (found \/ Matches)
    BY DEF Slide
  <2> QED
    BY <2>1, Zenon
<1>7. found' <=> \E k \in 1 .. s : W(k) = block
  <2> HIDE DEF W, s
  <2> QED
    BY <1>3, <1>4, <1>5, <1>6, Zenon
<1>8. CASE position = Len(candidate)
  <2>1. scan' = "over" /\ ring' = ring /\ ringStart' = ringStart /\ position' = position /\ weak' = weak
    BY <1>8 DEF Slide
  <2>2. ScanTypeOK'
    BY <1>1, <1>6, <2>1 DEF ScanInv, ScanTypeOK
  <2>3. ScanIsExact'
    <3>1. s = Len(candidate) - n + 1
      BY <1>8
    <3> HIDE DEF W, s
    <3>2. found' <=> \E k \in 1 .. Len(candidate) - n + 1 : SubSeq(candidate, k, k + n - 1) = block
      BY <1>2, <1>7, <3>1
    <3> QED
      BY <1>1, <2>1, <3>2 DEF ScanIsExact
  <2> QED
    BY <1>1, <2>1, <2>2, <2>3 DEF ScanInv, ScanWindow
<1>9. CASE position # Len(candidate)
  <2> DEFINE r == ringStart
             next == candidate[position + 1]
  <2>1. /\ position' = position + 1 /\ weak' = Roll(weak, ring[r + 1], next)
        /\ ring' = [ring EXCEPT ![r + 1] = next] /\ ringStart' = Slot(r + 1) /\ scan' = "scanning"
    BY <1>1, <1>9 DEF Slide, Slot
  <2>2. /\ position + 1 \in 1 .. Len(candidate) /\ next \in Bytes /\ r \in Int /\ r >= 0 /\ r < n
        /\ r + 1 \in 1 .. n /\ s + 1 \in 1 .. Len(candidate) - n + 1 /\ position + 1 - n + 1 = s + 1
        /\ position + 1 - n = s
    BY <1>1, <1>2, <1>3, <1>4, <1>9
  <2>3. W(s) \in Blocks /\ W(s + 1) \in Blocks
    BY <1>2, <1>4, <2>2
  \* The window moves by a byte.
  <2>4. /\ \A i \in 1 .. n - 1 : W(s + 1)[i] = W(s)[i + 1]
        /\ W(s + 1)[n] = next
    <3>1. \A i \in 1 .. n : W(s + 1)[i] = candidate[(s + 1) + i - 1] /\ W(s)[i] = candidate[s + i - 1]
      BY DEF WindowOf
    <3>2. \A i \in 1 .. n - 1 : i \in 1 .. n /\ i + 1 \in 1 .. n /\ (s + 1) + i - 1 = s + (i + 1) - 1
      BY <1>2, <1>4
    <3>3. n \in 1 .. n /\ (s + 1) + n - 1 = position + 1
      BY <1>2, <1>4
    <3> HIDE DEF W, s
    <3> QED
      BY <3>1, <3>2, <3>3
  <2>5. ring[r + 1] = W(s)[1]
    <3>1. Slot(r + 1 - 1) = r
      <4>1. r + 1 - 1 = r /\ r < n + n
        BY <1>2, <2>2
      <4> QED
        BY <2>2, <4>1, Slots
    <3>2. 1 \in 1 .. n
      BY <1>2
    <3>3. Ordered[1] = ring[Slot(r + 1 - 1) + 1]
      BY <3>2, RingShows
    <3> QED
      BY <1>3, <3>1, <3>3
  <2>6. weak' = WeakChecksum(W(s + 1))
    <3> HIDE DEF W, s
    <3> QED
      BY <1>3, <2>1, <2>3, <2>4, <2>5, RollIs
  <2>7. ring' \in [1 .. n -> Bytes] /\ ring'[r + 1] = next
        /\ \A i \in 1 .. n : i # r + 1 => ring'[i] = ring[i]
    BY <1>3, <2>1, <2>2
  <2>8. ringStart' \in 0 .. n - 1 /\ ringStart' = IF r + 1 < n THEN r + 1 ELSE 0
    <3>1. Slot(r + 1) = IF r + 1 < n THEN r + 1 ELSE r + 1 - n
      BY <1>2, <2>2, Slots
    <3> QED
      BY <1>2, <2>1, <2>2, <3>1
  \* The places of the ring, seen from its new start.
  <2>9. /\ \A i \in 1 .. n - 1 : /\ Slot(ringStart' + i - 1) = Slot(r + (i + 1) - 1)
                                 /\ Slot(ringStart' + i - 1) + 1 \in 1 .. n
                                 /\ Slot(ringStart' + i - 1) + 1 # r + 1
        /\ Slot(ringStart' + n - 1) = r
    <3>1. ASSUME NEW i \in 1 .. n - 1
          PROVE  /\ Slot(ringStart' + i - 1) = Slot(r + (i + 1) - 1)
                 /\ Slot(ringStart' + i - 1) + 1 \in 1 .. n
                 /\ Slot(ringStart' + i - 1) + 1 # r + 1
      <4>1. Slot(r + (i + 1) - 1) = IF r + i < n THEN r + i ELSE (r + i) - n
        <5>1. r + (i + 1) - 1 = r + i /\ r + i \in Int /\ r + i >= 0 /\ r + i < n + n
          BY <1>2, <2>2
        <5>2. Slot(r + i) = IF r + i < n THEN r + i ELSE (r + i) - n
          BY <5>1, Slots
        <5> QED
          BY <5>1, <5>2
      <4>2. Slot(ringStart' + i - 1) = IF ringStart' + i - 1 < n THEN ringStart' + i - 1 ELSE (ringStart' + i - 1) - n
        <5> DEFINE x == ringStart' + i - 1
        <5>1. x \in Int /\ x >= 0 /\ x < n + n
          BY <1>2, <2>8
        <5> HIDE DEF x
        <5>2. Slot(x) = IF x < n THEN x ELSE x - n
          BY <5>1, Slots
        <5> QED
          BY <5>2 DEF x
      <4> QED
        BY <1>2, <2>2, <2>8, <4>1, <4>2
    <3>2. Slot(ringStart' + n - 1) = r
      <4>1. ringStart' + n - 1 \in Int /\ ringStart' + n - 1 >= 0 /\ ringStart' + n - 1 < n + n
        BY <1>2, <2>8
      <4>2. Slot(ringStart' + n - 1) = IF ringStart' + n - 1 < n THEN ringStart' + n - 1 ELSE (ringStart' + n - 1) - n
        <5> DEFINE x == ringStart' + n - 1
        <5>1. x \in Int /\ x >= 0 /\ x < n + n
          BY <4>1
        <5> HIDE DEF x
        <5>2. Slot(x) = IF x < n THEN x ELSE x - n
          BY <5>1, Slots
        <5> QED
          BY <5>2 DEF x
      <4> QED
        BY <1>2, <2>2, <2>8, <4>2
    <3> QED
      BY <3>1, <3>2
  <2>10. Ordered' = W(s + 1)
    <3>1. ASSUME NEW i \in 1 .. n PROVE ring'[Slot(ringStart' + i - 1) + 1] = W(s + 1)[i]
      <4>1. CASE i = n
        <5> HIDE DEF W, s
        <5> QED
          BY <2>4, <2>7, <2>9, <4>1
      <4>2. CASE i # n
        <5>1. i \in 1 .. n - 1 /\ i + 1 \in 1 .. n
          BY <1>2, <4>2
        <5>2. Ordered[i + 1] = ring[Slot(r + (i + 1) - 1) + 1]
          BY <5>1, RingShows
        <5>3. ring'[Slot(ringStart' + i - 1) + 1] = ring[Slot(r + (i + 1) - 1) + 1]
          BY <2>7, <2>9, <5>1
        <5> HIDE DEF W, s
        <5> QED
          BY <1>3, <2>4, <5>1, <5>2, <5>3
      <4> QED
        BY <4>1, <4>2
    <3>2. W(s + 1) = [i \in 1 .. n |-> W(s + 1)[i]]
      BY DEF WindowOf
    <3> HIDE DEF W, s
    <3> QED
      BY <3>1, <3>2, RingShows
  <2>11. ScanWindow'
    <3>1. WindowOf(candidate, position - n + 1)' = W(s + 1)
      <4>1. position' - n + 1 = s + 1
        BY <1>2, <1>4, <2>1
      <4>2. WindowOf(candidate, position - n + 1)' = WindowOf(candidate, s + 1)
        BY <1>1, <4>1 DEF WindowOf
      <4> QED
        BY <4>2
    <3>2. found' <=> \E k \in 1 .. position' - n : WindowOf(candidate', k) = block'
      <4>1. position' - n = s
        BY <1>2, <1>4, <2>1
      <4> HIDE DEF s
      <4> QED
        BY <1>1, <1>7, <4>1
    <3>3. position' >= n
      BY <1>2, <1>3, <1>4, <2>1
    <3> HIDE DEF W, s
    <3> QED
      BY <2>6, <2>7, <2>10, <3>1, <3>2, <3>3 DEF ScanWindow
  <2>12. ScanTypeOK'
    <3>1. weak'.a \in Halves /\ weak'.b \in Halves
      BY <2>3, <2>6, WeakTyped
    <3>2. position' \in 0 .. MaxFileLength
      BY <1>2, <2>1, <2>2
    <3> HIDE DEF W, s
    <3> QED
      BY <1>1, <1>6, <2>1, <2>8, <3>1, <3>2 DEF ScanTypeOK, Halves
  <2>13. position' <= Len(candidate)
    BY <1>2, <2>1, <2>2
  <2> HIDE DEF W, s
  <2> QED
    BY <1>1, <2>1, <2>11, <2>12, <2>13 DEF ScanInv, ScanIsExact
<1> QED
  BY <1>8, <1>9

\* Wherever the block starts in the candidate file, the scan of ScanCandidate
\* finds it, and it finds nothing else, whatever the width of the checksum,
\* the length of the window and the bytes are: the checksum that is rolled is
\* the one of the window at every byte, and the ring holds that window.
THEOREM SearchPromise == ScanSpec => [](ScanTypeOK /\ ScanIsExact)
<1>1. ScanInv /\ [ScanNext]_scanVars => ScanInv'
  <2>1. ScanInv /\ UNCHANGED scanVars => ScanInv'
    BY DEF ScanInv, ScanTypeOK, ScanWindow, ScanIsExact, Ordered, scanVars
  <2> QED
    BY <2>1, OpenKeeps, SlideKeeps DEF ScanNext
<1>2. ScanInv => ScanTypeOK /\ ScanIsExact
  BY DEF ScanInv
<1> QED
  BY ScanStarts, <1>1, <1>2, PTL DEF ScanSpec

-----------------------------------------------------------------------------
(* The ten machines together.                                              *)
(*                                                                         *)
(* A step of MCData is a step of one machine, in which the others rest, so *)
(* each behaviour of it is one of every machine, and what was proved of    *)
(* the machines holds of their composition.                                *)

\* The machines start where each of them starts.
LEMMA PartsStart ==
  Init => /\ SharesInit /\ ScanInit /\ DeltaInit /\ StoreInit /\ PoolInit /\ ForwardInit
          /\ TelnetInit /\ NetworkInit /\ UploadInit /\ DownloadInit
BY DEF Init

\* Each step is a step of every machine, or one in which it rests.
LEMMA PartsMove ==
  [Next]_dataVars =>
    /\ [SharesNext]_shareVars /\ [ScanNext]_scanVars /\ [DeltaNext]_deltaVars
    /\ [StoreNext]_storeVars /\ [PoolNext]_poolVars /\ [ForwardNext]_forwardVars
    /\ [TelnetNext]_telnetVars /\ [NetworkNext]_scanNetVars
    /\ [UploadNext]_uploadVars /\ [DownloadNext]_downloadVars
BY DEF Next, dataVars, restVars

\* What is checked as one behaviour of shares, transfers, files, forwarded
\* ports, Telnet and scans is a behaviour of each of these machines.
THEOREM PartsPromise ==
  Spec => /\ SharesSpec /\ ScanSpec /\ DeltaSpec /\ StoreSpec /\ PoolSpec /\ ForwardSpec
          /\ TelnetSpec /\ NetworkSpec /\ UploadSpec /\ DownloadSpec
BY PartsStart, PartsMove, PTL
   DEF Spec, SharesSpec, ScanSpec, DeltaSpec, StoreSpec, PoolSpec, ForwardSpec, TelnetSpec,
       NetworkSpec, UploadSpec, DownloadSpec

\* The variables of the ten machines keep their types and their bounds: no
\* step of a browser, a transfer, a crash or a stop takes one out of them.
THEOREM DataTypes == Spec => []TypeOK
<1>1. /\ SharesTypeOK /\ ScanTypeOK /\ DeltaTypeOK /\ StoreTypeOK
      /\ PoolTypeOK /\ ForwardTypeOK /\ TelnetTypeOK /\ NetworkTypeOK
      /\ UploadTypeOK /\ DownloadTypeOK
      => TypeOK
  BY DEF TypeOK
<1> QED
  BY <1>1, PartsPromise, SharesTypes, SearchPromise, DeltaTypes, StoreTypes, PoolTypes,
     ForwardPromise, TelnetPromise, NetworkTypes, UploadPromise, DownloadPromise, PTL

\* What is searched in a file or downloaded from a host is that file exactly,
\* also when chunks come twice, too late or cut short; what is uploaded to the
\* directory of the process is, too, up to what is lost at the end of the last
\* chunk or in a race.
THEOREM FilesPromise == Spec => []FilesArrive
<1>1. ScanIsExact /\ UploadedWholeOrLostAtClose /\ DownloadedIsWhole => FilesArrive
  BY DEF FilesArrive
<1> QED
  BY <1>1, PartsPromise, SearchPromise, UploadPromise, DownloadPromise, PTL

\* A Telnet session and a forwarded port deliver exactly what was meant, in
\* both directions, however the streams are cut into pieces.
THEOREM StreamsPromise == Spec => []StreamsAreTransparent
<1>1. TelnetIsTransparent /\ RelayedInOrder => StreamsAreTransparent
  BY DEF StreamsAreTransparent
<1> QED
  BY <1>1, PartsPromise, TelnetPromise, ForwardPromise, PTL

=============================================================================
