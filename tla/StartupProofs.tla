--------------------------- MODULE StartupProofs ---------------------------
(***************************************************************************)
(* Proofs about Startup, for every number of routers, ports and failures.  *)
(* The inductive invariant is StartupInv (module Startup).                 *)
(***************************************************************************)
EXTENDS Startup, FiniteSetTheorems, TLAPS

LEMMA RouterRange ==
  ASSUME TypeOK
  PROVE  /\ Router \subseteq Routers
         /\ IsFiniteSet(Router) /\ Cardinality(Router) = noOfRouters
<1>1. noOfRouters \in Nat /\ MaxRouters \in Nat /\ noOfRouters <= MaxRouters
  BY StartupAssumption DEF StartupAssumption, TypeOK, Routers
<1>2. Router \subseteq Routers
  BY <1>1 DEF Router, Routers
<1>3. IsFiniteSet(1 .. noOfRouters) /\ Cardinality(1 .. noOfRouters) = noOfRouters
  BY <1>1, FS_Interval
<1> QED
  BY <1>2, <1>3 DEF Router

\* Counting to noOfRouters is as good as naming every router.
LEMMA CountedIsComplete ==
  ASSUME TypeOK, RegistrationCounted, received = noOfRouters
  PROVE  Registered = Router
<1>1. Registered \subseteq Router /\ Cardinality(Registered) = Cardinality(Router)
  BY RouterRange DEF RegistrationCounted
<1> QED
  BY <1>1, RouterRange, FS_Subset

-----------------------------------------------------------------------------
LEMMA StartupInit ==
  ASSUME Init
  PROVE  StartupInv
<1> USE StartupAssumption DEF StartupAssumption
<1>1. TypeOK
  BY DEF Init, TypeOK, Routers, Slot
<1>2. Registered = {}
  BY DEF Init, Registered, Slot
<1>3. PortsOwned
  BY <1>1 DEF Init, TypeOK, PortsOwned, Live, Routers
<1>4. UpMessagesGenuine
  BY DEF Init, UpMessagesGenuine
<1>5. RegisteredAddressIsTheRouters
  BY <1>2 DEF RegisteredAddressIsTheRouters
<1>6. RegistrationCounted
  BY <1>2, FS_EmptySet DEF Init, RegistrationCounted
<1>7. AbortsOnlyMisconfigured
  BY DEF Init, AbortsOnlyMisconfigured
<1> QED
  BY <1>1, <1>3, <1>4, <1>5, <1>6, <1>7 DEF StartupInv

-----------------------------------------------------------------------------
(* The actions that disturb neither the queue nor the registration: what   *)
(* they do to the processes is all there is to check.                      *)
Quiet == UNCHANGED <<config, inbox, whoHaveSendMe, senderCount, received, port>>

LEMMA QuietStep ==
  ASSUME StartupInv, Quiet, TypeOK', PortsOwned', pc' \in {"fork", "register"} \/ pc' = pc
  PROVE  StartupInv'
<1> USE DEF Quiet, config
<1>1. Registered' = Registered
  BY DEF Registered, Routers, Slot
<1>2. UpMessagesGenuine'
  BY DEF StartupInv, UpMessagesGenuine, Router
<1>3. RegisteredAddressIsTheRouters'
  BY <1>1 DEF StartupInv, RegisteredAddressIsTheRouters
<1>4. RegistrationCounted'
  BY <1>1 DEF StartupInv, RegistrationCounted, Router, CircuitWanted, HopsAllowed
<1>5. AbortsOnlyMisconfigured'
  BY DEF StartupInv, AbortsOnlyMisconfigured, CircuitWanted, HopsAllowed
<1> QED
  BY <1>2, <1>3, <1>4, <1>5 DEF StartupInv

LEMMA ForkStep ==
  ASSUME StartupInv, Fork \/ ForkFails \/ BecomeProxy
  PROVE  StartupInv'
<1> USE StartupAssumption DEF StartupAssumption, StartupInv
<1>1. forked \in Nat /\ noOfRouters \in Nat /\ noOfRouters <= MaxRouters
  BY DEF TypeOK, Routers
<1>2. TypeOK'
  <2>1. CASE Fork
    BY <1>1, <2>1 DEF TypeOK, Routers, Fork, config
  <2>2. CASE ForkFails
    BY <1>1, <2>2 DEF TypeOK, Routers, ForkFails, config
  <2>3. CASE BecomeProxy
    BY <2>3 DEF TypeOK, BecomeProxy, config
  <2> QED
    BY <2>1, <2>2, <2>3
<1>3. PortsOwned'
  <2>1. CASE Fork
    BY <1>1, <2>1 DEF TypeOK, PortsOwned, Live, Routers, Fork, config
  <2>2. CASE ForkFails
    BY <1>1, <2>2 DEF TypeOK, PortsOwned, Live, Routers, ForkFails, config
  <2>3. CASE BecomeProxy
    BY <1>1, <2>3 DEF PortsOwned, Live, Routers, BecomeProxy, config
  <2> QED
    BY <2>1, <2>2, <2>3
<1>4. Quiet /\ (pc' \in {"fork", "register"} \/ pc' = pc)
  BY DEF Quiet, Fork, ForkFails, BecomeProxy, config
<1> QED
  BY <1>2, <1>3, <1>4, QuietStep

LEMMA RouterQuietStep ==
  ASSUME StartupInv, NEW r \in Routers, BindRaw(r) \/ BindRawFails(r) \/ Die(r)
  PROVE  StartupInv'
<1> USE StartupAssumption DEF StartupAssumption, StartupInv
<1>1. TypeOK'
  <2>1. CASE BindRaw(r)
    BY <2>1 DEF TypeOK, BindRaw, config
  <2>2. CASE BindRawFails(r)
    BY <2>2 DEF TypeOK, BindRawFails, config
  <2>3. CASE Die(r)
    BY <2>3 DEF TypeOK, Die, config
  <2> QED
    BY <2>1, <2>2, <2>3
<1>2. PortsOwned'
  BY DEF TypeOK, PortsOwned, Live, BindRaw, BindRawFails, Die, config
<1>3. Quiet /\ pc' = pc
  BY DEF Quiet, BindRaw, BindRawFails, Die, config
<1> QED
  BY <1>1, <1>2, <1>3, QuietStep

-----------------------------------------------------------------------------
\* A router that is about to announce itself has never been heard of.
LEMMA Unheard ==
  ASSUME StartupInv, NEW r \in Routers, state[r] = "bound"
  PROVE  /\ r \in Router /\ port[r] = NULL /\ r \notin Registered
         /\ \A n \in DOMAIN inbox : inbox[n].id # r
<1> USE DEF StartupInv
<1>1. port[r] = NULL
  BY DEF PortsOwned
<1>2. r \in Router
  BY StartupAssumption DEF StartupAssumption, PortsOwned, TypeOK, Router, Routers
<1>3. r \notin Registered
  BY <1>1 DEF RegisteredAddressIsTheRouters, Registered
<1>4. ASSUME NEW n \in DOMAIN inbox
      PROVE  inbox[n].id # r
  <2>1. inbox[n] \in UpMessage
    BY DEF TypeOK
  <2>2. inbox[n].from # NULL /\ inbox[n].from = port[inbox[n].id]
    BY <2>1, StartupAssumption DEF StartupAssumption, UpMessage, UpMessagesGenuine
  <2> QED
    BY <1>1, <2>2
<1> QED
  BY <1>1, <1>2, <1>3, <1>4

LEMMA SendUpStep ==
  ASSUME StartupInv, NEW r \in Routers, SendUp(r)
  PROVE  StartupInv'
<1> USE DEF StartupInv
<1>1. PICK p \in Port \ PortsInUse :
        /\ port' = [port EXCEPT ![r] = p]
        /\ inbox' = Append(inbox, [id |-> r, claims |-> 0, from |-> p])
  BY DEF SendUp
<1> DEFINE m == [id |-> r, claims |-> 0, from |-> p]
<1>2. /\ state[r] = "bound"
      /\ state' = [state EXCEPT ![r] = AfterUp]
      /\ AfterUp \in {"exited", "handling"}
      /\ UNCHANGED <<config, pc, forked, whoHaveSendMe, senderCount, received, faults>>
  BY DEF SendUp, AfterUp
<1>3. p # NULL /\ m \in UpMessage
  BY <1>1, StartupAssumption DEF StartupAssumption, UpMessage
<1>4. /\ inbox \in Seq(UpMessage) /\ Len(inbox') = Len(inbox) + 1
      /\ inbox' \in Seq(UpMessage)
      /\ \A n \in 1 .. Len(inbox) : inbox'[n] = inbox[n]
      /\ inbox'[Len(inbox) + 1] = m
  BY <1>1, <1>3 DEF TypeOK
<1>5. DOMAIN inbox = 1 .. Len(inbox) /\ DOMAIN inbox' = 1 .. Len(inbox) + 1
  BY <1>4
<1>6. /\ r \in Router /\ port[r] = NULL /\ r \notin Registered
      /\ \A n \in 1 .. Len(inbox) : inbox[n].id # r
  BY <1>2, <1>5, Unheard
<1> HIDE DEF m
<1>7. \A n \in DOMAIN inbox' :
        \/ n \in DOMAIN inbox /\ inbox'[n] = inbox[n]
        \/ n = Len(inbox) + 1 /\ inbox'[n] = m
  <2>1. Len(inbox) \in Nat
    BY <1>4
  <2> QED
    BY <1>4, <1>5, <2>1
<1> USE DEF m
<1>8. TypeOK'
  BY <1>1, <1>2, <1>4 DEF TypeOK, config, Routers, Slot
<1>9. Registered' = Registered
  BY <1>2 DEF Registered, Routers, Slot
<1>10. PortsOwned'
  <2>1. forked' <= noOfRouters'
    BY <1>2 DEF PortsOwned, config
  <2>2. \A q \in Routers :
          /\ state'[q] # "none" => q <= forked'
          /\ state'[q] \in {"none", "init", "bound"} => port'[q] = NULL
    BY <1>1, <1>2 DEF PortsOwned, TypeOK
  <2>3. \A q \in Routers : q # r /\ Live(q) => port[q] # p
    BY <1>1 DEF PortsInUse
  <2>4. \A q \in Routers : Live(q)' => q = r \/ Live(q)
    BY <1>2 DEF Live, TypeOK
  <2>5. \A q, o \in Routers :
          (q # o /\ Live(q) /\ Live(o) /\ port[q] # NULL => port[q] # port[o])'
    BY <1>1, <1>3, <2>3, <2>4 DEF PortsOwned, TypeOK
  <2> QED
    BY <2>1, <2>2, <2>5 DEF PortsOwned, Live, Routers
<1>11. UpMessagesGenuine'
  <2>1. \A n \in DOMAIN inbox' :
          inbox'[n].id \in Router' /\ inbox'[n].from = port'[inbox'[n].id]
    <3> TAKE n \in DOMAIN inbox'
    <3>1. CASE inbox'[n] = inbox[n] /\ n \in DOMAIN inbox
      BY <1>1, <1>2, <1>5, <1>6, <3>1, RouterRange
         DEF UpMessagesGenuine, TypeOK, config, Router
    <3>2. CASE inbox'[n] = m
      BY <1>1, <1>2, <1>6, <3>2 DEF TypeOK, config, Router
    <3> QED
      BY <1>7, <3>1, <3>2
  <2>2. \A n, k \in DOMAIN inbox' : inbox'[n].id = inbox'[k].id => n = k
    <3> TAKE n, k \in DOMAIN inbox'
    <3>1. CASE n \in DOMAIN inbox /\ k \in DOMAIN inbox
      BY <1>4, <1>5, <3>1 DEF UpMessagesGenuine
    <3>2. CASE n = Len(inbox) + 1 \/ k = Len(inbox) + 1
      BY <1>4, <1>5, <1>6, <3>2
    <3> QED
      BY <1>7, <3>1, <3>2
  <2> QED
    BY <2>1, <2>2 DEF UpMessagesGenuine
<1>12. RegisteredAddressIsTheRouters'
  BY <1>1, <1>2, <1>5, <1>6, <1>7, <1>9 DEF RegisteredAddressIsTheRouters, TypeOK
<1>13. RegistrationCounted'
  BY <1>2, <1>9 DEF RegistrationCounted, Router, CircuitWanted, HopsAllowed, config
<1>14. AbortsOnlyMisconfigured'
  BY <1>2 DEF AbortsOnlyMisconfigured, CircuitWanted, HopsAllowed, config
<1> QED
  BY <1>8, <1>10, <1>11, <1>12, <1>13, <1>14

-----------------------------------------------------------------------------
\* The message at the head of the queue comes from a router not yet registered.
LEMMA HeadIsNew ==
  ASSUME StartupInv, inbox # << >>
  PROVE  /\ Head(inbox) \in UpMessage
         /\ Head(inbox).id \in Router
         /\ Head(inbox).from = port[Head(inbox).id]
         /\ Head(inbox).id \notin Registered
         /\ \A n \in 1 .. Len(inbox) : n # 1 => inbox[n].id # Head(inbox).id
<1> USE DEF StartupInv
<1>1. /\ inbox \in Seq(UpMessage) /\ 1 \in DOMAIN inbox
      /\ Head(inbox) = inbox[1] /\ DOMAIN inbox = 1 .. Len(inbox)
  BY DEF TypeOK
<1>2. Head(inbox) \in UpMessage
  BY <1>1
<1>3. Head(inbox).id \in Router /\ Head(inbox).from = port[Head(inbox).id]
  BY <1>1 DEF UpMessagesGenuine
<1>4. Head(inbox).id \notin Registered
  BY <1>1 DEF RegisteredAddressIsTheRouters
<1>5. \A n \in 1 .. Len(inbox) : n # 1 => inbox[n].id # Head(inbox).id
  BY <1>1 DEF UpMessagesGenuine
<1> QED
  BY <1>2, <1>3, <1>4, <1>5

\* Taking the head off a queue of genuine messages leaves genuine messages.
LEMMA TailGenuine ==
  ASSUME StartupInv, inbox # << >>, inbox' = Tail(inbox),
         UNCHANGED <<port, noOfRouters>>
  PROVE  /\ UpMessagesGenuine'
         /\ inbox' \in Seq(UpMessage)
         /\ \A n \in DOMAIN inbox' :
              n + 1 \in 1 .. Len(inbox) /\ n + 1 # 1 /\ inbox'[n] = inbox[n + 1]
<1> USE DEF StartupInv
<1>1. /\ inbox \in Seq(UpMessage) /\ DOMAIN inbox = 1 .. Len(inbox)
      /\ Len(inbox) \in Nat
  BY DEF TypeOK
<1>2. /\ Tail(inbox) \in Seq(UpMessage) /\ DOMAIN Tail(inbox) = 1 .. Len(inbox) - 1
      /\ \A n \in 1 .. Len(inbox) - 1 : Tail(inbox)[n] = inbox[n + 1]
  BY <1>1
<1>3. \A n \in DOMAIN inbox' :
        n + 1 \in 1 .. Len(inbox) /\ n + 1 # 1 /\ inbox'[n] = inbox[n + 1]
  BY <1>1, <1>2
<1>4. UpMessagesGenuine'
  <2>1. ASSUME NEW n \in DOMAIN inbox'
        PROVE  inbox'[n].id \in Router' /\ inbox'[n].from = port'[inbox'[n].id]
    BY <1>1, <1>3 DEF UpMessagesGenuine, Router
  <2>2. ASSUME NEW n \in DOMAIN inbox', NEW k \in DOMAIN inbox',
               inbox'[n].id = inbox'[k].id
        PROVE  n = k
    <3>1. n + 1 = k + 1
      BY <1>1, <1>3, <2>2 DEF UpMessagesGenuine
    <3> QED
      BY <1>2, <3>1
  <2> QED
    BY <2>1, <2>2 DEF UpMessagesGenuine
<1> QED
  BY <1>2, <1>3, <1>4

LEMMA ReceiveUpStep ==
  ASSUME StartupInv, ReceiveUp
  PROVE  StartupInv'
<1> USE DEF StartupInv
<1> DEFINE m == Head(inbox)
<1>1. /\ pc = "register" /\ received < noOfRouters
      /\ inbox # << >>
      /\ m.id <= MaxRouterID
      /\ inbox' = Tail(inbox)
      /\ whoHaveSendMe' = [whoHaveSendMe EXCEPT ![m.id] = m.from]
      /\ senderCount' = senderCount + 1
      /\ received' = received + 1
      /\ UNCHANGED <<config, pc, forked, state, port, faults>>
  BY DEF ReceiveUp, Acceptable, SaveLastSenderInfo
<1>2. /\ m \in UpMessage /\ m.id \in Router /\ m.from = port[m.id]
      /\ m.id \notin Registered
      /\ \A n \in 1 .. Len(inbox) : n # 1 => inbox[n].id # m.id
  BY <1>1, HeadIsNew
<1>3. /\ UpMessagesGenuine'
      /\ inbox' \in Seq(UpMessage)
      /\ \A n \in DOMAIN inbox' :
           n + 1 \in 1 .. Len(inbox) /\ n + 1 # 1 /\ inbox'[n] = inbox[n + 1]
  BY <1>1, TailGenuine DEF config
<1>4. m.id \in Routers \cap Slot /\ m.from # NULL /\ m.from \in Port
  BY <1>1, <1>2, StartupAssumption DEF StartupAssumption, UpMessage, Routers, Slot
<1> HIDE DEF m
<1>5. TypeOK'
  BY <1>1, <1>3, <1>4 DEF TypeOK, config
<1>6. Registered' = Registered \cup {m.id}
  BY <1>1, <1>4 DEF Registered, TypeOK, Slot, Routers
<1>7. PortsOwned'
  BY <1>1 DEF PortsOwned, Live, config
<1>8. RegisteredAddressIsTheRouters'
  <2> SUFFICES ASSUME NEW r \in Registered'
               PROVE  /\ whoHaveSendMe'[r] = port'[r]
                      /\ \A n \in DOMAIN inbox' : inbox'[n].id # r
    BY DEF RegisteredAddressIsTheRouters
  <2>1. CASE r = m.id
    BY <1>1, <1>2, <1>3, <1>4, <2>1 DEF TypeOK
  <2>2. CASE r # m.id /\ r \in Registered
    <3>1. whoHaveSendMe'[r] = port'[r]
      BY <1>1, <2>2 DEF RegisteredAddressIsTheRouters, Registered, TypeOK
    <3>2. \A n \in 1 .. Len(inbox) : inbox[n].id # r
      BY <2>2 DEF RegisteredAddressIsTheRouters, TypeOK
    <3> QED
      BY <1>3, <3>1, <3>2
  <2> QED
    BY <1>6, <2>1, <2>2
<1>9. RegistrationCounted'
  <2>1. IsFiniteSet(Registered)
    BY RouterRange, FS_Subset DEF RegistrationCounted
  <2>2. Cardinality(Registered') = Cardinality(Registered) + 1
    BY <1>2, <1>6, <2>1, FS_AddElement
  <2>3. Registered' \subseteq Router'
    BY <1>1, <1>2, <1>6 DEF RegistrationCounted, Router, config
  <2> QED
    BY <1>1, <2>2, <2>3 DEF RegistrationCounted
<1>10. AbortsOnlyMisconfigured'
  BY <1>1 DEF AbortsOnlyMisconfigured, CircuitWanted, HopsAllowed, config
<1> QED
  BY <1>3, <1>5, <1>7, <1>8, <1>9, <1>10

\* Of the three assertions only the one on the router's number can fail: a
\* registered router is never heard again and there are slots enough.
LEMMA RejectUpStep ==
  ASSUME StartupInv, RejectUp
  PROVE  StartupInv'
<1> USE DEF StartupInv
<1> DEFINE m == Head(inbox)
<1>1. /\ pc = "register" /\ inbox # << >>
      /\ ~ Acceptable(m)
      /\ pc' = "aborted"
      /\ inbox' = Tail(inbox)
      /\ UNCHANGED <<config, forked, state, port, whoHaveSendMe, senderCount, received,
                     faults>>
  BY DEF RejectUp
<1>2. m \in UpMessage /\ m.id \in Router /\ m.id \notin Registered
  BY <1>1, HeadIsNew
<1>3. /\ UpMessagesGenuine'
      /\ inbox' \in Seq(UpMessage)
      /\ \A n \in DOMAIN inbox' :
           n + 1 \in 1 .. Len(inbox) /\ n + 1 # 1 /\ inbox'[n] = inbox[n + 1]
  BY <1>1, TailGenuine DEF config
<1> HIDE DEF m
<1>4. noOfRouters > MaxRouterID
  <2> SUFFICES ASSUME m.id <= MaxRouterID
               PROVE  FALSE
    <3>1. m.id \in Nat /\ m.id <= noOfRouters /\ noOfRouters \in Nat /\ MaxRouterID \in Nat
      BY <1>2, StartupAssumption DEF StartupAssumption, Router, TypeOK, Routers
    <3> QED
      BY <3>1
  <2>1. m.id \in Routers \cap Slot
    BY <1>2, StartupAssumption DEF StartupAssumption, UpMessage, Routers, Slot
  <2>2. whoHaveSendMe[m.id] = NULL
    BY <1>2, <2>1 DEF Registered
  <2>3. senderCount < MAX_SENDERS
    <3>1. IsFiniteSet(Slot) /\ Cardinality(Slot) = MAX_SENDERS
      BY FS_Interval, StartupAssumption DEF StartupAssumption, Slot
    <3>2. Registered \subseteq Slot /\ Registered # Slot
      BY <1>2, <2>1 DEF Registered
    <3>3. Cardinality(Registered) < Cardinality(Slot)
      <4>1. /\ IsFiniteSet(Registered)
            /\ Cardinality(Registered) <= Cardinality(Slot)
            /\ Cardinality(Registered) # Cardinality(Slot)
        BY <3>1, <3>2, FS_Subset
      <4> QED
        BY <3>1, <4>1, FS_CardinalityType
    <3> QED
      BY <3>1, <3>3 DEF RegistrationCounted
  <2> QED
    BY <1>1, <2>2, <2>3 DEF Acceptable
<1>5. TypeOK'
  BY <1>1, <1>3 DEF TypeOK, config
<1>6. Registered' = Registered
  BY <1>1 DEF Registered, Routers, Slot
<1>7. PortsOwned'
  BY <1>1 DEF PortsOwned, Live, config
<1>8. RegisteredAddressIsTheRouters'
  BY <1>1, <1>3, <1>6 DEF RegisteredAddressIsTheRouters, TypeOK
<1>9. RegistrationCounted'
  BY <1>1, <1>6 DEF RegistrationCounted, Router, config
<1>10. AbortsOnlyMisconfigured'
  BY <1>1, <1>4 DEF AbortsOnlyMisconfigured, config
<1> QED
  BY <1>3, <1>5, <1>7, <1>8, <1>9, <1>10

LEMMA FinishStep ==
  ASSUME StartupInv, FinishRegistration
  PROVE  StartupInv'
<1> USE DEF StartupInv
<1>1. /\ received = noOfRouters
      /\ pc' \in {"done", "aborted", "serving"}
      /\ pc' = "aborted" => CircuitWanted /\ ~ HopsAllowed
      /\ pc' = "serving" /\ CircuitWanted => HopsAllowed
      /\ UNCHANGED <<config, forked, state, port, inbox, whoHaveSendMe, senderCount,
                     received, faults>>
  BY DEF FinishRegistration, AllReceived
<1>2. Registered' = Registered
  BY <1>1 DEF Registered, Routers, Slot
<1>3. TypeOK'
  BY <1>1 DEF TypeOK, config
<1>4. PortsOwned'
  BY <1>1 DEF PortsOwned, Live, config
<1>5. UpMessagesGenuine'
  BY <1>1 DEF UpMessagesGenuine, Router, config
<1>6. RegisteredAddressIsTheRouters'
  BY <1>1, <1>2 DEF RegisteredAddressIsTheRouters
<1>7. RegistrationCounted'
  BY <1>1, <1>2 DEF RegistrationCounted, Router, CircuitWanted, HopsAllowed, config
<1>8. AbortsOnlyMisconfigured'
  BY <1>1 DEF AbortsOnlyMisconfigured, CircuitWanted, HopsAllowed, config
<1> QED
  BY <1>3, <1>4, <1>5, <1>6, <1>7, <1>8

-----------------------------------------------------------------------------
(* The theorems.                                                           *)

\* StartupInv holds throughout every run.
THEOREM StartupInvariant == Spec => []StartupInv
<1>1. Init => StartupInv
  BY StartupInit
<1>2. StartupInv /\ [Next]_vars => StartupInv'
  <2> SUFFICES ASSUME StartupInv, [Next]_vars
               PROVE  StartupInv'
    OBVIOUS
  <2>1. CASE Launcher
    BY <2>1, ForkStep DEF Launcher
  <2>2. CASE ProxyStep
    BY <2>2, ReceiveUpStep, RejectUpStep, FinishStep DEF ProxyStep
  <2>3. CASE Failure
    BY <2>3, ForkStep, RouterQuietStep DEF Failure
  <2>4. CASE \E r \in Routers : RouterStep(r)
    BY <2>4, RouterQuietStep, SendUpStep DEF RouterStep
  <2>5. CASE UNCHANGED vars
    <3>1. Quiet /\ pc' = pc /\ UNCHANGED <<forked, state, faults>>
      BY <2>5 DEF vars, Quiet
    <3>2. TypeOK' /\ PortsOwned'
      BY <3>1 DEF Quiet, config, StartupInv, TypeOK, PortsOwned, Live
    <3> QED
      BY <3>1, <3>2, QuietStep
  <2> QED
    BY <2>1, <2>2, <2>3, <2>4, <2>5 DEF Next
<1> QED
  BY <1>1, <1>2, PTL DEF Spec

\* The variables keep their types.
THEOREM StartupTypes == Spec => []TypeOK
<1>1. StartupInv => TypeOK
  BY DEF StartupInv
<1> QED
  BY <1>1, StartupInvariant, PTL

\* The address the proxy saves for a router is that router's.
THEOREM AddressesAreGenuine == Spec => []RegisteredAddressIsTheRouters
<1>1. StartupInv => RegisteredAddressIsTheRouters
  BY DEF StartupInv
<1> QED
  BY <1>1, StartupInvariant, PTL

\* The proxy serves only when it knows every configured router, and builds a circuit
\* only of as many as there are.
THEOREM ServesKnowingEveryRouter == Spec => []ServingKnowsEveryRouter
<1>1. StartupInv => ServingKnowsEveryRouter
  BY CountedIsComplete DEF StartupInv, RegistrationCounted, ServingKnowsEveryRouter
<1> QED
  BY <1>1, StartupInvariant, PTL

\* Two live routers are never saved under one address.
THEOREM AddressesTellLiveRoutersApart == Spec => []SharedAddressMeansOneGone
<1>1. StartupInv => SharedAddressMeansOneGone
  <2> SUFFICES ASSUME StartupInv, NEW r \in Registered, NEW q \in Registered,
                      r # q, whoHaveSendMe[r] = whoHaveSendMe[q], Live(r), Live(q)
               PROVE  FALSE
    BY DEF SharedAddressMeansOneGone
  <2>1. r \in Routers /\ q \in Routers /\ whoHaveSendMe[r] # NULL
    BY DEF Registered
  <2>2. port[r] = port[q] /\ port[r] # NULL
    BY <2>1 DEF StartupInv, RegisteredAddressIsTheRouters
  <2> QED
    BY <2>1, <2>2 DEF StartupInv, PortsOwned
<1> QED
  BY <1>1, StartupInvariant, PTL

\* The proxy's assertions fail only for a configuration that asks for it.
THEOREM AssertionsHold == Spec => []AbortsOnlyMisconfigured
<1>1. StartupInv => AbortsOnlyMisconfigured
  BY DEF StartupInv
<1> QED
  BY <1>1, StartupInvariant, PTL

\* While a router is lost the proxy does not go on to serve.
THEOREM LossBlocksService == Spec => LostRouterBlocksService
<1>1. StartupInv /\ [Next]_vars =>
        [\A r \in Router : Lost(r) => pc' \notin {"serving", "done"}]_vars
  <2> SUFFICES ASSUME StartupInv, Next, NEW r \in Router, Lost(r),
                      pc' \in {"serving", "done"}
               PROVE  FALSE
    BY DEF vars
  <2>1. r \in Routers
    BY RouterRange DEF StartupInv
  <2>2. port[r] = NULL
    BY <2>1 DEF StartupInv, PortsOwned, Lost
  <2>3. r \notin Registered
    BY <2>2 DEF StartupInv, RegisteredAddressIsTheRouters, Registered
  <2>4. received # noOfRouters
    BY <2>3, CountedIsComplete DEF StartupInv
  <2>5. pc \notin {"serving", "done"}
    BY <2>4 DEF StartupInv, RegistrationCounted
  <2>6. FinishRegistration
    BY <2>5 DEF Next, Launcher, ProxyStep, Failure, RouterStep, Fork, ForkFails,
                BecomeProxy, BindRaw, BindRawFails, SendUp, Die, ReceiveUp, RejectUp
  <2> QED
    BY <2>4, <2>6 DEF FinishRegistration, AllReceived
<1> QED
  BY <1>1, StartupInvariant, PTL DEF Spec, LostRouterBlocksService
=============================================================================
