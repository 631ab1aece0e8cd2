----------------------- MODULE GatewayAdmissionProofs -----------------------
(***************************************************************************)
(* What GatewayAdmission guarantees for any set of tenants and any number  *)
(* of changes of the file: the map of admitted tenants is sound at every   *)
(* step of an application, and the pipeline implements AdmissionRegister.  *)
(***************************************************************************)
EXTENDS GatewayAdmission, TLAPS

\* The newest configuration that the applier has taken, that has reached
\* updates, and that the forwarder has been handed.
Taken == IF applier.pc = "apply" THEN applier.cfg ELSE marker
Buffered == IF updates # 0 THEN updates ELSE Taken
Handed == IF forwarder.pc = "send" THEN forwarder.cfg ELSE Buffered

\* Configurations are strictly newer the further they are from the applier:
\* nothing is overtaken, and nothing is handed on twice.
Chain ==
    /\ applier.pc = "apply" => applier.old < applier.cfg
    /\ updates # 0 => Taken < updates
    /\ forwarder.pc = "send" => Buffered < forwarder.cfg
    /\ watcher = "send" => Handed < loaded
    /\ Handed <= loaded

-----------------------------------------------------------------------------
(* The file.                                                               *)

\* A configuration keeps its place and its list when the file changes.
LEMMA FileGrows ==
    ASSUME TypeOK, NEW c \in Contents, EditFile(c)
    PROVE  /\ hist' \in Seq(Contents) /\ hist' # <<>>
           /\ Configs \subseteq Configs'
           /\ \A i \in Configs \cup {0} : ListOf(i)' = ListOf(i)
<1>1. hist \in Seq(Contents) /\ hist' = Append(hist, c)
  BY DEF TypeOK, EditFile
<1>2. /\ Len(hist') = Len(hist) + 1
      /\ \A i \in 1..Len(hist) : hist'[i] = hist[i]
      /\ hist' \in Seq(Contents) /\ hist' # <<>>
  BY <1>1
<1>3. Configs \subseteq Configs'
  BY <1>1, <1>2 DEF Configs
<1>4. \A i \in Configs \cup {0} : (IF i = 0 THEN {} ELSE hist'[i]) = ListOf(i)
  BY <1>2 DEF Configs, ListOf
<1> QED
  BY <1>2, <1>3, <1>4 DEF ListOf

\* What refresh loads is a configuration, and one that was not loaded before.
LEMMA LoadsNewer ==
    ASSUME TypeOK, Changed
    PROVE  Len(hist) \in Configs /\ loaded < Len(hist)
<1>1. hist \in Seq(Contents) /\ hist # <<>> /\ Len(hist) \in Nat /\ Len(hist) # 0
  BY DEF TypeOK
<1>2. Len(hist) \in Configs
  BY <1>1 DEF Changed, File, Configs
<1>3. loaded \in Nat /\ loaded <= Len(hist) /\ loaded # Len(hist)
  BY <1>1 DEF TypeOK, Changed, File, Configs
<1> QED
  BY <1>1, <1>2, <1>3

LEMMA ConfigsAreNat == Configs \subseteq Nat \ {0}
BY DEF Configs

-----------------------------------------------------------------------------
(* Type correctness.                                                       *)

LEMMA InitType == Init => TypeOK
<1> SUFFICES ASSUME Init PROVE TypeOK
  OBVIOUS
<1>1. PICK c \in SUBSET Tenants : hist = <<c>>
  BY DEF Init
<1>2. hist \in Seq(Contents) /\ hist # <<>>
  BY <1>1 DEF Contents
<1> QED
  BY <1>2 DEF Init, TypeOK, Phases

LEMMA NextType == TypeOK /\ [Next]_vars => TypeOK'
<1> SUFFICES ASSUME TypeOK, [Next]_vars PROVE TypeOK'
  OBVIOUS
<1>1. ASSUME NEW c \in Contents, EditFile(c) PROVE TypeOK'
  <2>1. Configs \subseteq Configs' /\ hist' \in Seq(Contents) /\ hist' # <<>>
    BY <1>1, FileGrows
  <2>2. Contents' = Contents
    BY DEF Contents
  <2> QED
    BY <1>1, <2>1, <2>2 DEF EditFile, pipeline, admission, TypeOK
<1>2. CASE Refresh
  <2>1. Configs' = Configs
    BY <1>2 DEF Refresh, Configs
  <2>2. CASE Changed
    <3>1. Len(hist) \in Configs /\ Len(hist) # 0
      BY <2>2, LoadsNewer, ConfigsAreNat
    <3> QED
      BY <1>2, <2>1, <2>2, <3>1 DEF Refresh, admission, TypeOK
  <2>3. CASE ~Changed
    BY <1>2, <2>1, <2>3 DEF Refresh, admission, TypeOK
  <2> QED
    BY <2>2, <2>3
<1>3. CASE UNCHANGED hist /\ ~Refresh
  <2>1. Configs' = Configs
    BY <1>3 DEF Configs
  <2>2. CASE Terminate
    BY <2>1, <2>2 DEF Terminate, pipeline, admission, TypeOK, Phases
  <2>3. CASE InterruptForwarder
    BY <2>1, <2>3 DEF InterruptForwarder, pipeline, admission, TypeOK, Phases
  <2>4. CASE InterruptApplier
    BY <2>1, <2>4 DEF InterruptApplier, pipeline, admission, TypeOK, Phases
  <2>5. CASE HandOver
    BY <2>1, <2>5 DEF HandOver, admission, TypeOK
  <2>6. CASE AbandonSend
    BY <2>1, <2>6 DEF AbandonSend, admission, TypeOK
  <2>7. CASE WatcherStop
    BY <2>1, <2>7 DEF WatcherStop, admission, TypeOK
  <2>8. CASE Forward
    BY <2>1, <2>8 DEF Forward, admission, TypeOK
  <2>9. CASE ForwarderStop
    BY <2>1, <2>9 DEF ForwarderStop, admission, TypeOK
  <2>10. CASE Receive
    BY <2>1, <2>10 DEF Receive, TypeOK
  <2>11. ASSUME NEW t \in Tenants, AddKey(t) PROVE TypeOK'
    BY <2>1, <2>11 DEF AddKey, pipeline, TypeOK
  <2>12. ASSUME NEW t \in Tenants, RemoveKey(t) PROVE TypeOK'
    BY <2>1, <2>12 DEF RemoveKey, pipeline, TypeOK
  <2>13. CASE Applied
    BY <2>1, <2>13 DEF Applied, pipeline, TypeOK
  <2>14. CASE ApplierStop
    BY <2>1, <2>14 DEF ApplierStop, pipeline, TypeOK
  <2>15. CASE UNCHANGED vars
    BY <2>1, <2>15 DEF vars, pipeline, admission, TypeOK
  <2> QED
    BY <1>3, <2>2, <2>3, <2>4, <2>5, <2>6, <2>7, <2>8, <2>9, <2>10, <2>11, <2>12,
       <2>13, <2>14, <2>15 DEF Next, System, EditFile
<1> QED
  <2>1. CASE \E c \in Contents : EditFile(c)
    BY <1>1, <2>1
  <2>2. CASE ~\E c \in Contents : EditFile(c)
    <3>1. UNCHANGED hist
      BY <2>2 DEF Next, System, Terminate, InterruptForwarder, InterruptApplier, Refresh,
             HandOver, AbandonSend, WatcherStop, Forward, ForwarderStop, Receive,
             AddKey, RemoveKey, Applied, ApplierStop, vars
    <3> QED
      BY <1>2, <1>3, <3>1
  <2> QED
    BY <2>1, <2>2

\* Indices always name valid configurations that the file has held, and a
\* goroutine that has a configuration to send or to apply really holds one:
\* what loadConfig rejects travels nowhere.
THEOREM GatewayTypeCorrect == Spec => []TypeOK
<1> QED
  BY InitType, NextType, PTL DEF Spec

-----------------------------------------------------------------------------
(* The admission map.                                                      *)

LEMMA InitSteady == Init => AdmissionSteady
BY DEF Init, AdmissionSteady, ListOf

\* Steps that leave the applier and the map alone keep the invariant.
LEMMA SteadyElsewhere ==
    ASSUME AdmissionSteady, TypeOK,
           UNCHANGED admission,
           \A i \in Configs \cup {0} : ListOf(i)' = ListOf(i)
    PROVE  AdmissionSteady'
<1>1. /\ UNCHANGED <<applier, marker, keys, ready>>
      /\ {applier.old, applier.cfg, marker} \subseteq Configs \cup {0}
  BY DEF admission, TypeOK
<1>2. /\ (IF applier'.old = 0 THEN {} ELSE hist'[applier'.old]) = ListOf(applier.old)
      /\ (IF applier'.cfg = 0 THEN {} ELSE hist'[applier'.cfg]) = ListOf(applier.cfg)
      /\ (IF marker' = 0 THEN {} ELSE hist'[marker']) = ListOf(marker)
  BY <1>1 DEF ListOf
<1> QED
  BY <1>1, <1>2 DEF AdmissionSteady, ListOf

LEMMA NextSteady == TypeOK /\ AdmissionSteady /\ [Next]_vars => AdmissionSteady'
<1> SUFFICES ASSUME TypeOK, AdmissionSteady, [Next]_vars PROVE AdmissionSteady'
  OBVIOUS
<1>1. ASSUME NEW c \in Contents, EditFile(c) PROVE AdmissionSteady'
  BY <1>1, FileGrows, SteadyElsewhere DEF EditFile
<1>2. ASSUME UNCHANGED <<hist, admission>> PROVE AdmissionSteady'
  BY <1>2, SteadyElsewhere DEF ListOf
<1>3. CASE Receive
  <2>1. marker \in Configs \cup {0} /\ updates # 0 /\ updates \in Configs
    BY <1>3 DEF Receive, TypeOK
  <2>2. /\ applier'.pc = "apply" /\ applier'.old = marker /\ keys' = keys
        /\ hist' = hist /\ ready' = ready
        /\ marker' = IF marker = 0 THEN updates ELSE marker
    BY <1>3 DEF Receive
  <2>3. keys = ListOf(marker) /\ (ready => marker # 0)
    BY <1>3 DEF AdmissionSteady, Receive
  <2> QED
    BY <2>1, <2>2, <2>3 DEF AdmissionSteady, ListOf
<1>4. ASSUME NEW t \in Tenants, AddKey(t) PROVE AdmissionSteady'
  BY <1>4 DEF AddKey, AdmissionSteady, ToAdd, ListOf
<1>5. ASSUME NEW t \in Tenants, RemoveKey(t) PROVE AdmissionSteady'
  BY <1>5 DEF RemoveKey, AdmissionSteady, ToRemove, ListOf
<1>6. CASE Applied
  \* Nothing is left to add or to remove: what is stored is the new list.
  <2>1. keys = ListOf(applier.cfg)
    BY <1>6 DEF Applied, AdmissionSteady, ToAdd, ToRemove
  <2>2. applier.cfg # 0
    BY <1>6 DEF Applied, TypeOK
  <2> QED
    BY <1>6, <2>1, <2>2 DEF Applied, AdmissionSteady, ListOf
<1>7. CASE ApplierStop
  <2>1. /\ applier.pc = "idle" /\ applier'.pc = "done"
        /\ UNCHANGED <<hist, marker, keys, ready>>
    BY <1>7 DEF ApplierStop, TypeOK
  <2> QED
    BY <2>1 DEF AdmissionSteady, ListOf
<1> QED
  BY <1>1, <1>2, <1>3, <1>4, <1>5, <1>6, <1>7
     DEF Next, System, Terminate, InterruptForwarder, InterruptApplier, Refresh, HandOver,
         AbandonSend, WatcherStop, Forward, ForwarderStop, vars

\* At no moment of SetAdmissionControlHandler is a tenant of both the old and
\* the new configuration refused or one of neither admitted, for any lists.
THEOREM SteadyHolds == Spec => []AdmissionSteady
<1> QED
  BY InitType, NextType, InitSteady, NextSteady, PTL DEF Spec

-----------------------------------------------------------------------------
(* Nothing is overtaken.                                                   *)

LEMMA InitChain == Init => Chain
BY DEF Init, Chain, Taken, Buffered, Handed

\* In a state that has its types every index is a number.
LEMMA IndicesAreNat ==
    ASSUME TypeOK
    PROVE  /\ loaded \in Nat /\ updates \in Nat /\ marker \in Nat
           /\ forwarder.cfg \in Nat /\ applier.cfg \in Nat /\ applier.old \in Nat
           /\ Taken \in Nat /\ Buffered \in Nat /\ Handed \in Nat
<1>1. Configs \cup {0} \subseteq Nat
  BY ConfigsAreNat
<1>2. /\ loaded \in Nat /\ updates \in Nat /\ marker \in Nat
      /\ forwarder.cfg \in Nat /\ applier.cfg \in Nat /\ applier.old \in Nat
  BY <1>1 DEF TypeOK
<1> QED
  BY <1>2 DEF Taken, Buffered, Handed

LEMMA NextChain == TypeOK /\ Chain /\ [Next]_vars => Chain'
<1> SUFFICES ASSUME TypeOK, Chain, [Next]_vars PROVE Chain'
  OBVIOUS
<1> USE IndicesAreNat
<1>1. CASE UNCHANGED <<pipeline, applier, marker>>
  BY <1>1 DEF pipeline, Chain, Taken, Buffered, Handed
<1>2. CASE Refresh
  <2>1. UNCHANGED <<forwarder, updates, applier, marker>>
    BY <1>2 DEF Refresh, admission
  <2>2. CASE Changed
    <3>1. loaded < loaded' /\ loaded' \in Nat
      BY <1>2, <2>2, LoadsNewer, ConfigsAreNat DEF Refresh
    <3> QED
      BY <2>1, <3>1 DEF Chain, Taken, Buffered, Handed
  <2>3. CASE ~Changed
    BY <1>2, <2>1, <2>3 DEF Refresh, Chain, Taken, Buffered, Handed
  <2> QED
    BY <2>2, <2>3
<1>3. CASE HandOver
  BY <1>3 DEF HandOver, admission, Chain, Taken, Buffered, Handed
<1>4. CASE AbandonSend \/ WatcherStop
  BY <1>4 DEF AbandonSend, WatcherStop, admission, Chain, Taken, Buffered, Handed
<1>5. CASE Forward
  <2>1. forwarder.cfg # 0
    BY <1>5 DEF Forward, TypeOK
  <2> QED
    BY <1>5, <2>1 DEF Forward, admission, Chain, Taken, Buffered, Handed
<1>6. CASE ForwarderStop
  <2>1. forwarder.pc = "recv" /\ forwarder'.pc = "done"
    BY <1>6 DEF ForwarderStop, TypeOK
  <2> QED
    BY <1>6, <2>1 DEF ForwarderStop, admission, Chain, Taken, Buffered, Handed
<1>7. CASE Receive
  BY <1>7 DEF Receive, Chain, Taken, Buffered, Handed
<1>8. CASE Applied
  BY <1>8 DEF Applied, pipeline, Chain, Taken, Buffered, Handed
<1>9. CASE ApplierStop
  <2>1. applier.pc = "idle" /\ applier'.pc = "done"
    BY <1>9 DEF ApplierStop, TypeOK
  <2> QED
    BY <1>9, <2>1 DEF ApplierStop, pipeline, Chain, Taken, Buffered, Handed
<1> QED
  BY <1>1, <1>2, <1>3, <1>4, <1>5, <1>6, <1>7, <1>8, <1>9
     DEF Next, System, EditFile, Terminate, InterruptForwarder, InterruptApplier,
         AddKey, RemoveKey, vars, admission

-----------------------------------------------------------------------------
(* The register.                                                           *)

LEMMA InitRegister == Init => Register!Init
BY DEF Init, Register!Init, InForce

\* Only the end of an application moves the register, and by Chain it moves on.
LEMMA NextRegister ==
    TypeOK /\ Chain /\ [Next]_vars => [Register!Next]_<<hist, InForce>>
<1> SUFFICES ASSUME TypeOK, Chain, [Next]_vars
             PROVE  Register!Next \/ UNCHANGED <<hist, InForce>>
  OBVIOUS
<1>1. ASSUME NEW c \in Contents, EditFile(c) PROVE Register!Write
  BY <1>1 DEF EditFile, admission, Register!Write, Register!Contents, Contents, InForce
<1>2. ASSUME UNCHANGED <<hist, applier, marker>> PROVE UNCHANGED <<hist, InForce>>
  BY <1>2 DEF InForce
<1>3. CASE Receive
  BY <1>3 DEF Receive, InForce
<1>4. CASE Applied
  <2>1. /\ InForce = applier.old /\ InForce' = applier.cfg
        /\ applier.old < applier.cfg /\ hist' = hist
    BY <1>4 DEF Applied, InForce, Chain
  <2>2. applier.cfg \in Configs
    BY <1>4 DEF Applied, TypeOK
  <2>3. Register!Apply
    BY <2>1, <2>2 DEF Register!Apply, Configs
  <2> QED
    BY <2>3 DEF Register!Next
<1>5. CASE ApplierStop
  <2>1. applier.pc = "idle" /\ applier'.pc = "done" /\ UNCHANGED <<hist, marker>>
    BY <1>5 DEF ApplierStop, TypeOK
  <2> QED
    BY <2>1 DEF InForce
<1> QED
  BY <1>1, <1>2, <1>3, <1>4, <1>5
     DEF Next, System, Terminate, InterruptForwarder, InterruptApplier, Refresh, HandOver,
         AbandonSend, WatcherStop, Forward, ForwarderStop, AddKey, RemoveKey, vars,
         pipeline, admission, Register!Next

\* The two channels, the buffer and the hash together deliver configurations in
\* the order of the file: the gateway implements the admission register.
THEOREM RegisterImplemented == Spec => ImplementsRegister
<1>1. Init => TypeOK /\ Chain /\ Register!Init
  BY InitType, InitChain, InitRegister
<1> QED
  BY <1>1, NextType, NextChain, NextRegister, PTL
     DEF Spec, ImplementsRegister, Register!Spec
=============================================================================
