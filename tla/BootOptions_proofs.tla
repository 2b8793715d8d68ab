-------------------------- MODULE BootOptions_proofs --------------------------
(***************************************************************************)
(* Proofs about BootOptions, for any devices and any number of requests,   *)
(* failures and resets.                                                    *)
(*                                                                         *)
(* The bounds on what the firmware does are not inductive: a request is    *)
(* served later than it is made.  The invariant also counts the requests   *)
(* still to be served: the one the BMC holds, and the one a routine has    *)
(* read and is about to serve when the BMC no longer holds it, because an  *)
(* administrator wrote since (raced) or because the flags were written     *)
(* back already.                                                           *)
(***************************************************************************)
EXTENDS BootOptions, TLAPS

One(p) == IF p THEN 1 ELSE 0

OneShot(f) == f.valid /\ ~ f.persistent

\* A write the administrator made since the flags were read is the only way in
\* which a routine's copy differs from what the BMC holds.
CopyInv ==
  /\ pc \in {"cmosSet", "deviceSet"} /\ ~ raced => flags = FlagsData
  /\ pc = "cmosSet" => FlagsData.CmosClear
  /\ pc = "deviceSet" => OneShot(FlagsData)

SelectorInv ==
  pc \in {"cmosCheck", "cmosGet", "cmosSet", "clearCmos", "deviceCheck", "deviceGet"}
    => Selector = BootNone

\* A CMOS clear under way that the BMC's flags no longer ask for.
CmosTaken == pc = "clearCmos" \/ (pc = "cmosSet" /\ raced)

CmosInv ==
  cmosClears + One(flags.CmosClear) + One(CmosTaken) <= cmosRequests + setFailures

\* A one-shot boot under way, or a one-shot request about to be written back,
\* that the BMC's flags no longer ask for.
OneShotTaken ==
  \/ pc = "cmosSet" /\ raced /\ OneShot(FlagsData)
  \/ pc = "deviceSet" /\ raced
  \/ pc \in {"deviceAck", "boot"} /\ Selector # BootNone /\ ~ FlagsData.persistent

OneShotInv ==
  oneShotBoots + One(OneShot(flags)) + One(OneShotTaken) <= oneShotRequests + setFailures

IInv == TypeOK /\ CopyInv /\ SelectorInv /\ CmosInv /\ OneShotInv
-------------------------------------------------------------------------------
\* The flags the firmware writes are flags, and ask for less than was read.
LEMMA FlagFacts ==
  ASSUME TypeOK
  PROVE  /\ ZeroFlags \in Flags /\ ~ ZeroFlags.CmosClear /\ ~ OneShot(ZeroFlags)
         /\ ZeroFlags.device = BootNone
         /\ FlagsWithoutCmos \in Flags /\ ~ FlagsWithoutCmos.CmosClear
         /\ OneShot(FlagsWithoutCmos) <=> OneShot(FlagsData)
         /\ GotFlags \in Flags
         /\ GotFlags.valid => GotFlags = flags
         /\ GotFlags.CmosClear => GotFlags = flags
         /\ ~ GotFlags.valid => GotFlags.device = BootNone
BY DEF TypeOK, Flags, ZeroFlags, FlagsWithoutCmos, GotFlags, BmcBootFlags, OneShot

\* What a Set can leave in the BMC.
LEMMA SetFacts ==
  ASSUME TypeOK, NEW data \in Flags, SetBootFlags(data)
  PROVE  /\ setFailures' \in 0..failures' /\ failures' \in 0..MaxFailures
         /\ flags' \in Flags
         /\ \/ flags' = data /\ setFailures' \in {setFailures, setFailures + 1}
            \/ flags' = flags /\ setFailures' = setFailures + 1
BY BoundAssumption DEF TypeOK, SetBootFlags, CommandFails, BmcSetBootFlags

\* The counters are numbers.
LEMMA NumberFacts ==
  ASSUME TypeOK
  PROVE  /\ cmosClears \in Nat /\ oneShotBoots \in Nat
         /\ cmosRequests \in Nat /\ oneShotRequests \in Nat /\ requests \in Nat
         /\ setFailures \in Nat /\ failures \in Nat /\ resets \in Nat
BY BoundAssumption DEF TypeOK

\* Nothing was asked and nothing done.
LEMMA InitHolds == Init => IInv
<1> SUFFICES ASSUME Init PROVE IInv
  OBVIOUS
<1>1. TypeOK
  <2>1. ZeroFlags \in Flags
    BY DEF Flags, ZeroFlags
  <2>2. 0 \in 0..MaxRequests /\ 0 \in 0..MaxFailures /\ 0 \in 0..MaxResets /\ 0 \in 0..0
    BY BoundAssumption
  <2> QED
    BY <2>1, <2>2 DEF Init, TypeOK
<1>2. CopyInv /\ SelectorInv
  BY DEF Init, CopyInv, SelectorInv
<1>3. CmosInv /\ OneShotInv
  BY DEF Init, CmosInv, OneShotInv, CmosTaken, OneShotTaken, One, OneShot, ZeroFlags
<1> QED
  BY <1>1, <1>2, <1>3 DEF IInv

\* Either routine's look at set in progress.
LEMMA CheckHolds ==
  ASSUME IInv, CmosCheck \/ DeviceCheck
  PROVE  IInv'
<1> USE DEF CmosCheck, DeviceCheck, CheckSetInProgress, CommandFails, asked, done
<1>1. TypeOK'
  BY BoundAssumption DEF IInv, TypeOK
<1>2. CopyInv' /\ SelectorInv'
  BY DEF IInv, CopyInv, SelectorInv
<1>3. ~ CmosTaken' /\ ~ OneShotTaken'
  BY DEF IInv, SelectorInv, CmosTaken, OneShotTaken
<1>4. UNCHANGED <<cmosClears, oneShotBoots, flags, cmosRequests, oneShotRequests, setFailures>>
  OBVIOUS
<1>5. CmosInv' /\ OneShotInv'
  BY <1>3, <1>4, NumberFacts DEF IInv, CmosInv, OneShotInv, One, OneShot
<1> QED
  BY <1>1, <1>2, <1>5 DEF IInv

\* The CMOS module reads the flags.
LEMMA CmosGetHolds ==
  ASSUME IInv, CmosGet
  PROVE  IInv'
<1> USE DEF CmosGet, CommandFails, asked, done
<1>0. TypeOK
  BY DEF IInv
<1>1. TypeOK'
  <2>1. failures' \in 0..MaxFailures /\ setFailures' \in 0..failures'
    BY <1>0, NumberFacts, BoundAssumption DEF TypeOK
  <2>2. FlagsData' \in Flags /\ raced' \in BOOLEAN
    BY <1>0, FlagFacts DEF TypeOK
  <2>3. pc' \in {"cmosSet", "deviceCheck"}
    OBVIOUS
  <2>4. UNCHANGED <<Selector, flags, setInProgress, cmosRequests, oneShotRequests, requests,
                    cmosClears, oneShotBoots, resets>>
    OBVIOUS
  <2> QED
    BY <1>0, <2>1, <2>2, <2>3, <2>4 DEF TypeOK
<1>2. CopyInv' /\ SelectorInv'
  BY <1>0, FlagFacts DEF IInv, CopyInv, SelectorInv
<1>3. ~ CmosTaken' /\ ~ OneShotTaken'
  BY DEF CmosTaken, OneShotTaken
<1>4. UNCHANGED <<cmosClears, oneShotBoots, flags, cmosRequests, oneShotRequests, setFailures>>
  OBVIOUS
<1>5. CmosInv' /\ OneShotInv'
  BY <1>0, <1>3, <1>4, NumberFacts DEF IInv, CmosInv, OneShotInv, One, OneShot
<1> QED
  BY <1>1, <1>2, <1>5 DEF IInv

\* The CMOS module writes the flags back: the request it read is now the clear
\* under way, and a Set that is lost leaves it in the BMC as well.
LEMMA CmosSetHolds ==
  ASSUME IInv, CmosSet
  PROVE  IInv'
<1> USE DEF CmosSet, asked, done
<1>0. TypeOK
  BY DEF IInv
<1>a. UNCHANGED <<FlagsData, Selector, setInProgress, cmosRequests, oneShotRequests, requests,
                  cmosClears, oneShotBoots, resets, raced>>
  OBVIOUS
<1>b. pc = "cmosSet" /\ pc' = "clearCmos"
  OBVIOUS
<1>c. /\ setFailures' \in 0..failures' /\ failures' \in 0..MaxFailures
      /\ flags' \in Flags
      /\ \/ flags' = FlagsWithoutCmos /\ setFailures' \in {setFailures, setFailures + 1}
         \/ flags' = flags /\ setFailures' = setFailures + 1
  BY <1>0, FlagFacts, SetFacts
<1>1. TypeOK'
  BY <1>0, <1>a, <1>b, <1>c DEF TypeOK
<1>2. CopyInv' /\ SelectorInv'
  BY <1>a, <1>b DEF IInv, CopyInv, SelectorInv
<1>3. CmosTaken' /\ ~ OneShotTaken'
  BY <1>b DEF CmosTaken, OneShotTaken
<1>4. ~ raced => ~ CmosTaken /\ ~ OneShotTaken /\ flags = FlagsData /\ flags.CmosClear
  BY <1>b DEF IInv, CopyInv, CmosTaken, OneShotTaken
<1>5. raced => CmosTaken /\ (OneShotTaken <=> OneShot(FlagsData))
  BY <1>b DEF CmosTaken, OneShotTaken
<1>6. CmosInv'
  <2>1. /\ One(flags.CmosClear) \in {0, 1} /\ One(CmosTaken) \in {0, 1}
        /\ One(flags.CmosClear)' \in {0, 1} /\ One(CmosTaken)' = 1
    BY <1>3 DEF One
  <2>2. One(flags.CmosClear) = 1 \/ One(CmosTaken) = 1
    BY <1>4, <1>5 DEF One
  <2>3. CASE ~ flags'.CmosClear
    <3>1. One(flags.CmosClear)' = 0
      BY <2>3 DEF One
    <3>2. setFailures' >= setFailures /\ setFailures' \in Nat
      BY <1>0, <1>c, NumberFacts
    <3> QED
      BY <1>0, <1>a, <2>1, <2>2, <3>1, <3>2, NumberFacts DEF IInv, CmosInv
  <2>4. CASE flags' = flags /\ setFailures' = setFailures + 1
    <3>1. One(flags.CmosClear)' = One(flags.CmosClear)
      BY <2>4 DEF One
    <3> QED
      BY <1>0, <1>a, <2>1, <2>2, <2>4, <3>1, NumberFacts DEF IInv, CmosInv
  <2> QED
    BY <1>0, <1>c, <2>3, <2>4, FlagFacts
<1>7. OneShotInv'
  <2>1. \/ OneShot(flags)' = OneShot(flags)
        \/ OneShot(flags)' = OneShot(FlagsData)
    BY <1>0, <1>c, FlagFacts DEF OneShot
  <2>2. One(OneShot(flags))' <= One(OneShot(flags)) + One(OneShotTaken)
    BY <1>4, <1>5, <2>1 DEF One
  <2>3. One(OneShotTaken)' = 0
    BY <1>3 DEF One
  <2>4. setFailures' >= setFailures /\ setFailures' \in Nat
    BY <1>0, <1>c, NumberFacts
  <2>5. One(OneShot(flags)) \in Nat /\ One(OneShotTaken) \in Nat /\ One(OneShot(flags))' \in Nat
    BY DEF One
  <2> QED
    BY <1>0, <1>a, <2>2, <2>3, <2>4, <2>5, NumberFacts DEF IInv, OneShotInv
<1> QED
  BY <1>1, <1>2, <1>6, <1>7 DEF IInv

\* The clear itself: done at most once for what was taken.
LEMMA ClearCmosHolds ==
  ASSUME IInv, ClearCmos
  PROVE  IInv'
<1> USE DEF ClearCmos, asked, mishaps
<1>0. TypeOK
  BY DEF IInv
<1>1. TypeOK'
  BY <1>0, FlagFacts, NumberFacts DEF TypeOK
<1>2. CopyInv' /\ SelectorInv'
  BY DEF IInv, CopyInv, SelectorInv
<1>3. CmosTaken /\ ~ CmosTaken' /\ ~ OneShotTaken'
  BY DEF CmosTaken, OneShotTaken
<1>4. CmosInv' /\ OneShotInv'
  BY <1>0, <1>3, NumberFacts DEF IInv, CmosInv, OneShotInv, One, OneShot
<1> QED
  BY <1>1, <1>2, <1>4 DEF IInv

\* IpmiGetBootDevice reads the flags.
LEMMA DeviceGetHolds ==
  ASSUME IInv, DeviceGet
  PROVE  IInv'
<1> USE DEF DeviceGet, CommandFails, asked, done
<1>0. TypeOK
  BY DEF IInv
<1>1. TypeOK'
  <2>1. GotFlags.device \in Devices \cup {BootNone}
    BY <1>0, FlagFacts DEF Flags
  <2>2. failures' \in 0..MaxFailures /\ setFailures' \in 0..failures'
    BY <1>0, NumberFacts, BoundAssumption DEF TypeOK
  <2>3. FlagsData' \in Flags /\ raced' \in BOOLEAN /\ Selector' \in Devices \cup {BootNone}
    BY <1>0, <2>1, FlagFacts DEF TypeOK
  <2>4. pc' \in {"deviceSet", "deviceAck", "boot"}
    OBVIOUS
  <2>5. UNCHANGED <<flags, setInProgress, cmosRequests, oneShotRequests, requests,
                    cmosClears, oneShotBoots, resets>>
    OBVIOUS
  <2> QED
    BY <1>0, <2>2, <2>3, <2>4, <2>5 DEF TypeOK
<1>2. CopyInv' /\ SelectorInv'
  BY <1>0, FlagFacts DEF IInv, CopyInv, SelectorInv, OneShot
<1>3. ~ CmosTaken' /\ ~ OneShotTaken'
  BY <1>0, FlagFacts DEF CmosTaken, OneShotTaken
<1>4. UNCHANGED <<cmosClears, oneShotBoots, flags, cmosRequests, oneShotRequests, setFailures>>
  OBVIOUS
<1>5. CmosInv' /\ OneShotInv'
  BY <1>0, <1>3, <1>4, NumberFacts DEF IInv, CmosInv, OneShotInv, One, OneShot
<1> QED
  BY <1>1, <1>2, <1>5 DEF IInv

\* IpmiGetBootDevice zeroes the flags it read: the request is now the boot
\* under way, and a Set that is lost leaves it in the BMC as well.
LEMMA DeviceSetHolds ==
  ASSUME IInv, DeviceSet
  PROVE  IInv'
<1> USE DEF DeviceSet, asked, done
<1>0. TypeOK
  BY DEF IInv
<1>a. UNCHANGED <<FlagsData, Selector, setInProgress, cmosRequests, oneShotRequests, requests,
                  cmosClears, oneShotBoots, resets, raced>>
  OBVIOUS
<1>b. pc = "deviceSet" /\ pc' = "deviceAck"
  OBVIOUS
<1>c. /\ setFailures' \in 0..failures' /\ failures' \in 0..MaxFailures
      /\ flags' \in Flags
      /\ \/ flags' = ZeroFlags /\ setFailures' \in {setFailures, setFailures + 1}
         \/ flags' = flags /\ setFailures' = setFailures + 1
  BY <1>0, FlagFacts, SetFacts
<1>1. TypeOK'
  BY <1>0, <1>a, <1>b, <1>c DEF TypeOK
<1>2. CopyInv' /\ SelectorInv'
  BY <1>a, <1>b DEF IInv, CopyInv, SelectorInv
<1>3. ~ CmosTaken /\ ~ CmosTaken'
  BY <1>b DEF CmosTaken
<1>4. OneShotTaken \/ OneShot(flags)
  BY <1>b DEF IInv, CopyInv, OneShotTaken
<1>5. CmosInv'
  <2>1. flags' = flags \/ ~ flags'.CmosClear
    BY <1>0, <1>c, FlagFacts
  <2> QED
    BY <1>0, <1>a, <1>c, <1>3, <2>1, NumberFacts DEF IInv, CmosInv, One
<1>6. OneShotInv'
  <2>1. OneShotTaken => One(OneShotTaken) = 1
    BY DEF One
  <2>2. /\ One(OneShot(flags)) \in {0, 1} /\ One(OneShotTaken) \in {0, 1}
        /\ One(OneShot(flags))' \in {0, 1} /\ One(OneShotTaken)' \in {0, 1}
    BY DEF One
  <2>3. One(OneShotTaken) = 1 \/ One(OneShot(flags)) = 1
    BY <1>4 DEF One
  <2>4. CASE flags' = ZeroFlags /\ setFailures' \in {setFailures, setFailures + 1}
    <3>1. One(OneShot(flags))' = 0
      BY <1>0, <2>4, FlagFacts DEF One, OneShot
    <3> QED
      BY <1>0, <1>a, <2>2, <2>3, <2>4, <3>1, NumberFacts DEF IInv, OneShotInv
  <2>5. CASE flags' = flags /\ setFailures' = setFailures + 1
    <3>1. One(OneShot(flags))' = One(OneShot(flags))
      BY <2>5 DEF One, OneShot
    <3> QED
      BY <1>0, <1>a, <2>2, <2>3, <2>5, <3>1, NumberFacts DEF IInv, OneShotInv
  <2> QED
    BY <1>c, <2>4, <2>5
<1> QED
  BY <1>1, <1>2, <1>5, <1>6 DEF IInv

\* The acknowledgement changes nothing that counts.
LEMMA DeviceAckHolds ==
  ASSUME IInv, DeviceAck
  PROVE  IInv'
<1> USE DEF DeviceAck, CommandFails, asked, done
<1>1. TypeOK'
  BY BoundAssumption DEF IInv, TypeOK
<1>2. CopyInv' /\ SelectorInv'
  BY DEF IInv, CopyInv, SelectorInv
<1>3. ~ CmosTaken /\ ~ CmosTaken' /\ (OneShotTaken' <=> OneShotTaken)
  BY DEF CmosTaken, OneShotTaken
<1>4. CmosInv' /\ OneShotInv'
  BY <1>3 DEF IInv, CmosInv, OneShotInv, One, OneShot
<1> QED
  BY <1>1, <1>2, <1>4 DEF IInv

\* The boot with the selected device.
LEMMA BootHolds ==
  ASSUME IInv, Boot
  PROVE  IInv'
<1> USE DEF Boot, asked, mishaps
<1>0. TypeOK
  BY DEF IInv
<1>1. TypeOK'
  BY <1>0, NumberFacts DEF TypeOK
<1>2. CopyInv' /\ SelectorInv'
  BY DEF IInv, CopyInv, SelectorInv
<1>3. /\ ~ CmosTaken /\ ~ CmosTaken' /\ ~ OneShotTaken'
      /\ OneShotTaken <=> Selector # BootNone /\ ~ FlagsData.persistent
  BY DEF CmosTaken, OneShotTaken
<1>4. CmosInv' /\ OneShotInv'
  BY <1>0, <1>3, NumberFacts DEF IInv, CmosInv, OneShotInv, One, OneShot
<1> QED
  BY <1>1, <1>2, <1>4 DEF IInv

\* A reset only forgets.
LEMMA ResetHolds ==
  ASSUME IInv, Reset
  PROVE  IInv'
<1> USE DEF Reset, asked, done
<1>0. TypeOK
  BY DEF IInv
<1>1. TypeOK'
  BY <1>0, FlagFacts, BoundAssumption DEF TypeOK
<1>2. CopyInv' /\ SelectorInv'
  BY DEF IInv, CopyInv, SelectorInv
<1>3. ~ CmosTaken' /\ ~ OneShotTaken'
  BY DEF CmosTaken, OneShotTaken
<1>4. CmosInv' /\ OneShotInv'
  BY <1>0, <1>3, NumberFacts DEF IInv, CmosInv, OneShotInv, One, OneShot
<1> QED
  BY <1>1, <1>2, <1>4 DEF IInv

\* The administrator's tool sets set in progress: nothing is asked yet.
LEMMA AdminBeginsHolds ==
  ASSUME IInv, AdminBegins
  PROVE  IInv'
<1> USE DEF AdminBegins, asked, done, mishaps
<1>1. TypeOK'
  BY DEF IInv, TypeOK
<1>2. CopyInv' /\ SelectorInv'
  BY DEF IInv, CopyInv, SelectorInv
<1>3. (CmosTaken' <=> CmosTaken) /\ (OneShotTaken' <=> OneShotTaken)
  BY DEF CmosTaken, OneShotTaken
<1>4. CmosInv' /\ OneShotInv'
  BY <1>3 DEF IInv, CmosInv, OneShotInv, One, OneShot
<1> QED
  BY <1>1, <1>2, <1>4 DEF IInv

\* The administrator's write replaces the request the BMC held.  If a routine
\* had read that one it is still served, so it moves from the BMC to the taken.
LEMMA AdminWritesHolds ==
  ASSUME IInv, AdminWrites
  PROVE  IInv'
<1>0. TypeOK
  BY DEF IInv
<1>1. PICK f \in {g \in Flags : g.valid} :
        /\ flags' = f
        /\ cmosRequests' = cmosRequests + (IF f.CmosClear THEN 1 ELSE 0)
        /\ oneShotRequests' = oneShotRequests + (IF f.persistent THEN 0 ELSE 1)
  BY DEF AdminWrites
<1>2. /\ setInProgress /\ requests < MaxRequests
      /\ requests' = requests + 1 /\ raced' = TRUE /\ setInProgress' = FALSE
      /\ UNCHANGED <<pc, FlagsData, Selector, cmosClears, oneShotBoots, setFailures, failures,
                     resets>>
  BY DEF AdminWrites, done, mishaps
<1>3. TypeOK'
  <2>1. /\ cmosRequests \in Nat /\ oneShotRequests \in Nat /\ requests \in Nat
        /\ cmosRequests <= requests /\ oneShotRequests <= requests
    BY <1>0, NumberFacts DEF TypeOK
  <2>2. cmosRequests' \in 0..requests' /\ oneShotRequests' \in 0..requests'
    BY <1>1, <1>2, <2>1
  <2>3. requests' \in 0..MaxRequests
    BY <1>2, <2>1, BoundAssumption
  <2>4. flags' \in Flags
    BY <1>1
  <2> QED
    BY <1>0, <1>2, <2>2, <2>3, <2>4 DEF TypeOK
<1>4. CopyInv' /\ SelectorInv'
  BY <1>2 DEF IInv, CopyInv, SelectorInv, OneShot
<1>5. CmosInv'
  <2>1. One(CmosTaken)' <= One(CmosTaken) + One(flags.CmosClear)
    BY <1>2 DEF IInv, CopyInv, CmosTaken, One
  <2>2. cmosRequests' = cmosRequests + One(flags.CmosClear)'
    BY <1>1 DEF One
  <2>3. /\ One(CmosTaken) \in {0, 1} /\ One(CmosTaken)' \in {0, 1}
        /\ One(flags.CmosClear) \in {0, 1} /\ One(flags.CmosClear)' \in {0, 1}
    BY DEF One
  <2> QED
    BY <1>0, <1>2, <2>1, <2>2, <2>3, NumberFacts DEF IInv, CmosInv
<1>6. OneShotInv'
  <2>1. One(OneShotTaken)' <= One(OneShotTaken) + One(OneShot(flags))
    BY <1>2 DEF IInv, CopyInv, OneShotTaken, OneShot, One
  <2>2. oneShotRequests' = oneShotRequests + One(OneShot(flags))'
    BY <1>1 DEF One, OneShot
  <2>3. /\ One(OneShotTaken) \in {0, 1} /\ One(OneShotTaken)' \in {0, 1}
        /\ One(OneShot(flags)) \in {0, 1} /\ One(OneShot(flags))' \in {0, 1}
    BY DEF One
  <2> QED
    BY <1>0, <1>2, <2>1, <2>2, <2>3, NumberFacts DEF IInv, OneShotInv
<1> QED
  BY <1>3, <1>4, <1>5, <1>6 DEF IInv

\* A step that changes nothing.
LEMMA StutterHolds ==
  ASSUME IInv, UNCHANGED vars
  PROVE  IInv'
<1> USE DEF vars, asked, done, mishaps
<1>1. TypeOK' /\ CopyInv' /\ SelectorInv'
  BY DEF IInv, TypeOK, CopyInv, SelectorInv
<1>2. CmosInv' /\ OneShotInv'
  BY DEF IInv, CmosInv, OneShotInv, CmosTaken, OneShotTaken, One, OneShot
<1> QED
  BY <1>1, <1>2 DEF IInv

\* Every step keeps the invariant.
LEMMA NextHolds == IInv /\ [Next]_vars => IInv'
BY CheckHolds, CmosGetHolds, CmosSetHolds, ClearCmosHolds, DeviceGetHolds, DeviceSetHolds,
   DeviceAckHolds, BootHolds, ResetHolds, AdminBeginsHolds, AdminWritesHolds, StutterHolds
   DEF Next, Host

\* The invariant holds in every reachable state.
LEMMA Inductive == Spec => []IInv
BY InitHolds, NextHolds, PTL DEF Spec

\* The bounds the invariant was made for.
LEMMA Consequences == IInv => TypeOK /\ CmosClearsBounded /\ OneShotBootsBounded
<1> SUFFICES ASSUME IInv PROVE TypeOK /\ CmosClearsBounded /\ OneShotBootsBounded
  OBVIOUS
<1>1. TypeOK
  BY DEF IInv
<1>2. /\ One(flags.CmosClear) \in {0, 1} /\ One(CmosTaken) \in {0, 1}
      /\ One(OneShot(flags)) \in {0, 1} /\ One(OneShotTaken) \in {0, 1}
  BY DEF One
<1> QED
  BY <1>1, <1>2, NumberFacts DEF IInv, CmosInv, OneShotInv, CmosClearsBounded, OneShotBootsBounded
-------------------------------------------------------------------------------
\* The flags, copies and counters stay in their types.
THEOREM TypeCorrect == Spec => []TypeOK
BY Inductive, Consequences, PTL

\* For any number of requests, lost Sets and resets: CMOS is cleared at most
\* once per request plus once per Set that failed, so a clear that asks for a
\* reboot does not loop.
THEOREM CmosClearedOnce == Spec => []CmosClearsBounded
BY Inductive, Consequences, PTL

\* For any number of requests, lost Sets and resets: a one-shot boot device is
\* booted at most once per request plus once per Set that failed, though the
\* CMOS module writes the same flags back from its own copy.
THEOREM OneShotBootedOnce == Spec => []OneShotBootsBounded
BY Inductive, Consequences, PTL

\* RequestKept: whatever Sets fail, and unless the administrator wrote since the
\* flags were read, clearing the CMOS flag leaves the boot device of the request,
\* and reading the boot device leaves a persistent one.
THEOREM RestOfRequestKept == Spec => RequestKept
<1> DEFINE Kept == Host /\ ~ raced /\ (pc = "cmosSet" \/ flags.persistent) =>
             [flags' EXCEPT !.CmosClear = FALSE] = [flags EXCEPT !.CmosClear = FALSE]
<1>1. IInv /\ [Next]_vars => [Kept]_vars
  <2> SUFFICES ASSUME IInv, Host, ~ raced, pc = "cmosSet" \/ flags.persistent, flags' # flags
               PROVE  [flags' EXCEPT !.CmosClear = FALSE] = [flags EXCEPT !.CmosClear = FALSE]
    OBVIOUS
  <2>1. CASE CmosSet
    <3>1. flags = FlagsData /\ flags \in Flags
      BY <2>1 DEF CmosSet, IInv, TypeOK, CopyInv
    <3>2. flags' = [flags EXCEPT !.CmosClear = FALSE]
      BY <2>1, <3>1 DEF CmosSet, SetBootFlags, BmcSetBootFlags, FlagsWithoutCmos
    <3> QED
      BY <3>1, <3>2 DEF Flags
  <2>2. CASE DeviceSet
    \* The routine zeroes the flags only if its copy, which is the BMC's, is not persistent.
    BY <2>2 DEF DeviceSet, IInv, CopyInv, OneShot
  <2> QED
    BY <2>1, <2>2 DEF Host, CmosCheck, DeviceCheck, CheckSetInProgress, CmosGet, ClearCmos,
       DeviceGet, DeviceAck, Boot
<1> QED
  BY <1>1, Inductive, PTL DEF Spec, RequestKept
-------------------------------------------------------------------------------
(***************************************************************************)
(* Progress.  That a boot ends needs fairness and stays with TLC; that it  *)
(* cannot go on for ever by itself does not.                               *)
(***************************************************************************)
\* Steps from here to the operating system, without a reboot.
StepsOfBoot ==
  CASE pc = "cmosCheck" -> 9 [] pc = "cmosGet" -> 8 [] pc = "cmosSet" -> 7
    [] pc = "clearCmos" -> 6 [] pc = "deviceCheck" -> 5 [] pc = "deviceGet" -> 4
    [] pc = "deviceSet" -> 3 [] pc = "deviceAck" -> 2 [] pc = "boot" -> 1 [] pc = "os" -> 0

\* And the four that a reboot after a CMOS clear takes more, for each one that
\* the requests and the lost Sets so far still allow.
StepsLeft == StepsOfBoot + 4 * (cmosRequests + setFailures - cmosClears)

\* What a step does to the steps left.
Bounded ==
  /\ Host => StepsLeft' < StepsLeft \/ setFailures' = setFailures + 1
  /\ StepsLeft \in Nat /\ (StepsLeft = 0 => pc = "os")
  /\ StepsLeft' > StepsLeft =>
       \/ setFailures' = setFailures + 1
       \/ resets' = resets + 1
       \/ requests' = requests + 1

\* A step of the boot gets on, or reboots after a clear that counts.
LEMMA HostGetsOn ==
  ASSUME TypeOK, Host, setFailures' # setFailures + 1
  PROVE  /\ setFailures' = setFailures /\ cmosRequests' = cmosRequests
         /\ \/ StepsOfBoot' < StepsOfBoot /\ cmosClears' \in {cmosClears, cmosClears + 1}
            \/ StepsOfBoot' = StepsOfBoot + 3 /\ cmosClears' = cmosClears + 1
<1>1. CASE CmosCheck
  BY <1>1 DEF CmosCheck, CheckSetInProgress, StepsOfBoot, asked, done
<1>2. CASE CmosGet
  BY <1>2 DEF CmosGet, StepsOfBoot, asked, done
<1>3. CASE CmosSet
  BY <1>3 DEF CmosSet, SetBootFlags, StepsOfBoot, asked, done
<1>4. CASE ClearCmos
  BY <1>4 DEF ClearCmos, StepsOfBoot, asked, mishaps
<1>5. CASE DeviceCheck
  BY <1>5 DEF DeviceCheck, CheckSetInProgress, StepsOfBoot, asked, done
<1>6. CASE DeviceGet
  BY <1>6 DEF DeviceGet, StepsOfBoot, asked, done
<1>7. CASE DeviceSet
  BY <1>7 DEF DeviceSet, SetBootFlags, StepsOfBoot, asked, done
<1>8. CASE DeviceAck
  BY <1>8 DEF DeviceAck, StepsOfBoot, asked, done
<1>9. CASE Boot
  BY <1>9 DEF Boot, StepsOfBoot, asked, mishaps
<1> QED
  BY <1>1, <1>2, <1>3, <1>4, <1>5, <1>6, <1>7, <1>8, <1>9 DEF Host

\* The steps to the operating system are a number.
LEMMA StepsOfBootType ==
  ASSUME TypeOK
  PROVE  StepsOfBoot \in 0..9 /\ (StepsOfBoot = 0 => pc = "os")
<1>1. pc \in {"cmosCheck", "cmosGet", "cmosSet", "clearCmos",
              "deviceCheck", "deviceGet", "deviceSet", "deviceAck", "boot", "os"}
  BY DEF TypeOK
<1>2. StepsOfBoot \in 0..9
  BY <1>1 DEF StepsOfBoot
<1>3. StepsOfBoot = 0 => pc = "os"
  BY <1>1 DEF StepsOfBoot
<1> QED
  BY <1>2, <1>3

\* The same in the next state.
LEMMA StepsOfBootTypeNext ==
  ASSUME TypeOK'
  PROVE  StepsOfBoot' \in 0..9
<1>1. pc' \in {"cmosCheck", "cmosGet", "cmosSet", "clearCmos",
               "deviceCheck", "deviceGet", "deviceSet", "deviceAck", "boot", "os"}
  BY DEF TypeOK
<1> QED
  BY <1>1 DEF StepsOfBoot

\* The clears so far are those of the requests and lost Sets so far, at most.
LEMMA ClearsLeft ==
  ASSUME IInv
  PROVE  /\ cmosRequests + setFailures - cmosClears \in Nat
         /\ cmosRequests \in Nat /\ setFailures \in Nat /\ cmosClears \in Nat
BY Consequences, NumberFacts DEF CmosClearsBounded

\* A boot cannot go on by itself: every step gets on, and reboots after clearing
\* the CMOS are paid for by the requests and the lost Sets so far.  Only a reset,
\* another request or another lost Set gives it more steps to go.
THEOREM BootBounded == Spec => [][Bounded]_vars
<1>1. IInv /\ [Next]_vars => [Bounded]_vars
  <2> SUFFICES ASSUME IInv, Next PROVE Bounded
    OBVIOUS
  <2>1. TypeOK /\ TypeOK'
    BY NextHolds DEF IInv
  <2>2. StepsOfBoot \in 0..9 /\ StepsOfBoot' \in 0..9 /\ (StepsOfBoot = 0 => pc = "os")
    BY <2>1, StepsOfBootType, StepsOfBootTypeNext
  <2>3. /\ cmosRequests + setFailures - cmosClears \in Nat
        /\ cmosRequests \in Nat /\ setFailures \in Nat /\ cmosClears \in Nat
    BY ClearsLeft
  <2>4. StepsLeft \in Nat /\ (StepsLeft = 0 => pc = "os")
    BY <2>2, <2>3 DEF StepsLeft
  <2>5. ASSUME Host, setFailures' # setFailures + 1
        PROVE  StepsLeft' < StepsLeft /\ ~ (StepsLeft' > StepsLeft)
    <3>1. /\ setFailures' = setFailures /\ cmosRequests' = cmosRequests
          /\ \/ StepsOfBoot' < StepsOfBoot /\ cmosClears' \in {cmosClears, cmosClears + 1}
             \/ StepsOfBoot' = StepsOfBoot + 3 /\ cmosClears' = cmosClears + 1
      BY <2>1, <2>5, HostGetsOn
    <3> QED
      BY <2>2, <2>3, <3>1 DEF StepsLeft
  <2>6. ASSUME StepsLeft' > StepsLeft, setFailures' # setFailures + 1, resets' # resets + 1,
               requests' # requests + 1
        PROVE  FALSE
    <3>1. CASE Host
      BY <2>4, <2>5, <2>6, <3>1
    <3>2. CASE AdminBegins
      <4>1. StepsLeft' = StepsLeft
        BY <3>2 DEF AdminBegins, StepsLeft, StepsOfBoot, asked, done, mishaps
      <4> QED
        BY <2>4, <2>6, <4>1
    <3> QED
      BY <2>6, <3>1, <3>2 DEF Next, Reset, AdminWrites
  <2> QED
    BY <2>4, <2>5, <2>6 DEF Bounded
<1> QED
  BY <1>1, Inductive, PTL DEF Spec
===============================================================================
