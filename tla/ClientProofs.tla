---------------------------- MODULE ClientProofs ----------------------------
(***************************************************************************)
(* Proofs about module Client, for any commands and any websites: the       *)
(* agent leaves no file behind that breaks a reload, and what it reports is *)
(* what it did.                                                             *)
(***************************************************************************)
EXTENDS Client, TLAPS

Item == Commands \cup {Frag}

\* The agent as it starts.
LEMMA InitInv == Init => Inv /\ DiskIsWhatWasReported
<1> SUFFICES ASSUME Init PROVE Inv /\ DiskIsWhatWasReported
  OBVIOUS
<1> USE CommandsAssumption DEF Init
<1>1. TypeOK
  <2>0. stream \in Seq(Item) /\ batch \in Seq(Item)
    OBVIOUS
  <2>1. /\ unsent \in SUBSET Commands
        /\ cur \in Commands \cup {None} /\ pc \in PCs /\ link \in BOOLEAN
    BY DEF PCs
  <2>2. /\ disk \in [Names -> Adds \cup {None}] /\ running \in [Names -> Adds \cup {None}]
        /\ certs \in SUBSET Names /\ torn \in SUBSET Names
        /\ master \in BOOLEAN /\ hup \in BOOLEAN /\ refused \in BOOLEAN
    OBVIOUS
  <2>3. /\ reported \in [Commands -> {"none", "succ", "fail"}]
        /\ last \in [Names -> Commands \cup {None}]
    OBVIOUS
  <2> QED BY <2>0, <2>1, <2>2, <2>3 DEF TypeOK, Item, Init, PCs
<1>2. NoBadFileStays
  BY DEF NoBadFileStays, BadFiles
<1>3. CommandsOnce
  BY DEF CommandsOnce, Once, Apart, Fresh
<1>4. WorkFits
  BY DEF WorkFits
<1>5. DiskIsWhatWasReported
  BY DEF DiskIsWhatWasReported
<1> QED BY <1>1, <1>2, <1>3, <1>4, <1>5 DEF Inv

-----------------------------------------------------------------------------
(***************************************************************************)
(* What the steps that read do to the lines on their way.                   *)
(***************************************************************************)

LEMMA RecvMoves ==
  ASSUME TypeOK, Recv
  PROVE  \E n \in 0..Len(stream) :
           /\ stream' \in Seq(Item) /\ batch' \in Seq(Item)
           /\ Len(stream') = Len(stream) - n
           /\ \A i \in 1..Len(stream') : stream'[i] \in {stream[n + i], Frag}
           /\ Len(batch') \in {n, n + 1}
           /\ \A i \in 1..Len(batch') : batch'[i] = Frag \/ (i <= n /\ batch'[i] = stream[i])
<1>0. stream \in Seq(Item) /\ Len(stream) \in Nat
  BY DEF TypeOK, Item
<1>1. CASE \E n \in 0..Len(stream) :
             n > 0 /\ batch' = SubSeq(stream, 1, n) /\ stream' = SubSeq(stream, n + 1, Len(stream))
  BY <1>0, <1>1
<1>2. CASE \E n \in 0..Len(stream) :
             /\ n < Len(stream) /\ stream[n + 1] # Frag
             /\ batch' = Append(SubSeq(stream, 1, n), Frag)
             /\ stream' = <<Frag>> \o SubSeq(stream, n + 2, Len(stream))
  <2>1. PICK n \in 0..Len(stream) :
             /\ n < Len(stream)
             /\ batch' = Append(SubSeq(stream, 1, n), Frag)
             /\ stream' = <<Frag>> \o SubSeq(stream, n + 2, Len(stream))
    BY <1>2
  <2>2. /\ SubSeq(stream, 1, n) \in Seq(Item) /\ Len(SubSeq(stream, 1, n)) = n
        /\ \A i \in 1..n : SubSeq(stream, 1, n)[i] = stream[i]
    BY <1>0
  <2>3. /\ SubSeq(stream, n + 2, Len(stream)) \in Seq(Item)
        /\ Len(SubSeq(stream, n + 2, Len(stream))) = Len(stream) - n - 1
        /\ \A i \in 1..Len(stream) - n - 1 :
             SubSeq(stream, n + 2, Len(stream))[i] = stream[n + 1 + i]
    BY <1>0, <2>1
  <2>4. Frag \in Item /\ <<Frag>> \in Seq(Item) /\ Len(<<Frag>>) = 1
    BY DEF Item
  <2>5. /\ batch' \in Seq(Item) /\ Len(batch') = n + 1
        /\ \A i \in 1..Len(batch') : batch'[i] = Frag \/ (i <= n /\ batch'[i] = stream[i])
    BY <2>1, <2>2, <2>4
  <2>6. /\ stream' \in Seq(Item) /\ Len(stream') = Len(stream) - n
        /\ \A i \in 1..Len(stream') : stream'[i] \in {stream[n + i], Frag}
    BY <2>1, <2>3, <2>4, <1>0
  <2> QED BY <2>5, <2>6
<1> QED BY <1>1, <1>2 DEF Recv

\* Taking the first command of a batch.
LEMMA TakeMoves ==
  ASSUME TypeOK, batch # <<>>
  PROVE  /\ Head(batch) = batch[1] /\ Head(batch) \in Item
         /\ Tail(batch) \in Seq(Item) /\ Len(Tail(batch)) = Len(batch) - 1 /\ Len(batch) \in Nat \ {0}
         /\ \A i \in 1..Len(Tail(batch)) : Tail(batch)[i] = batch[i + 1]
BY DEF TypeOK, Item

\* A command put at the end of what the broker sent.
LEMMA SendMoves ==
  ASSUME TypeOK, NEW c \in Commands
  PROVE  /\ Append(stream, c) \in Seq(Item) /\ Len(stream) \in Nat
         /\ Len(Append(stream, c)) = Len(stream) + 1
         /\ \A i \in 1..Len(stream) : Append(stream, c)[i] = stream[i]
         /\ Append(stream, c)[Len(stream) + 1] = c
BY DEF TypeOK, Item

\* The empty list is a list of commands.
LEMMA Nothing == <<>> \in Seq(Item) /\ Len(<<>>) = 0
OBVIOUS

\* Every step keeps the types.
LEMMA TypeStep ==
  ASSUME TypeOK, WorkFits, [Next]_vars
  PROVE  TypeOK'
<1> USE CommandsAssumption DEF TypeOK, WorkFits, PCs, Item, Adds, masterVars, wireVars, auxVars
<1>1. CASE Recv
  BY <1>1, RecvMoves DEF Recv
<1>2. CASE Take
  BY <1>2, TakeMoves DEF Take
<1>3. CASE TakeFragment
  BY <1>3, TakeMoves, Nothing DEF TakeFragment, Abandon
<1>4. CASE BatchDone
  BY <1>4 DEF BatchDone
<1>5. CASE Write
  BY <1>5 DEF Write
<1>6. CASE Fetch
  BY <1>6 DEF Fetch
<1>7. CASE Reload
  BY <1>7 DEF Reload, Hup
<1>8. CASE Discard
  BY <1>8 DEF Discard
<1>9. CASE Remove
  <2>1. NameOf[cur] \in Names /\ cur \in Commands
    BY <1>9 DEF Remove
  <2>2. CASE disk[NameOf[cur]] = None
    BY <1>9, <2>2, Nothing DEF Remove, Abandon
  <2>3. CASE disk[NameOf[cur]] # None
    BY <1>9, <2>1, <2>3, SMTT(60) DEF Remove
  <2> QED BY <2>2, <2>3
<1>10. CASE DelReload
  BY <1>10 DEF DelReload, Hup
<1>11. CASE Reply
  BY <1>11 DEF Reply
<1>12. CASE Kill
  <2>1. torn' \in SUBSET Names
    BY <1>12 DEF Kill
  <2>2. batch' \in Seq(Item) /\ stream' \in Seq(Item)
    BY <1>12, Nothing DEF Kill, Abandon
  <2> QED BY <1>12, <2>1, <2>2 DEF Kill, Abandon
<1>13. CASE BrokerSend
  BY <1>13, SendMoves DEF BrokerSend
<1>14. CASE LinkDrop
  BY <1>14, Nothing DEF LinkDrop
<1>15. CASE Connect
  BY <1>15 DEF Connect
<1>16. CASE MasterRead
  BY <1>16 DEF MasterRead
<1>17. CASE MasterStop
  BY <1>17 DEF MasterStop
<1>18. CASE MasterStart
  BY <1>18 DEF MasterStart
<1>19. CASE UNCHANGED vars
  BY <1>19 DEF vars
<1> QED BY <1>1, <1>2, <1>3, <1>4, <1>5, <1>6, <1>7, <1>8, <1>9, <1>10, <1>11, <1>12, <1>13, <1>14, <1>15, <1>16, <1>17, <1>18, <1>19 DEF Next, Agent

\* Every step keeps files that would be refused from staying: a bad one is removed before the next command.
LEMMA NoBadStep ==
  ASSUME TypeOK, NoBadFileStays, WorkFits, [Next]_vars
  PROVE  NoBadFileStays'
<1> USE CommandsAssumption DEF TypeOK, NoBadFileStays, BadFiles, Valid, WorkFits, Adds, masterVars, wireVars, auxVars
<1>1. CASE Recv
  BY <1>1 DEF Recv
<1>2. CASE Take
  BY <1>2 DEF Take
<1>3. CASE TakeFragment
  BY <1>3 DEF TakeFragment, Abandon
<1>4. CASE BatchDone
  BY <1>4 DEF BatchDone
<1>5. CASE Write
  BY <1>5 DEF Write
<1>6. CASE Fetch
  BY <1>6 DEF Fetch
<1>7. CASE Reload
  BY <1>7 DEF Reload, Hup
<1>8. CASE Discard
  BY <1>8 DEF Discard
<1>9. CASE Remove
  BY <1>9 DEF Remove, Abandon
<1>10. CASE DelReload
  BY <1>10 DEF DelReload, Hup
<1>11. CASE Reply
  BY <1>11 DEF Reply
<1>12. CASE Kill
  BY <1>12 DEF Kill, Abandon
<1>13. CASE BrokerSend
  BY <1>13 DEF BrokerSend
<1>14. CASE LinkDrop
  BY <1>14 DEF LinkDrop
<1>15. CASE Connect
  BY <1>15 DEF Connect
<1>16. CASE MasterRead
  BY <1>16 DEF MasterRead
<1>17. CASE MasterStop
  BY <1>17 DEF MasterStop
<1>18. CASE MasterStart
  BY <1>18 DEF MasterStart
<1>19. CASE UNCHANGED vars
  BY <1>19 DEF vars
<1> QED BY <1>1, <1>2, <1>3, <1>4, <1>5, <1>6, <1>7, <1>8, <1>9, <1>10, <1>11, <1>12, <1>13, <1>14, <1>15, <1>16, <1>17, <1>18, <1>19 DEF Next, Agent

\* Every step keeps what the agent has done in agreement with where it is.
LEMMA WorkStep ==
  ASSUME TypeOK, WorkFits, [Next]_vars
  PROVE  WorkFits'
<1> USE CommandsAssumption DEF TypeOK, WorkFits, Adds, PCs, masterVars, wireVars, auxVars
<1>1. CASE Recv
  BY <1>1 DEF Recv
<1>2. CASE Take
  BY <1>2, TakeMoves DEF Take, Item
<1>3. CASE TakeFragment
  BY <1>3 DEF TakeFragment, Abandon
<1>4. CASE BatchDone
  BY <1>4 DEF BatchDone
<1>5. CASE Write
  BY <1>5 DEF Write
<1>6. CASE Fetch
  BY <1>6 DEF Fetch
<1>7. CASE Reload
  BY <1>7 DEF Reload, Hup
<1>8. CASE Discard
  BY <1>8 DEF Discard
<1>9. CASE Remove
  BY <1>9 DEF Remove, Abandon
<1>10. CASE DelReload
  BY <1>10 DEF DelReload, Hup
<1>11. CASE Reply
  BY <1>11 DEF Reply
<1>12. CASE Kill
  BY <1>12 DEF Kill, Abandon
<1>13. CASE BrokerSend
  BY <1>13 DEF BrokerSend
<1>14. CASE LinkDrop
  BY <1>14 DEF LinkDrop
<1>15. CASE Connect
  BY <1>15 DEF Connect
<1>16. CASE MasterRead
  BY <1>16 DEF MasterRead
<1>17. CASE MasterStop
  BY <1>17 DEF MasterStop
<1>18. CASE MasterStart
  BY <1>18 DEF MasterStart
<1>19. CASE UNCHANGED vars
  BY <1>19 DEF vars
<1> QED BY <1>1, <1>2, <1>3, <1>4, <1>5, <1>6, <1>7, <1>8, <1>9, <1>10, <1>11, <1>12, <1>13, <1>14, <1>15, <1>16, <1>17, <1>18, <1>19 DEF Next, Agent

\* Every step keeps the reported statuses true of the disk.
LEMMA ReportStep ==
  ASSUME TypeOK, CommandsOnce, WorkFits, DiskIsWhatWasReported, [Next]_vars
  PROVE  DiskIsWhatWasReported'
<1> USE CommandsAssumption DEF TypeOK, WorkFits, CommandsOnce, DiskIsWhatWasReported, Fresh, Adds, masterVars, wireVars, auxVars
<1>1. CASE Recv
  BY <1>1 DEF Recv
<1>2. CASE Take
  BY <1>2 DEF Take
<1>3. CASE TakeFragment
  BY <1>3 DEF TakeFragment, Abandon
<1>4. CASE BatchDone
  BY <1>4 DEF BatchDone
<1>5. CASE Write
  BY <1>5 DEF Write
<1>6. CASE Fetch
  BY <1>6 DEF Fetch
<1>7. CASE Reload
  BY <1>7 DEF Reload, Hup
<1>8. CASE Discard
  BY <1>8 DEF Discard
<1>9. CASE Remove
  BY <1>9 DEF Remove, Abandon
<1>10. CASE DelReload
  BY <1>10 DEF DelReload, Hup
<1>11. CASE Reply
  BY <1>11 DEF Reply
<1>12. CASE Kill
  BY <1>12 DEF Kill, Abandon
<1>13. CASE BrokerSend
  BY <1>13 DEF BrokerSend
<1>14. CASE LinkDrop
  BY <1>14 DEF LinkDrop
<1>15. CASE Connect
  BY <1>15 DEF Connect
<1>16. CASE MasterRead
  BY <1>16 DEF MasterRead
<1>17. CASE MasterStop
  BY <1>17 DEF MasterStop
<1>18. CASE MasterStart
  BY <1>18 DEF MasterStart
<1>19. CASE UNCHANGED vars
  BY <1>19 DEF vars
<1> QED BY <1>1, <1>2, <1>3, <1>4, <1>5, <1>6, <1>7, <1>8, <1>9, <1>10, <1>11, <1>12, <1>13, <1>14, <1>15, <1>16, <1>17, <1>18, <1>19 DEF Next, Agent

\* Every step keeps each command in one place.
LEMMA OnceStep ==
  ASSUME TypeOK, WorkFits, CommandsOnce, [Next]_vars
  PROVE  CommandsOnce'
<1> USE CommandsAssumption DEF TypeOK, WorkFits, CommandsOnce, Once, Apart, Fresh, PCs, masterVars, wireVars, auxVars
<1>1. CASE Recv
  <2>1. PICK n \in 0..Len(stream) :
           /\ stream' \in Seq(Item) /\ batch' \in Seq(Item)
           /\ Len(stream') = Len(stream) - n
           /\ \A i \in 1..Len(stream') : stream'[i] \in {stream[n + i], Frag}
           /\ Len(batch') \in {n, n + 1}
           /\ \A i \in 1..Len(batch') : batch'[i] = Frag \/ (i <= n /\ batch'[i] = stream[i])
    BY <1>1, RecvMoves
  <2>2. /\ \A i \in 1..Len(stream') : stream'[i] # Frag =>
             /\ i \in Nat /\ n + i \in 1..Len(stream) /\ n + i > n /\ stream'[i] = stream[n + i]
        /\ \A i \in 1..Len(batch') : batch'[i] # Frag =>
             /\ i \in Nat /\ i \in 1..Len(stream) /\ i <= n /\ batch'[i] = stream[i]
    <3>1. Len(stream) \in Nat /\ Len(stream') \in Nat /\ Len(batch') \in Nat /\ n \in Nat
      BY <2>1
    <3> QED BY <2>1, <3>1
  <2>3. /\ \A c : Fresh(c) => Fresh(c)'
        /\ unsent' = unsent /\ cur' = cur /\ reported' = reported /\ last' = last /\ pc' = "next"
    BY <1>1 DEF Recv
  <2>4. Once(stream)' /\ Once(batch)'
    <3>1. ASSUME NEW i \in 1..Len(stream'), NEW j \in 1..Len(stream'),
                 stream'[i] = stream'[j], stream'[i] # Frag
          PROVE  i = j
      <4>1. n + i \in 1..Len(stream) /\ n + j \in 1..Len(stream) /\ stream[n + i] = stream[n + j]
        BY <2>2, <3>1
      <4>2. n + i = n + j
        BY <2>2, <3>1, <4>1
      <4>3. n \in Nat /\ i \in Nat /\ j \in Nat
        BY <2>1, <2>2, <3>1
      <4> QED BY <4>2, <4>3
    <3>2. ASSUME NEW i \in 1..Len(batch'), NEW j \in 1..Len(batch'),
                 batch'[i] = batch'[j], batch'[i] # Frag
          PROVE  i = j
      <4>1. i \in 1..Len(stream) /\ j \in 1..Len(stream) /\ stream[i] = stream[j] /\ stream[i] # Frag
        BY <2>2, <3>2
      <4> QED BY <4>1
    <3> QED BY <3>1, <3>2
  <2>5. Apart'
    <3>1. \A i \in 1..Len(stream'), j \in 1..Len(batch') :
            stream'[i] = batch'[j] /\ stream'[i] # Frag => n + i = j
      BY <2>2
    <3> QED BY <2>2, <3>1
  <2>6. /\ \A i \in 1..Len(stream)' : stream'[i] # Frag => Fresh(stream[i])'
        /\ \A i \in 1..Len(batch)' : batch'[i] # Frag => Fresh(batch[i])'
    <3>1. ASSUME NEW i \in 1..Len(stream'), stream'[i] # Frag PROVE Fresh(stream[i])'
      <4>1. PICK c : c = stream'[i]
        OBVIOUS
      <4>2. n + i \in 1..Len(stream) /\ c = stream[n + i] /\ c # Frag
        BY <2>2, <3>1, <4>1
      <4>3. Fresh(c)'
        BY <4>2, <2>3
      <4> QED BY <4>1, <4>3
    <3>2. ASSUME NEW i \in 1..Len(batch'), batch'[i] # Frag PROVE Fresh(batch[i])'
      <4>1. PICK c : c = batch'[i]
        OBVIOUS
      <4>2. i \in 1..Len(stream) /\ c = stream[i] /\ c # Frag
        BY <2>2, <3>2, <4>1
      <4>3. Fresh(c)'
        BY <4>2, <2>3
      <4> QED BY <4>1, <4>3
    <3> QED BY <3>1, <3>2
  <2>7. ASSUME NEW c \in unsent
        PROVE  /\ Fresh(c)'
               /\ \A i \in 1..Len(stream)' : stream'[i] # c
               /\ \A i \in 1..Len(batch)' : batch'[i] # c
    <3>1. Fresh(c) /\ c # Frag
      BY CommandsAssumption
    <3>2. \A i \in 1..Len(stream) : stream[i] # c
      OBVIOUS
    <3>3. Fresh(c)'
      BY <2>3, <3>1
    <3>4. ASSUME NEW i \in 1..Len(stream'), stream'[i] = c
          PROVE  FALSE
      <4>1. n + i \in 1..Len(stream) /\ stream[n + i] = c
        BY <2>2, <3>1, <3>4
      <4> QED BY <3>2, <4>1
    <3>5. \A i \in 1..Len(batch') : batch'[i] # c
      BY <2>2, <3>1, <3>2
    <3> QED BY <3>3, <3>4, <3>5
  <2>8. cur = None /\ cur' = None
    BY <1>1, <2>3 DEF Recv
  <2> QED BY <2>3, <2>4, <2>5, <2>6, <2>7, <2>8
<1>2. CASE Take
  <2>1. /\ batch # <<>> /\ Head(batch) # Frag
        /\ batch' = Tail(batch) /\ cur' = Head(batch) /\ stream' = stream
        /\ unsent' = unsent /\ reported' = reported /\ last' = last /\ pc' # "next"
    BY <1>2 DEF Take
  <2>2. /\ Head(batch) = batch[1] /\ Len(batch') = Len(batch) - 1 /\ Len(batch) \in Nat \ {0}
        /\ \A i \in 1..Len(batch') : batch'[i] = batch[i + 1] /\ i + 1 \in 1..Len(batch)
        /\ 1 \in 1..Len(batch)
    BY <2>1, TakeMoves
  <2>3. \A c : Fresh(c) /\ c # batch[1] => Fresh(c)'
    BY <2>1, <2>2
  <2>4. Fresh(batch[1])
    BY <2>1, <2>2
  <2>5. Once(batch)' /\ \A i \in 1..Len(batch') : batch'[i] # batch[1] \/ batch'[i] = Frag
    BY <2>1, <2>2
  <2>6. /\ \A c \in unsent : c # batch[1]
        /\ \A i \in 1..Len(stream) : stream[i] # Frag => stream[i] # batch[1]
    BY <2>1, <2>2
  <2> QED BY <2>1, <2>2, <2>3, <2>4, <2>5, <2>6
<1>3. CASE TakeFragment
  <2>1. /\ batch # <<>> /\ pc = "next" /\ stream' = stream /\ unsent' = unsent
        /\ reported' = reported /\ last' = last /\ cur = None
    BY <1>3 DEF TakeFragment
  <2>2. CASE Abandon
    BY <2>1, <2>2, Nothing DEF Abandon
  <2>3. CASE batch' = Tail(batch) /\ UNCHANGED <<cur, pc>>
    <3>1. /\ Len(batch') = Len(batch) - 1 /\ Len(batch) \in Nat \ {0}
          /\ \A i \in 1..Len(batch') : batch'[i] = batch[i + 1] /\ i + 1 \in 1..Len(batch)
      BY <2>1, <2>3, TakeMoves
    <3>2. \A c : Fresh(c) => Fresh(c)'
      BY <2>1, <2>3
    <3> QED BY <2>1, <2>3, <3>1, <3>2
  <2> QED BY <1>3, <2>2, <2>3 DEF TakeFragment
<1>4. CASE BatchDone
  BY <1>4 DEF BatchDone
<1>5. CASE Write
  BY <1>5 DEF Write
<1>6. CASE Fetch
  BY <1>6 DEF Fetch
<1>7. CASE Reload
  BY <1>7 DEF Reload, Hup
<1>8. CASE Discard
  BY <1>8 DEF Discard
<1>9. CASE Remove
  BY <1>9, Nothing DEF Remove, Abandon
<1>10. CASE DelReload
  BY <1>10 DEF DelReload, Hup
<1>11. CASE Reply
  BY <1>11 DEF Reply
<1>12. CASE Kill
  BY <1>12, Nothing DEF Kill, Abandon
<1>13. CASE BrokerSend
  BY <1>13, SendMoves DEF BrokerSend, Item
<1>14. CASE LinkDrop
  <2>1. stream' = <<>> /\ UNCHANGED <<unsent, batch, cur, pc, reported, last>>
    BY <1>14 DEF LinkDrop
  <2> QED BY <2>1, Nothing
<1>15. CASE Connect
  <2>1. UNCHANGED <<stream, unsent, batch, cur, pc, reported, last>>
    BY <1>15 DEF Connect
  <2> QED BY <2>1
<1>16. CASE MasterRead
  BY <1>16 DEF MasterRead
<1>17. CASE MasterStop
  BY <1>17 DEF MasterStop
<1>18. CASE MasterStart
  BY <1>18 DEF MasterStart
<1>19. CASE UNCHANGED vars
  BY <1>19 DEF vars
<1> QED BY <1>1, <1>2, <1>3, <1>4, <1>5, <1>6, <1>7, <1>8, <1>9, <1>10, <1>11, <1>12, <1>13, <1>14, <1>15, <1>16, <1>17, <1>18, <1>19 DEF Next, Agent

-----------------------------------------------------------------------------
\* The agent never leaves a file that every later reload would be refused for,
\* whatever it is sent, wherever it is killed, however its connection breaks.
THEOREM Invariance == Spec => []Inv
<1>1. Inv /\ [Next]_vars => Inv'
  BY TypeStep, NoBadStep, WorkStep, OnceStep DEF Inv
<1> QED BY InitInv, <1>1, PTL DEF Spec

\* What the agent reports of a website is what became of its file.
THEOREM Reports == Spec => []DiskIsWhatWasReported
<1>1. Inv /\ DiskIsWhatWasReported /\ [Next]_vars => DiskIsWhatWasReported'
  BY ReportStep DEF Inv
<1> QED BY InitInv, Invariance, <1>1, PTL DEF Spec
=============================================================================
