---------------------------- MODULE StoreProofs ----------------------------
(* Proofs about the stores: the stores of a session's data are a map, the    *)
(* run store in memory, and the session stores are the stores their trait    *)
(* promises.                                                                 *)
EXTENDS SessionStores, MemoryRunStore, SessionData, SequenceTheorems, FiniteSetTheorems, TLAPS

(* The stores of a session's data.                                          *)

DataSpec == DataInit /\ [][DataNext]_dataVars

Images == [Keys -> Values \cup {Absent}]

CallRecords ==
    [at: {"apply", "lock", "read", "truncate", "write"}, owner: Owners, key: Keys,
     value: Values \cup {Absent}, image: Images \cup {Nobody}]

CallTypes == \A c \in Callers : call[c] # NoCall => call[c] \in CallRecords

DataTypes ==
    /\ medium \in {"map", "hash", "file"}
    /\ held \in [Owners -> Images \cup {Torn}]
    /\ fileLock \in [Owners -> Callers \cup {Nobody}]
    /\ DOMAIN call = Callers /\ CallTypes

\* Only the thread that has a file's lock reads and writes it, and the file is
\* as the thread has read it until it is emptied. The other media are never torn.
OneWriter ==
    \A c \in Callers :
        /\ call[c].at \in {"read", "truncate", "write"} => fileLock[call[c].owner] = c
        /\ call[c].at = "truncate" => call[c].image = held[call[c].owner] /\ call[c].image \in Images
        /\ call[c].at = "write" => held[call[c].owner] = Torn /\ call[c].image \in Images
        /\ call[c] # NoCall => (call[c].at = "apply" <=> medium # "file")

NeverTorn == medium # "file" => held \in [Owners -> Images]

DataInv == DataTypes /\ OneWriter /\ NeverTorn

\* The store of one key of one session.
LEMMA OneKey ==
  ASSUME NEW h \in [Owners -> Images \cup {Torn}], NEW o \in Owners, h[o] # Torn,
         NEW k \in Keys, NEW v \in Values \cup {Absent}
  PROVE  /\ [h EXCEPT ![o][k] = v] = [h EXCEPT ![o] = [h[o] EXCEPT ![k] = v]]
         /\ [h[o] EXCEPT ![k] = v] \in Images
BY DEF Images

\* A free caller is at no step and in no session.
LEMMA NoCallFields == NoCall.at = "none" /\ NoCall.owner = Nobody
BY DEF NoCall

\* The stores are empty at first, and nobody is in a call.
LEMMA DataInitInv == DataInit => DataInv
PROOF
  <1> SUFFICES ASSUME DataInit PROVE DataInv
    OBVIOUS
  <1>1. Empty \in Images
    BY DEF Empty, Images
  <1>2. DataTypes
    BY <1>1 DEF DataInit, DataTypes, CallTypes
  <1>3. OneWriter
    BY NoCallFields DEF DataInit, OneWriter
  <1>4. NeverTorn
    BY <1>1 DEF DataInit, NeverTorn
  <1> QED
    BY <1>2, <1>3, <1>4 DEF DataInv

\* Only the thread that has a file's lock changes it, whatever the others do.
LEMMA DataStepInv == DataInv /\ [DataNext]_dataVars => DataInv'
PROOF
  <1> SUFFICES ASSUME DataInv, [DataNext]_dataVars PROVE DataInv'
    OBVIOUS
  <1> USE DataAssumption
  <1>t. DataTypes /\ OneWriter /\ NeverTorn
    BY DEF DataInv
  <1>i. Torn \notin Images
    BY DEF Images
  <1>n. \A c \in Callers : call[c].at \in {"lock", "read", "truncate", "write", "apply"} =>
            /\ call[c] # NoCall /\ call[c].owner \in Owners /\ call[c].owner # Nobody
            /\ call[c].key \in Keys /\ call[c].value \in Values \cup {Absent}
            /\ call[c].at = "apply" <=> medium # "file"
    BY <1>t, NoCallFields DEF DataTypes, CallTypes, CallRecords, OneWriter
  <1>o. ASSUME NEW c \in Callers, NEW d \in Callers \ {c}, call[c].owner = call[d].owner,
               call[c].at \in {"read", "truncate", "write"}
        PROVE  call[d].at \notin {"read", "truncate", "write"}
    BY <1>t, <1>o DEF OneWriter
  <1>d. ASSUME NEW c \in Callers, EndFileCall(c), UNCHANGED <<medium, held>>,
               call[c].at \in {"read", "truncate", "write"}
        PROVE  DataInv'
    <2>1. /\ call' = [call EXCEPT ![c] = NoCall] /\ fileLock' = [fileLock EXCEPT ![call[c].owner] = Nobody]
          /\ call[c].owner \in Owners /\ medium = "file"
      BY <1>d, <1>n DEF EndFileCall
    <2>2. DataTypes' /\ NeverTorn'
      BY <1>d, <1>t, <2>1 DEF DataTypes, CallTypes, NeverTorn
    <2>3. OneWriter'
      BY <1>d, <1>t, <1>o, <2>1, NoCallFields DEF DataTypes, OneWriter
    <2> QED
      BY <2>2, <2>3 DEF DataInv
  <1>1. ASSUME NEW c \in Callers, NEW o \in Owners, NEW k \in Keys, NEW v \in Values \cup {Absent},
               BeginCall(c, o, k, v)
        PROVE  DataInv'
    <2> DEFINE n == [at |-> IF medium = "file" THEN "lock" ELSE "apply",
                     owner |-> o, key |-> k, value |-> v, image |-> Nobody]
    <2>1. /\ call' = [call EXCEPT ![c] = n] /\ UNCHANGED <<medium, held, fileLock>>
          /\ n.at = (IF medium = "file" THEN "lock" ELSE "apply")
          /\ n.owner = o /\ n.key = k /\ n.value = v /\ n \in CallRecords
      BY <1>1 DEF BeginCall, CallRecords
    <2> HIDE DEF n
    <2> QED
      BY <1>t, <2>1 DEF DataInv, DataTypes, CallTypes, OneWriter, NeverTorn
  <1>2. ASSUME NEW c \in Callers, Apply(c)
        PROVE  DataInv'
    <2>1. /\ call[c] # NoCall /\ medium # "file" /\ call[c].owner \in Owners
          /\ call[c].key \in Keys /\ call[c].value \in Values \cup {Absent}
      BY <1>2, <1>n DEF Apply
    <2>2. held \in [Owners -> Images]
      BY <1>t, <2>1 DEF NeverTorn
    <2>3. held' \in [Owners -> Images]
      <3>1. held[call[c].owner] # Torn
        BY <1>i, <2>1, <2>2
      <3>2. CASE held' = [held EXCEPT ![call[c].owner][call[c].key] = call[c].value]
        BY <2>1, <2>2, <3>1, <3>2, OneKey
      <3>3. CASE UNCHANGED held
        BY <2>2, <3>3
      <3> QED
        BY <1>2, <3>2, <3>3 DEF Apply
    <2>4. /\ call' = [call EXCEPT ![c] = NoCall] /\ UNCHANGED <<medium, fileLock>>
      BY <1>2 DEF Apply
    <2>5. DataTypes' /\ NeverTorn'
      BY <1>t, <2>3, <2>4 DEF DataTypes, CallTypes, NeverTorn
    <2>6. \A d \in Callers : /\ call'[d] = NoCall \/ call'[d] = call[d]
                             /\ call'[d].at \notin {"read", "truncate", "write"}
      BY <1>n, <1>t, <2>1, <2>4, NoCallFields DEF DataTypes
    <2>7. OneWriter'
      BY <1>t, <2>4, <2>6, NoCallFields DEF OneWriter
    <2> QED
      BY <2>5, <2>7 DEF DataInv
  <1>3. ASSUME NEW c \in Callers, LockFile(c)
        PROVE  DataInv'
    BY <1>3, <1>t, NoCallFields DEF LockFile, DataInv, DataTypes, CallTypes, CallRecords, OneWriter,
       NeverTorn
  <1>4. ASSUME NEW c \in Callers, ReadFile(c)
        PROVE  DataInv'
    <2>1. /\ call[c].at = "read" /\ UNCHANGED <<medium, held>> /\ medium = "file"
          /\ call[c] # NoCall /\ call[c].owner \in Owners /\ held[call[c].owner] \in Images \cup {Torn}
      BY <1>4, <1>n, <1>t DEF ReadFile, DataTypes
    <2>2. CASE held[call[c].owner] # Torn /\ ~EndFileCall(c)
      <3> DEFINE n == [call[c] EXCEPT !.at = "truncate", !.image = held[call[c].owner]]
      <3>1. call' = [call EXCEPT ![c] = n] /\ UNCHANGED fileLock
        BY <1>4, <1>t, <2>2 DEF ReadFile, DataTypes
      <3>2. /\ n.at = "truncate" /\ n.image = held[call[c].owner] /\ n.owner = call[c].owner
            /\ n.key = call[c].key /\ n.value = call[c].value /\ n # NoCall /\ n \in CallRecords
        BY <1>t, <2>1, <2>2, NoCallFields DEF DataTypes, CallTypes, CallRecords
      <3> HIDE DEF n
      <3>3. DataTypes' /\ NeverTorn'
        BY <1>t, <2>1, <3>1, <3>2 DEF DataTypes, CallTypes, NeverTorn
      <3>4. OneWriter'
        BY <1>t, <2>1, <2>2, <3>1, <3>2 DEF DataTypes, OneWriter
      <3> QED
        BY <3>3, <3>4 DEF DataInv
    <2>3. CASE EndFileCall(c)
      BY <1>d, <2>1, <2>3
    <2> QED
      BY <1>4, <2>2, <2>3 DEF ReadFile
  <1>5. ASSUME NEW c \in Callers, TruncateFile(c)
        PROVE  DataInv'
    <2> DEFINE n == [call[c] EXCEPT !.at = "write"]
    <2>1. /\ call[c].at = "truncate" /\ UNCHANGED medium /\ medium = "file"
          /\ call[c] # NoCall /\ call[c].owner \in Owners /\ call[c].image \in Images
      BY <1>5, <1>n, <1>t DEF TruncateFile, OneWriter
    <2>0. CASE EndFileCall(c) /\ UNCHANGED held
      BY <1>d, <2>0, <2>1
    <2> SUFFICES ASSUME ~(EndFileCall(c) /\ UNCHANGED held) PROVE DataInv'
      BY <2>0
    <2>2. /\ held' = [held EXCEPT ![call[c].owner] = Torn] /\ call' = [call EXCEPT ![c] = n]
          /\ UNCHANGED fileLock
      BY <1>5, <1>t DEF TruncateFile, DataTypes
    <2>3. /\ n.at = "write" /\ n.image = call[c].image /\ n.owner = call[c].owner
          /\ n.key = call[c].key /\ n.value = call[c].value /\ n # NoCall /\ n \in CallRecords
      BY <1>t, <2>1, NoCallFields DEF DataTypes, CallTypes, CallRecords
    <2> HIDE DEF n
    <2>4. DataTypes' /\ NeverTorn'
      BY <1>t, <2>1, <2>2, <2>3 DEF DataTypes, CallTypes, NeverTorn
    <2>5. OneWriter'
      BY <1>t, <1>o, <2>1, <2>2, <2>3 DEF DataTypes, OneWriter
    <2> QED
      BY <2>4, <2>5 DEF DataInv
  <1>6. ASSUME NEW c \in Callers, WriteFile(c)
        PROVE  DataInv'
    <2> DEFINE i == [call[c].image EXCEPT ![call[c].key] = call[c].value]
    <2>1. /\ call[c].at = "write" /\ UNCHANGED medium /\ medium = "file"
          /\ call[c] # NoCall /\ call[c].owner \in Owners /\ i \in Images
      BY <1>6, <1>n, <1>t DEF WriteFile, OneWriter, Images
    <2>2. /\ held' = [held EXCEPT ![call[c].owner] = i] /\ call' = [call EXCEPT ![c] = NoCall]
          /\ fileLock' = [fileLock EXCEPT ![call[c].owner] = Nobody]
      BY <1>6 DEF WriteFile, EndFileCall
    <2> HIDE DEF i
    <2>3. DataTypes' /\ NeverTorn'
      BY <1>t, <2>1, <2>2 DEF DataTypes, CallTypes, NeverTorn
    <2>4. OneWriter'
      BY <1>t, <1>o, <2>1, <2>2, NoCallFields DEF DataTypes, OneWriter
    <2> QED
      BY <2>3, <2>4 DEF DataInv
  <1>7. CASE RestartProcess
    <2>1. Empty \in Images
      BY DEF Empty, Images
    <2> QED
      BY <1>7, <1>t, <2>1, NoCallFields DEF RestartProcess, DataInv, DataTypes, CallTypes, OneWriter,
         NeverTorn
  <1>f. ASSUME NEW c \in Callers, FailWrite(c)
        PROVE  DataInv'
    BY <1>d, <1>f DEF FailWrite
  <1>8. CASE UNCHANGED dataVars
    BY <1>8, <1>t DEF dataVars, DataInv, DataTypes, CallTypes, OneWriter, NeverTorn
  <1> QED
    BY <1>1, <1>2, <1>3, <1>4, <1>5, <1>6, <1>7, <1>8, <1>f DEF DataNext

KVData == [o \in Owners |-> Contents(o)]
KVBusy == [c \in Callers |-> call[c].owner]

\* What a session holds is what its file holds, or what its writer has read.
HeldOrRead ==
    \A o \in Owners :
        /\ Writers(o) = {} => KVData[o] = held[o]
        /\ \A c \in Callers : call[c].owner = o /\ call[c].at = "write" =>
               KVData[o] = call[c].image
        /\ held[o] # Torn => KVData[o] = held[o]

\* Whoever writes a file is alone with it, and has read what the session holds.
LEMMA ContentsAre == DataInv => HeldOrRead
PROOF
  <1>1. ASSUME DataInv, NEW o \in Owners, NEW c \in Callers, call[c].owner = o, call[c].at = "write"
        PROVE  KVData[o] = call[c].image
    <2>1. \A d \in Writers(o) : d = c
      BY <1>1 DEF Writers, DataInv, OneWriter
    <2>2. c \in Writers(o) /\ held[o] = Torn
      BY <1>1 DEF Writers, DataInv, OneWriter
    <2>3. (CHOOSE d \in Writers(o) : TRUE) = c
      BY <2>1, <2>2
    <2> QED
      BY <2>2, <2>3 DEF Contents, KVData
  <1> QED
    BY <1>1 DEF Contents, KVData, HeldOrRead

\* A step of a call that changes neither what the sessions hold nor who is
\* busy is no step of the map.
LEMMA DataRefines ==
  ASSUME DataInv, DataInv', [DataNext]_dataVars
  PROVE  [KV!Next]_(KV!kvVars)
PROOF
  <1> USE DataAssumption
  <1>t. DataTypes /\ OneWriter /\ NeverTorn /\ DataTypes' /\ OneWriter' /\ NeverTorn'
    BY DEF DataInv
  <1>n. \A c \in Callers : call[c].at \in {"lock", "read", "truncate", "write", "apply"} =>
            /\ call[c] # NoCall /\ call[c].owner \in Owners /\ call[c].owner # Nobody
            /\ call[c].key \in Keys /\ call[c].value \in Values \cup {Absent}
            /\ call[c].at = "apply" <=> medium # "file"
    BY <1>t, NoCallFields DEF DataTypes, CallTypes, CallRecords, OneWriter
  <1>i. Torn \notin Images
    BY DEF Images
  <1>c. HeldOrRead /\ HeldOrRead'
    BY ContentsAre, PTL
  <1>k. /\ KVData = [o \in Owners |-> KVData[o]] /\ KVData' = [o \in Owners |-> KVData'[o]]
        /\ KVBusy = [c \in Callers |-> call[c].owner] /\ KVBusy' = [c \in Callers |-> call'[c].owner]
    BY DEF KVData, KVBusy
  <1>m. DOMAIN call = Callers /\ medium' = medium
    BY <1>t DEF DataTypes, DataNext, dataVars, BeginCall, Apply, LockFile, ReadFile, TruncateFile,
       WriteFile, FailWrite, EndFileCall, RestartProcess
  <1>e. \A c \in Callers : call[c] # NoCall => DOMAIN call[c] = DOMAIN NoCall
    BY <1>t DEF DataTypes, CallTypes, CallRecords, NoCall
  <1>v. KV!kvVars = <<KVData, KVBusy>>
    BY DEF KV!kvVars, KVData, KVBusy
  <1>p. ASSUME NEW c \in Callers, KVBusy[c] # Nobody, KVData[KVBusy[c]] # Torn,
               \E k \in Keys, v \in Values \cup {Absent} : KVData' = [KVData EXCEPT ![KVBusy[c]][k] = v],
               KVBusy' = [KVBusy EXCEPT ![c] = Nobody]
        PROVE  KV!Put(c)
    BY <1>p, Zenon DEF KV!Put, KVData, KVBusy
  <1>r. ASSUME KVBusy' = [c \in Callers |-> Nobody],
               \/ KVData' = [o \in Owners |-> [k \in Keys |-> Absent]]
               \/ \E torn \in SUBSET {KVBusy[c] : c \in Callers} :
                     KVData' = [o \in Owners |-> IF o \in torn THEN Torn ELSE KVData[o]]
        PROVE  KV!Restart
    BY <1>r, Zenon DEF KV!Restart, KVData, KVBusy
  <1>w. ASSUME NEW o \in Owners, held'[o] = held[o],
               \A d \in Callers :
                   \/ call'[d] = call[d]
                   \/ /\ ~(call[d].owner = o /\ call[d].at = "write")
                      /\ ~(call'[d].owner = o /\ call'[d].at = "write")
        PROVE  KVData'[o] = KVData[o]
    <2>1. CASE Writers(o) = {}
      <3>1. Writers(o)' = {}
        BY <1>w, <2>1 DEF Writers
      <3> QED
        BY <1>c, <1>w, <2>1, <3>1 DEF HeldOrRead
    <2>2. CASE Writers(o) # {}
      <3>1. PICK d \in Callers : call[d].owner = o /\ call[d].at = "write"
        BY <2>2 DEF Writers
      <3> QED
        BY <1>c, <1>w, <3>1 DEF HeldOrRead
    <2> QED
      BY <2>1, <2>2
  <1>1. ASSUME NEW c \in Callers, NEW o \in Owners, NEW k \in Keys, NEW v \in Values \cup {Absent},
               BeginCall(c, o, k, v)
        PROVE  KV!Call(c, o)
    <2>1. /\ call[c].owner = Nobody /\ UNCHANGED held
          /\ \A d \in Callers \ {c} : call'[d] = call[d]
          /\ call'[c].owner = o /\ call'[c].at # "write" /\ call[c].at # "write"
      BY <1>1, <1>m, NoCallFields DEF BeginCall
    <2>2. KVBusy' = [KVBusy EXCEPT ![c] = o]
      BY <1>k, <2>1
    <2>3. \A p \in Owners : KVData'[p] = KVData[p]
      BY <1>w, <2>1
    <2> QED
      BY <1>k, <2>1, <2>2, <2>3 DEF KV!Call, KVData, KVBusy
  <1>2. ASSUME NEW c \in Callers, Apply(c)
        PROVE  KV!Put(c) \/ KV!Answer(c)
    <2> DEFINE o == call[c].owner
               k == call[c].key
               v == call[c].value
    <2>1. /\ o \in Owners /\ o # Nobody /\ k \in Keys /\ v \in Values \cup {Absent} /\ medium # "file"
          /\ \A d \in Callers : call[d].at # "write" /\ call'[d].at # "write"
      BY <1>2, <1>m, <1>n, <1>t, <1>e, NoCallFields DEF Apply, OneWriter, DataTypes
    <2>2. \A p \in Owners : KVData'[p] = held'[p] /\ KVData[p] = held[p] /\ held[p] # Torn
      BY <1>c, <1>i, <1>t, <2>1 DEF HeldOrRead, Writers, NeverTorn
    <2>3. KVBusy' = [KVBusy EXCEPT ![c] = Nobody]
      BY <1>2, <1>k, <1>m, NoCallFields DEF Apply
    <2>4. CASE held' = [held EXCEPT ![o][k] = v]
      <3>1. KVData' = [KVData EXCEPT ![o][k] = v]
        BY <1>k, <1>t, <2>1, <2>2, <2>4 DEF DataTypes
      <3> QED
        BY <1>k, <1>p, <2>1, <2>2, <2>3, <3>1
    <2>5. CASE UNCHANGED held
      <3>1. KVData' = KVData
        BY <1>k, <2>2, <2>5
      <3> QED
        BY <1>k, <2>1, <2>3, <3>1 DEF KV!Answer, KVData, KVBusy
    <2> QED
      BY <1>2, <2>4, <2>5 DEF Apply
  <1>3. ASSUME NEW c \in Callers, LockFile(c)
        PROVE  UNCHANGED KV!kvVars
    <2>1. /\ call[c].at = "lock" /\ call'[c].at = "read" /\ call'[c].owner = call[c].owner /\ UNCHANGED held
          /\ \A d \in Callers \ {c} : call'[d] = call[d]
      BY <1>3, <1>m DEF LockFile
    <2>2. \A p \in Owners : KVData'[p] = KVData[p]
      BY <1>w, <2>1
    <2> QED
      BY <1>k, <2>1, <2>2 DEF KV!kvVars, KVData, KVBusy
  <1>4. ASSUME NEW c \in Callers, ReadFile(c)
        PROVE  KV!Answer(c) \/ UNCHANGED KV!kvVars
    <2>1. /\ call[c].at = "read" /\ call'[c].at # "write" /\ UNCHANGED held
          /\ call'[c].owner \in {call[c].owner, Nobody} /\ call[c].owner # Nobody
          /\ \A d \in Callers \ {c} : call'[d] = call[d]
      <3> DEFINE n == [call[c] EXCEPT !.at = "truncate", !.image = held[call[c].owner]]
      <3>1. /\ call[c].at = "read" /\ UNCHANGED held /\ call[c] # NoCall /\ call[c].owner # Nobody
            /\ call' = [call EXCEPT ![c] = NoCall] \/ call' = [call EXCEPT ![c] = n]
        BY <1>4, <1>m, <1>n DEF ReadFile, EndFileCall
      <3>2. n.at = "truncate" /\ n.owner = call[c].owner
        BY <1>t, <3>1 DEF DataTypes, CallTypes, CallRecords
      <3> HIDE DEF n
      <3> QED
        BY <1>m, <3>1, <3>2, NoCallFields
    <2>2. \A p \in Owners : KVData'[p] = KVData[p]
      BY <1>w, <2>1
    <2>3. CASE call'[c].owner = call[c].owner
      BY <1>k, <2>1, <2>2, <2>3 DEF KV!kvVars, KVData, KVBusy
    <2>4. CASE call'[c].owner = Nobody
      <3>1. KVBusy' = [KVBusy EXCEPT ![c] = Nobody]
        BY <1>k, <2>1, <2>4
      <3> QED
        BY <1>k, <2>1, <2>2, <3>1 DEF KV!Answer, KVData, KVBusy
    <2> QED
      BY <2>1, <2>3, <2>4
  <1>5. ASSUME NEW c \in Callers, TruncateFile(c)
        PROVE  KV!Answer(c) \/ UNCHANGED KV!kvVars
    <2> DEFINE o == call[c].owner
    <2>0. CASE EndFileCall(c) /\ UNCHANGED held
      <3>1. /\ call[c].at = "truncate" /\ o # Nobody /\ call'[c].at # "write" /\ call'[c].owner = Nobody
            /\ \A d \in Callers \ {c} : call'[d] = call[d]
        BY <1>5, <1>m, <1>n, <2>0, NoCallFields DEF TruncateFile, EndFileCall
      <3>2. \A p \in Owners : KVData'[p] = KVData[p]
        BY <1>w, <2>0, <3>1
      <3>3. KVBusy' = [KVBusy EXCEPT ![c] = Nobody]
        BY <1>k, <3>1
      <3> QED
        BY <1>k, <3>1, <3>2, <3>3 DEF KV!Answer, KVData, KVBusy
    <2> SUFFICES ASSUME ~(EndFileCall(c) /\ UNCHANGED held) PROVE UNCHANGED KV!kvVars
      BY <2>0
    <2>9. /\ held' = [held EXCEPT ![o] = Torn] /\ call' = [call EXCEPT ![c].at = "write"]
          /\ call[c].at = "truncate"
      BY <1>5 DEF TruncateFile
    <2>1. /\ call[c].at = "truncate" /\ call'[c].at = "write" /\ call'[c].owner = o
          /\ call'[c].image = call[c].image /\ o \in Owners
          /\ \A p \in Owners \ {o} : held'[p] = held[p]
          /\ \A d \in Callers \ {c} : call'[d] = call[d]
      BY <1>m, <1>n, <1>t, <2>9 DEF DataTypes
    <2>2. \A p \in Owners \ {o} : KVData'[p] = KVData[p]
      BY <1>w, <2>1
    <2>3. KVData'[o] = call[c].image
      BY <1>c, <2>1 DEF HeldOrRead
    <2>4. call[c].image = held[o] /\ held[o] # Torn
      BY <1>t, <1>i, <2>1 DEF OneWriter
    <2>5. KVData[o] = held[o]
      BY <1>c, <2>1, <2>4 DEF HeldOrRead
    <2> QED
      BY <1>k, <2>1, <2>2, <2>3, <2>4, <2>5 DEF KV!kvVars, KVData, KVBusy
  <1>6. ASSUME NEW c \in Callers, WriteFile(c)
        PROVE  KV!Put(c)
    <2> DEFINE o == call[c].owner
               k == call[c].key
               v == call[c].value
    <2>1. /\ o \in Owners /\ o # Nobody /\ k \in Keys /\ v \in Values \cup {Absent}
          /\ call[c].at = "write" /\ call'[c].owner = Nobody /\ call'[c].at # "write"
          /\ \A p \in Owners \ {o} : held'[p] = held[p]
          /\ \A d \in Callers \ {c} : call'[d] = call[d]
          /\ held'[o] = [call[c].image EXCEPT ![k] = v]
      BY <1>6, <1>m, <1>n, <1>t, NoCallFields DEF WriteFile, EndFileCall, DataTypes
    <2>2. \A p \in Owners \ {o} : KVData'[p] = KVData[p]
      BY <1>w, <2>1
    <2>3. KVData[o] = call[c].image /\ call[c].image \in Images
      BY <1>c, <1>t, <2>1 DEF HeldOrRead, OneWriter
    <2>4. held'[o] \in Images
      BY <2>1, <2>3 DEF Images
    <2>5. KVData'[o] = [KVData[o] EXCEPT ![k] = v]
      BY <1>c, <1>i, <2>1, <2>3, <2>4 DEF HeldOrRead
    <2>6. KVData' = [KVData EXCEPT ![o][k] = v]
      BY <1>k, <2>1, <2>2, <2>5
    <2>7. KVBusy' = [KVBusy EXCEPT ![c] = Nobody]
      BY <1>k, <2>1
    <2>8. KVBusy[c] = o /\ KVData[o] # Torn
      BY <1>k, <1>i, <2>1, <2>3
    <2> QED
      BY <1>p, <2>1, <2>6, <2>7, <2>8
  <1>f. ASSUME NEW c \in Callers, FailWrite(c)
        PROVE  KV!Spoil(c)
    <2> DEFINE o == call[c].owner
    <2>1. /\ o \in Owners /\ o # Nobody /\ UNCHANGED held
          /\ call[c].at = "write" /\ call'[c].owner = Nobody /\ call'[c].at # "write"
          /\ \A d \in Callers \ {c} : call'[d] = call[d]
      BY <1>f, <1>m, <1>n, NoCallFields DEF FailWrite, EndFileCall
    <2>2. \A p \in Owners \ {o} : KVData'[p] = KVData[p]
      BY <1>w, <2>1
    <2>3. held[o] = Torn /\ \A p \in Owners : p = o => Writers(p)' = {}
      BY <1>t, <2>1 DEF OneWriter, Writers
    <2>4. KVData'[o] = Torn
      BY <1>c, <2>1, <2>3 DEF HeldOrRead
    <2>5. KVData' = [KVData EXCEPT ![KVBusy[c]] = Torn] /\ KVBusy' = [KVBusy EXCEPT ![c] = Nobody]
      BY <1>k, <2>1, <2>2, <2>4
    <2>6. KVBusy[c] # Nobody
      BY <1>k, <2>1
    <2> QED
      BY <2>5, <2>6, Zenon DEF KV!Spoil, KVData, KVBusy
  <1>7. CASE RestartProcess
    <2>1. \A d \in Callers : call'[d].owner = Nobody /\ call'[d].at # "write"
      BY <1>7, NoCallFields DEF RestartProcess
    <2>2. \A p \in Owners : KVData'[p] = held'[p]
      BY <1>c, <2>1 DEF HeldOrRead, Writers
    <2>3. KVBusy' = [c \in Callers |-> Nobody]
      BY <1>k, <2>1
    <2>4. CASE medium = "map"
      <3>1. KVData' = [o \in Owners |-> [k \in Keys |-> Absent]]
        BY <1>7, <1>k, <2>2, <2>4 DEF RestartProcess, Empty
      <3> QED
        BY <1>r, <2>3, <3>1 DEF KV!Next
    <2>5. CASE medium # "map"
      <3> DEFINE torn == {o \in Owners : Writers(o) # {}}
      <3>1. torn \in SUBSET {KVBusy[c] : c \in Callers}
        BY <1>k DEF Writers
      <3>2. ASSUME NEW o \in Owners
            PROVE  KVData'[o] = IF o \in torn THEN Torn ELSE KVData[o]
        <4>1. KVData'[o] = held[o]
          BY <1>7, <2>2, <2>5 DEF RestartProcess
        <4>2. CASE o \in torn
          <5>1. held[o] = Torn
            BY <1>t, <4>2 DEF Writers, OneWriter
          <5> QED
            BY <4>1, <4>2, <5>1
        <4>3. CASE o \notin torn
          BY <1>c, <4>1, <4>3 DEF HeldOrRead
        <4> QED
          BY <4>2, <4>3
      <3> HIDE DEF torn
      <3>3. KVData' = [o \in Owners |-> IF o \in torn THEN Torn ELSE KVData[o]]
        BY <1>k, <3>2
      <3> QED
        BY <1>r, <2>3, <3>1, <3>3 DEF KV!Next
    <2> QED
      BY <2>4, <2>5
  <1>8. CASE UNCHANGED dataVars
    <2>1. \A p \in Owners : KVData'[p] = KVData[p]
      BY <1>8, <1>w DEF dataVars
    <2> QED
      BY <1>8, <1>k, <2>1 DEF dataVars, KV!kvVars, KVData, KVBusy
  <1> QED
    BY <1>1, <1>2, <1>3, <1>4, <1>5, <1>6, <1>7, <1>8, <1>f DEF DataNext, KV!Next

\* The stores of a session's data, for any callers, sessions, keys and crashes:
\* each is a map whose calls change one key of one session at once, and only a
\* crash or a failed write spoils a session, the one that was being written.
THEOREM DataIsKeyValue == DataSpec => ImplementsKeyValue
PROOF
  <1>1. DataInit => KV!Init
    <2> SUFFICES ASSUME DataInit PROVE KV!Init
      OBVIOUS
    <2>1. \A o \in Owners : KVData[o] = Empty
      BY NoCallFields DEF DataInit, KVData, Contents, Writers
    <2> QED
      BY <2>1, NoCallFields DEF DataInit, KV!Init, KVData, Empty
  <1> QED
    BY <1>1, DataInitInv, DataStepInv, DataRefines, PTL DEF DataSpec, ImplementsKeyValue, KV!Spec
-----------------------------------------------------------------------------
(* MemoryRunStore.                                                           *)

RunStoreSpec == RunStoreInit /\ [][RunStoreNext]_runStoreVars

Operations == [op: {"create", "update", "append", "delete"}, at: {"runs", "events", "projections"},
               run: Runs, status: Statuses \cup {Kept}, seq: Nat, stray: BOOLEAN]

States == Statuses \cup {"none", "pending", Kept}
Projections == [status: States, count: Nat]

RunStoreTypes ==
    /\ runs \in [Runs -> States]
    /\ events \in [Runs -> Seq(Nat)]
    /\ projections \in [Runs -> Projections]
    /\ sequence \in Nat
    /\ lock \in [Maps -> RunClients \cup {NoOne}]
    /\ doing \in [RunClients -> Operations \cup {Free}]

\* Who holds which lock, by the await its operation is at.
LocksOf(c) ==
    /\ lock["runs"] = c <=> Doing(c, "update", "projections")
    /\ lock["events"] = c <=> Doing(c, "append", "projections") \/ Doing(c, "append", "runs")
    /\ lock["projections"] = c <=> Doing(c, "append", "runs")

LocksHeld == \A c \in RunClients : LocksOf(c)

\* An event is of a run that was met unsettled, or is still settled unless it
\* is marked; without a projection it is marked.
Marked(c) ==
    doing[c].op = "append" =>
        /\ doing[c].run \in strayed \cup returned
        /\ doing[c].stray => doing[c].run \in strayed \cup doomed
        /\ ~doing[c].stray => doing[c].run \in Settled
        /\ doing[c].at = "runs" => doing[c].stray

AppendsMarked == \A c \in RunClients : Marked(c)

\* A run is created once; deleting it is announced.
OnceCreated ==
    /\ begun \subseteq Runs /\ returned \subseteq begun
    /\ \A c \in RunClients :
        /\ doing[c].op = "delete" => doing[c].run \in doomed
        /\ doing[c].op = "create" =>
               /\ doing[c].run \in begun \ returned
               /\ \A d \in RunClients \ {c} : doing[d].op = "create" => doing[d].run # doing[c].run

Projected ==
    /\ \A r \in Settled : projections[r].status # "none"
    /\ \A r \in Runs \ (returned \cup strayed) : events[r] = <<>>
    /\ ProjectionCountsEvents

RunStoreInv == RunStoreTypes /\ LocksHeld /\ AppendsMarked /\ OnceCreated /\ Projected

\* The one operation a step changes.
LEMMA FreeFields == Free.op = "none" /\ Free.at = "none"
BY DEF Free

MovedTo(c, at) ==
    /\ doing' \in [RunClients -> Operations \cup {Free}]
    /\ doing'[c].at = at /\ doing'[c].op = doing[c].op /\ doing'[c].run = doing[c].run
    /\ doing'[c].status = doing[c].status /\ doing'[c].stray = doing[c].stray
    /\ doing'[c].seq = doing[c].seq /\ doing'[c] # Free
    /\ \A d \in RunClients \ {c} : doing'[d] = doing[d]

FreeAgain(c) ==
    /\ doing' \in [RunClients -> Operations \cup {Free}]
    /\ doing'[c] = Free
    /\ \A d \in RunClients \ {c} : doing'[d] = doing[d]

Working(c, op, at) ==
    /\ doing[c] # Free /\ doing[c].op = op /\ doing[c].at = at
    /\ doing[c].run \in Runs /\ doing[c].status \in Statuses \cup {Kept}
    /\ doing[c].seq \in Nat /\ doing[c].stray \in BOOLEAN

\* An operation goes on to its next lock, or ends; no other is changed.
LEMMA Moved ==
  ASSUME RunStoreTypes, NEW c \in RunClients, NEW at \in {"runs", "events", "projections"},
         doing[c] # Free, Step(c, at)
  PROVE  MovedTo(c, at)
PROOF
  <1> DEFINE n == [doing[c] EXCEPT !.at = at]
  <1>1. doing[c] \in Operations
    BY DEF RunStoreTypes
  <1>2. /\ n \in Operations /\ n.at = at /\ n.op = doing[c].op /\ n.run = doing[c].run
        /\ n.status = doing[c].status /\ n.stray = doing[c].stray /\ n.seq = doing[c].seq
        /\ n # Free
    BY <1>1, FreeFields DEF Operations
  <1>3. doing' = [doing EXCEPT ![c] = n]
    BY DEF Step, RunStoreTypes
  <1> HIDE DEF n
  <1> QED
    BY <1>2, <1>3 DEF RunStoreTypes, MovedTo

\* An operation ends; no other is changed.
LEMMA Ended ==
  ASSUME RunStoreTypes, NEW c \in RunClients, Done(c)
  PROVE  FreeAgain(c)
BY DEF Done, RunStoreTypes, FreeAgain

\* What an operation under way is on.
LEMMA AtWork ==
  ASSUME RunStoreTypes, NEW c \in RunClients, NEW op, NEW at, op # "none", Doing(c, op, at)
  PROVE  Working(c, op, at)
BY FreeFields DEF RunStoreTypes, Operations, Doing, Working

Goes(c) == FreeAgain(c) \/ \E at \in {"runs", "events", "projections"} : MovedTo(c, at)

\* The locks of the others are theirs as long as a step only takes a free lock
\* or gives back its own.
LEMMA LocksStay ==
  ASSUME LocksHeld, RunStoreTypes, NEW c \in RunClients, Goes(c), LocksOf(c)',
         \A m \in Maps : \/ lock'[m] = lock[m]
                         \/ lock[m] \in {c, NoOne} /\ lock'[m] \in {c, NoOne}
  PROVE  LocksHeld'
PROOF
  <1>1. ASSUME NEW d \in RunClients \ {c}
        PROVE  LocksOf(d)'
    <2>1. doing'[d] = doing[d] /\ LocksOf(d) /\ d # NoOne /\ d # c
      BY RunStoreAssumption DEF Goes, FreeAgain, MovedTo, LocksHeld
    <2>2. \A m \in Maps : lock'[m] = d <=> lock[m] = d
      BY <2>1
    <2> QED
      BY <2>1, <2>2 DEF LocksOf, Doing, Maps
  <1> QED
    BY <1>1 DEF LocksHeld

\* The events of the others stay marked as long as nothing is deleted and no
\* append begins.
LEMMA MarksStay ==
  ASSUME AppendsMarked, NEW c \in RunClients, Goes(c), strayed' = strayed, doomed' = doomed,
         returned \subseteq returned', doing[c].op # "append" \/ FreeAgain(c) \/ Marked(c)'
  PROVE  AppendsMarked'
PROOF
  <1>1. ASSUME NEW d \in RunClients
        PROVE  Marked(d)'
    <2>1. CASE d # c
      BY <2>1 DEF Goes, FreeAgain, MovedTo, AppendsMarked, Marked, Settled
    <2>2. CASE d = c
      BY <2>2, FreeFields DEF Goes, FreeAgain, MovedTo, Marked
    <2> QED
      BY <2>1, <2>2
  <1> QED
    BY <1>1 DEF AppendsMarked

\* A run is created once, whatever operation goes on.
LEMMA CreationsStay ==
  ASSUME OnceCreated, NEW c \in RunClients, Goes(c), begun' = begun, doomed' = doomed,
         \/ returned' = returned
         \/ doing[c].op = "create" /\ returned' = returned \cup {doing[c].run} /\ FreeAgain(c)
  PROVE  OnceCreated'
PROOF
  <1>1. \A d \in RunClients \ {c} : doing'[d] = doing[d]
    BY DEF Goes, FreeAgain, MovedTo
  <1>2. \/ doing'[c] = Free
        \/ doing'[c].op = doing[c].op /\ doing'[c].run = doing[c].run /\ returned' = returned
    BY FreeFields DEF Goes, FreeAgain, MovedTo
  <1>3. begun' \subseteq Runs /\ returned' \subseteq begun'
    BY DEF OnceCreated
  <1>4. ASSUME NEW d \in RunClients, doing'[d].op = "delete"
        PROVE  doing'[d].run \in doomed'
    BY <1>1, <1>2, <1>4, FreeFields DEF OnceCreated
  <1>5. ASSUME NEW d \in RunClients, doing'[d].op = "create"
        PROVE  /\ doing[d].op = "create" /\ doing[d].run = doing'[d].run
               /\ doing'[d].run \in begun' \ returned'
    BY <1>1, <1>2, <1>5, FreeFields DEF OnceCreated
  <1>6. ASSUME NEW d \in RunClients, doing'[d].op = "create",
               NEW e \in RunClients \ {d}, doing'[e].op = "create"
        PROVE  doing'[e].run # doing'[d].run
    BY <1>5, <1>6 DEF OnceCreated
  <1> QED
    BY <1>3, <1>4, <1>5, <1>6 DEF OnceCreated

\* An operation begins on a free client and waits for its first lock.
LEMMA Begun ==
  ASSUME RunStoreTypes, LocksHeld, AppendsMarked, OnceCreated, Projected,
         NEW c \in RunClients, doing[c] = Free, NEW n \in Operations, doing' = [doing EXCEPT ![c] = n],
         UNCHANGED <<runs, events, projections, lock, returned, doomed>>, sequence' \in Nat,
         n.op # "delete", n.at # "projections", n.op = "append" => n.at = "events",
         n.op = "create" => n.run \notin begun,
         begun' = IF n.op = "create" THEN begun \cup {n.run} ELSE begun,
         strayed \subseteq strayed',
         n.op = "append" => IF n.run \in Settled THEN ~n.stray ELSE n.stray /\ n.run \in strayed'
  PROVE  RunStoreInv'
PROOF
  <1>1. /\ doing'[c] = n /\ n.op \in {"create", "update", "append", "delete"} /\ n.run \in Runs
        /\ \A d \in RunClients \ {c} : doing'[d] = doing[d]
    BY DEF RunStoreTypes, Operations
  <1>2. RunStoreTypes'
    BY DEF RunStoreTypes
  <1>3. LocksHeld'
    <2>1. ASSUME NEW d \in RunClients \ {c}
          PROVE  LocksOf(d)'
      BY <1>1 DEF LocksHeld, LocksOf, Doing
    <2>2. LocksOf(c)'
      BY <1>1, FreeFields DEF LocksHeld, LocksOf, Doing
    <2> QED
      BY <2>1, <2>2 DEF LocksHeld
  <1>4. AppendsMarked'
    <2>1. ASSUME NEW d \in RunClients \ {c}
          PROVE  Marked(d)'
      BY <1>1 DEF AppendsMarked, Marked, Settled
    <2>2. Marked(c)'
      BY <1>1 DEF Marked, Settled
    <2> QED
      BY <2>1, <2>2 DEF AppendsMarked
  <1>5. OnceCreated'
    BY <1>1 DEF OnceCreated
  <1>6. Projected'
    BY DEF Projected, ProjectionCountsEvents, Settled
  <1> QED
    BY <1>2, <1>3, <1>4, <1>5, <1>6 DEF RunStoreInv

\* Every step keeps the invariant.
LEMMA RunStoreStep == RunStoreInv /\ [RunStoreNext]_runStoreVars => RunStoreInv'
PROOF
  <1> SUFFICES ASSUME RunStoreInv, [RunStoreNext]_runStoreVars PROVE RunStoreInv'
    OBVIOUS
  <1> USE RunStoreAssumption
  <1>t. RunStoreTypes /\ LocksHeld /\ AppendsMarked /\ OnceCreated /\ Projected
    BY DEF RunStoreInv
  <1>e. NoProjection \in Projections /\ \A p \in Projections, x \in Statuses \cup {Kept} : Applied(p, x) \in Projections
    BY DEF Projections, States, NoProjection, Applied
  <1>1. ASSUME NEW c \in RunClients, InsertRun(c)
        PROVE  RunStoreInv'
    <2>1. Working(c, "create", "runs")
      BY <1>t, <1>1, AtWork DEF InsertRun
    <2>2. MovedTo(c, "projections")
      BY <1>t, <1>1, <2>1, Moved DEF InsertRun, Working
    <2>3. Goes(c)
      BY <2>2 DEF Goes
    <2>4. RunStoreTypes'
      BY <1>t, <1>e, <1>1, <2>1, <2>2 DEF InsertRun, Working, MovedTo, FreeAgain, RunStoreTypes, States
    <2>5. LocksOf(c)'
      BY <1>t, <1>1, <2>1, <2>2, FreeFields DEF InsertRun, Working, MovedTo, FreeAgain, LocksOf,
         LocksHeld, Doing, RunStoreTypes, Maps, Available
    <2>6. LocksHeld'
      <3>1. \A m \in Maps : \/ lock'[m] = lock[m]
                            \/ lock[m] \in {c, NoOne} /\ lock'[m] \in {c, NoOne}
        BY <1>t, <1>1, <2>1 DEF InsertRun, Working, LocksHeld, LocksOf, Doing, Available,
           RunStoreTypes, Maps
      <3> QED
        BY <1>t, <2>3, <2>5, <3>1, LocksStay
    <2>7. AppendsMarked'
      BY <1>t, <1>1, <2>1, <2>2, <2>3, MarksStay DEF InsertRun, Working
    <2>8. OnceCreated'
      BY <1>t, <1>1, <2>1, <2>2, <2>3, CreationsStay DEF InsertRun, Working
    <2>9. Projected'
      BY <1>t, <1>1, <2>1, <2>2 DEF InsertRun, Working, RunStoreTypes, Projections, Projected,
         ProjectionCountsEvents, Settled, NoProjection, Applied, AppendsMarked, Marked, OnceCreated
    <2> QED
      BY <2>4, <2>6, <2>7, <2>8, <2>9 DEF RunStoreInv
  <1>2. ASSUME NEW c \in RunClients, InsertProjection(c)
        PROVE  RunStoreInv'
    <2>1. Working(c, "create", "projections")
      BY <1>t, <1>2, AtWork DEF InsertProjection
    <2>2. FreeAgain(c)
      BY <1>t, <1>2, <2>1, Ended DEF InsertProjection, Working
    <2>3. Goes(c)
      BY <2>2 DEF Goes
    <2>4. RunStoreTypes'
      <3>1. projections' \in [Runs -> Projections]
        BY <1>t, <1>e, <1>2, <2>1 DEF InsertProjection, Working, RunStoreTypes, Projections, States
      <3>2. lock' \in [Maps -> RunClients \cup {NoOne}]
        BY <1>t, <1>2 DEF InsertProjection, RunStoreTypes
      <3>3. runs' \in [Runs -> States] /\ events' \in [Runs -> Seq(Nat)] /\ sequence' \in Nat
        BY <1>t, <1>2, <2>1 DEF InsertProjection, Working, RunStoreTypes, States
      <3> QED
        BY <2>2, <3>1, <3>2, <3>3 DEF MovedTo, FreeAgain, RunStoreTypes
    <2>5. LocksOf(c)'
      BY <1>t, <1>2, <2>1, <2>2, FreeFields DEF InsertProjection, Working, MovedTo, FreeAgain,
         LocksOf, LocksHeld, Doing, RunStoreTypes, Maps, Available
    <2>6. LocksHeld'
      <3>1. \A m \in Maps : \/ lock'[m] = lock[m]
                            \/ lock[m] \in {c, NoOne} /\ lock'[m] \in {c, NoOne}
        BY <1>t, <1>2, <2>1 DEF InsertProjection, Working, LocksHeld, LocksOf, Doing, Available,
           RunStoreTypes, Maps
      <3> QED
        BY <1>t, <2>3, <2>5, <3>1, LocksStay
    <2>7. AppendsMarked'
      BY <1>t, <1>2, <2>1, <2>2, <2>3, MarksStay DEF InsertProjection, Working
    <2>8. OnceCreated'
      BY <1>t, <1>2, <2>1, <2>2, <2>3, CreationsStay DEF InsertProjection, Working
    <2>9. Projected'
      BY <1>t, <1>2, <2>1, <2>2 DEF InsertProjection, Working, RunStoreTypes, Projections, Projected,
         ProjectionCountsEvents, Settled, NoProjection, Applied, AppendsMarked, Marked, OnceCreated
    <2> QED
      BY <2>4, <2>6, <2>7, <2>8, <2>9 DEF RunStoreInv
  <1>3. ASSUME NEW c \in RunClients, SetStatus(c)
        PROVE  RunStoreInv'
    <2>1. Working(c, "update", "runs")
      BY <1>t, <1>3, AtWork DEF SetStatus
    <2>2. \/ runs[doing[c].run] = "none" /\ FreeAgain(c)
          \/ runs[doing[c].run] # "none" /\ MovedTo(c, "projections")
      <3>1. CASE runs[doing[c].run] = "none"
        BY <1>t, <1>3, <2>1, <3>1, Ended DEF SetStatus, Working
      <3>2. CASE runs[doing[c].run] # "none"
        BY <1>t, <1>3, <2>1, <3>2, Moved DEF SetStatus, Working
      <3> QED
        BY <3>1, <3>2
    <2>3. Goes(c)
      BY <2>2 DEF Goes
    <2>4. RunStoreTypes'
      <3>1. projections' \in [Runs -> Projections]
        BY <1>t, <1>e, <1>3, <2>1 DEF SetStatus, Working, RunStoreTypes, Projections, States
      <3>2. lock' \in [Maps -> RunClients \cup {NoOne}]
        BY <1>t, <1>3 DEF SetStatus, RunStoreTypes
      <3>3. runs' \in [Runs -> States] /\ events' \in [Runs -> Seq(Nat)] /\ sequence' \in Nat
        BY <1>t, <1>3, <2>1 DEF SetStatus, Working, RunStoreTypes, States
      <3> QED
        BY <2>2, <3>1, <3>2, <3>3 DEF MovedTo, FreeAgain, RunStoreTypes
    <2>5. LocksOf(c)'
      BY <1>t, <1>3, <2>1, <2>2, FreeFields DEF SetStatus, Working, MovedTo, FreeAgain, LocksOf,
         LocksHeld, Doing, RunStoreTypes, Maps, Available
    <2>6. LocksHeld'
      <3>1. \A m \in Maps : \/ lock'[m] = lock[m]
                            \/ lock[m] \in {c, NoOne} /\ lock'[m] \in {c, NoOne}
        BY <1>t, <1>3, <2>1 DEF SetStatus, Working, LocksHeld, LocksOf, Doing, Available,
           RunStoreTypes, Maps
      <3> QED
        BY <1>t, <2>3, <2>5, <3>1, LocksStay
    <2>7. AppendsMarked'
      BY <1>t, <1>3, <2>1, <2>2, <2>3, MarksStay DEF SetStatus, Working
    <2>8. OnceCreated'
      BY <1>t, <1>3, <2>1, <2>2, <2>3, CreationsStay DEF SetStatus, Working
    <2>9. Projected'
      BY <1>t, <1>3, <2>1, <2>2 DEF SetStatus, Working, RunStoreTypes, Projections, Projected,
         ProjectionCountsEvents, Settled, NoProjection, Applied, AppendsMarked, Marked, OnceCreated
    <2> QED
      BY <2>4, <2>6, <2>7, <2>8, <2>9 DEF RunStoreInv
  <1>4. ASSUME NEW c \in RunClients, ProjectStatus(c)
        PROVE  RunStoreInv'
    <2>1. Working(c, "update", "projections")
      BY <1>t, <1>4, AtWork DEF ProjectStatus
    <2>2. FreeAgain(c)
      BY <1>t, <1>4, <2>1, Ended DEF ProjectStatus, Working
    <2>3. Goes(c)
      BY <2>2 DEF Goes
    <2> DEFINE r == doing[c].run
               n == [projections[r] EXCEPT !.status = IF @ = "none" THEN @ ELSE doing[c].status]
    <2>a. /\ n \in Projections /\ n.count = projections[r].count
          /\ projections[r].status # "none" => n.status # "none"
      BY <1>t, <2>1 DEF Working, RunStoreTypes, Projections, States, Kept
    <2>b. projections' = [projections EXCEPT ![r] = n]
      BY <1>t, <1>4, <2>1 DEF ProjectStatus, Working, RunStoreTypes
    <2> HIDE DEF n
    <2>4. RunStoreTypes'
      <3>1. projections' \in [Runs -> Projections]
        BY <1>t, <2>1, <2>a, <2>b DEF Working, RunStoreTypes
      <3>2. lock' \in [Maps -> RunClients \cup {NoOne}]
        BY <1>t, <1>4 DEF ProjectStatus, RunStoreTypes
      <3>3. runs' \in [Runs -> States] /\ events' \in [Runs -> Seq(Nat)] /\ sequence' \in Nat
        BY <1>t, <1>4, <2>1 DEF ProjectStatus, Working, RunStoreTypes, States
      <3> QED
        BY <2>2, <3>1, <3>2, <3>3 DEF MovedTo, FreeAgain, RunStoreTypes
    <2>5. LocksOf(c)'
      BY <1>t, <1>4, <2>1, <2>2, FreeFields DEF ProjectStatus, Working, MovedTo, FreeAgain, LocksOf,
         LocksHeld, Doing, RunStoreTypes, Maps, Available
    <2>6. LocksHeld'
      <3>1. \A m \in Maps : \/ lock'[m] = lock[m]
                            \/ lock[m] \in {c, NoOne} /\ lock'[m] \in {c, NoOne}
        BY <1>t, <1>4, <2>1 DEF ProjectStatus, Working, LocksHeld, LocksOf, Doing, Available,
           RunStoreTypes, Maps
      <3> QED
        BY <1>t, <2>3, <2>5, <3>1, LocksStay
    <2>7. AppendsMarked'
      BY <1>t, <1>4, <2>1, <2>2, <2>3, MarksStay DEF ProjectStatus, Working
    <2>8. OnceCreated'
      BY <1>t, <1>4, <2>1, <2>2, <2>3, CreationsStay DEF ProjectStatus, Working
    <2>9. Projected'
      BY <1>t, <1>4, <2>1, <2>a, <2>b DEF ProjectStatus, Working, RunStoreTypes, OnceCreated,
         Projected, ProjectionCountsEvents, Settled
    <2> QED
      BY <2>4, <2>6, <2>7, <2>8, <2>9 DEF RunStoreInv
  <1>5. ASSUME NEW c \in RunClients, LockEvents(c)
        PROVE  RunStoreInv'
    <2>1. Working(c, "append", "events")
      BY <1>t, <1>5, AtWork DEF LockEvents
    <2>2. MovedTo(c, "projections")
      BY <1>t, <1>5, <2>1, Moved DEF LockEvents, Working
    <2>3. Goes(c)
      BY <2>2 DEF Goes
    <2>4. RunStoreTypes'
      BY <1>t, <1>e, <1>5, <2>1, <2>2 DEF LockEvents, Working, MovedTo, FreeAgain, RunStoreTypes, States
    <2>5. LocksOf(c)'
      BY <1>t, <1>5, <2>1, <2>2, FreeFields DEF LockEvents, Working, MovedTo, FreeAgain, LocksOf,
         LocksHeld, Doing, RunStoreTypes, Maps, Available
    <2>6. LocksHeld'
      <3>1. \A m \in Maps : \/ lock'[m] = lock[m]
                            \/ lock[m] \in {c, NoOne} /\ lock'[m] \in {c, NoOne}
        BY <1>t, <1>5, <2>1 DEF LockEvents, Working, LocksHeld, LocksOf, Doing, Available,
           RunStoreTypes, Maps
      <3> QED
        BY <1>t, <2>3, <2>5, <3>1, LocksStay
    <2>7. AppendsMarked'
      <3>1. FreeAgain(c) \/ Marked(c)'
        BY <1>t, <1>5, <2>1, <2>2 DEF LockEvents, Working, MovedTo, Marked, AppendsMarked, Settled,
           Projected, NoProjection
      <3> QED
        BY <1>t, <1>5, <2>3, <3>1, MarksStay DEF LockEvents
    <2>8. OnceCreated'
      BY <1>t, <1>5, <2>1, <2>2, <2>3, CreationsStay DEF LockEvents, Working
    <2>9. Projected'
      BY <1>t, <1>5, <2>1, <2>2 DEF LockEvents, Working, RunStoreTypes, Projections, Projected,
         ProjectionCountsEvents, Settled, NoProjection, Applied, AppendsMarked, Marked, OnceCreated
    <2> QED
      BY <2>4, <2>6, <2>7, <2>8, <2>9 DEF RunStoreInv
  <1>6. ASSUME NEW c \in RunClients, Push(c)
        PROVE  RunStoreInv'
    <2>1. Working(c, "append", "projections")
      BY <1>t, <1>6, AtWork DEF Push
    <2>2. \/ projections[doing[c].run] = NoProjection /\ MovedTo(c, "runs")
          \/ projections[doing[c].run] # NoProjection /\ FreeAgain(c)
      <3>1. CASE projections[doing[c].run] = NoProjection
        BY <1>t, <1>6, <2>1, <3>1, Moved DEF Push, Working
      <3>2. CASE projections[doing[c].run] # NoProjection
        BY <1>t, <1>6, <2>1, <3>2, Ended DEF Push, Working
      <3> QED
        BY <3>1, <3>2
    <2>3. Goes(c)
      BY <2>2 DEF Goes
    <2> DEFINE r == doing[c].run
               n == Applied(projections[r], doing[c].status)
    <2>a. /\ r \in Runs /\ projections[r] \in Projections /\ n \in Projections /\ n.count = projections[r].count + 1
          /\ projections[r].status # "none" => n.status # "none"
      BY <1>t, <1>e, <2>1 DEF Working, RunStoreTypes, Applied, Kept
    <2>b. /\ \/ projections' = projections /\ projections[r] = NoProjection
             \/ projections' = [projections EXCEPT ![r] = n]
          /\ events' = [events EXCEPT ![r] = Append(@, doing[c].seq)]
          /\ UNCHANGED <<runs, sequence, begun, returned, doomed, strayed>>
      BY <1>6, <2>1 DEF Push
    <2>c. Append(events[r], doing[c].seq) \in Seq(Nat) /\ Len(Append(events[r], doing[c].seq)) = Len(events[r]) + 1
      BY <1>t, <2>1 DEF Working, RunStoreTypes
    <2> HIDE DEF n
    <2>4. RunStoreTypes'
      <3>1. projections' \in [Runs -> Projections]
        BY <1>t, <2>a, <2>b DEF RunStoreTypes
      <3>2. lock' \in [Maps -> RunClients \cup {NoOne}]
        BY <1>t, <1>6 DEF Push, RunStoreTypes
      <3>3. runs' \in [Runs -> States] /\ events' \in [Runs -> Seq(Nat)] /\ sequence' \in Nat
        BY <1>t, <1>6, <2>1 DEF Push, Working, RunStoreTypes, States
      <3> QED
        BY <2>2, <3>1, <3>2, <3>3 DEF MovedTo, FreeAgain, RunStoreTypes
    <2>5. LocksOf(c)'
      <3>1. lock["events"] = c /\ lock["projections"] # c /\ lock["runs"] # c
        BY <1>t, <2>1 DEF LocksHeld, LocksOf, Doing, Working
      <3>2. CASE projections[r] = NoProjection
        <4>1. lock' = [lock EXCEPT !["projections"] = c] /\ MovedTo(c, "runs")
          BY <1>6, <2>2, <3>2 DEF Push
        <4> QED
          BY <1>t, <2>1, <3>1, <4>1 DEF Working, MovedTo, LocksOf, Doing, RunStoreTypes, Maps
      <3>3. CASE projections[r] # NoProjection
        <4>1. lock' = [lock EXCEPT !["events"] = NoOne] /\ FreeAgain(c)
          BY <1>6, <2>2, <3>3 DEF Push
        <4> QED
          BY <1>t, <3>1, <4>1, FreeFields DEF FreeAgain, LocksOf, Doing, RunStoreTypes, Maps
      <3> QED
        BY <3>2, <3>3
    <2>6. LocksHeld'
      <3>1. \A m \in Maps : \/ lock'[m] = lock[m]
                            \/ lock[m] \in {c, NoOne} /\ lock'[m] \in {c, NoOne}
        BY <1>t, <1>6, <2>1 DEF Push, Working, LocksHeld, LocksOf, Doing, Available, RunStoreTypes, Maps
      <3> QED
        BY <1>t, <2>3, <2>5, <3>1, LocksStay
    <2>7. AppendsMarked'
      <3>1. FreeAgain(c) \/ Marked(c)'
        BY <1>t, <1>6, <2>1, <2>2 DEF Push, Working, MovedTo, Marked, AppendsMarked, Settled,
           Projected, NoProjection
      <3> QED
        BY <1>t, <1>6, <2>3, <3>1, MarksStay DEF Push
    <2>8. OnceCreated'
      BY <1>t, <1>6, <2>1, <2>2, <2>3, CreationsStay DEF Push, Working
    <2>9. Projected'
      <3>1. \A q \in Settled' : projections'[q].status # "none"
        BY <1>t, <2>a, <2>b DEF Projected, Settled, OnceCreated, RunStoreTypes
      <3>2. \A q \in Runs \ (returned' \cup strayed') : events'[q] = <<>>
        BY <1>t, <2>1, <2>a, <2>b DEF Projected, AppendsMarked, Marked, Working, RunStoreTypes
      <3>3. ASSUME NEW q \in Settled' \ strayed'
            PROVE  projections'[q].count = Len(events'[q])
        <4>1. q \in Settled \ strayed /\ q \in Runs
          BY <1>t, <2>b, <3>3 DEF Settled, OnceCreated
        <4>2. projections[q] # NoProjection /\ projections[q].count = Len(events[q])
          BY <1>t, <4>1 DEF Projected, ProjectionCountsEvents, NoProjection
        <4> QED
          BY <1>t, <2>a, <2>b, <2>c, <4>1, <4>2 DEF RunStoreTypes
      <3> QED
        BY <3>1, <3>2, <3>3 DEF Projected, ProjectionCountsEvents
    <2> QED
      BY <2>4, <2>6, <2>7, <2>8, <2>9 DEF RunStoreInv
  <1>7. ASSUME NEW c \in RunClients, Project(c)
        PROVE  RunStoreInv'
    <2>1. Working(c, "append", "runs")
      BY <1>t, <1>7, AtWork DEF Project
    <2>2. FreeAgain(c)
      BY <1>t, <1>7, <2>1, Ended DEF Project, Working
    <2>3. Goes(c)
      BY <2>2 DEF Goes
    <2>4. RunStoreTypes'
      <3>1. projections' \in [Runs -> Projections]
        BY <1>t, <1>e, <1>7, <2>1 DEF Project, Working, RunStoreTypes, Projections, States
      <3>2. lock' \in [Maps -> RunClients \cup {NoOne}]
        BY <1>t, <1>7 DEF Project, RunStoreTypes
      <3>3. runs' \in [Runs -> States] /\ events' \in [Runs -> Seq(Nat)] /\ sequence' \in Nat
        BY <1>t, <1>7, <2>1 DEF Project, Working, RunStoreTypes, States
      <3> QED
        BY <2>2, <3>1, <3>2, <3>3 DEF MovedTo, FreeAgain, RunStoreTypes
    <2>5. LocksOf(c)'
      BY <1>t, <1>7, <2>1, <2>2, FreeFields DEF Project, Working, MovedTo, FreeAgain, LocksOf,
         LocksHeld, Doing, RunStoreTypes, Maps, Available
    <2>6. LocksHeld'
      <3>1. \A m \in Maps : \/ lock'[m] = lock[m]
                            \/ lock[m] \in {c, NoOne} /\ lock'[m] \in {c, NoOne}
        BY <1>t, <1>7, <2>1 DEF Project, Working, LocksHeld, LocksOf, Doing, Available, RunStoreTypes,
           Maps
      <3> QED
        BY <1>t, <2>3, <2>5, <3>1, LocksStay
    <2>7. AppendsMarked'
      BY <1>t, <1>7, <2>1, <2>2, <2>3, MarksStay DEF Project, Working
    <2>8. OnceCreated'
      BY <1>t, <1>7, <2>1, <2>2, <2>3, CreationsStay DEF Project, Working
    <2>9. Projected'
      BY <1>t, <1>7, <2>1, <2>2 DEF Project, Working, RunStoreTypes, Projections, Projected,
         ProjectionCountsEvents, Settled, NoProjection, Applied, AppendsMarked, Marked, OnceCreated
    <2> QED
      BY <2>4, <2>6, <2>7, <2>8, <2>9 DEF RunStoreInv
  <1>8. ASSUME NEW c \in RunClients, RemoveRun(c)
        PROVE  RunStoreInv'
    <2>1. Working(c, "delete", "runs")
      BY <1>t, <1>8, AtWork DEF RemoveRun
    <2>2. MovedTo(c, "events")
      BY <1>t, <1>8, <2>1, Moved DEF RemoveRun, Working
    <2>3. Goes(c)
      BY <2>2 DEF Goes
    <2>4. RunStoreTypes'
      BY <1>t, <1>e, <1>8, <2>1, <2>2 DEF RemoveRun, Working, MovedTo, FreeAgain, RunStoreTypes, States
    <2>5. LocksOf(c)'
      BY <1>t, <1>8, <2>1, <2>2, FreeFields DEF RemoveRun, Working, MovedTo, FreeAgain, LocksOf,
         LocksHeld, Doing, RunStoreTypes, Maps, Available
    <2>6. LocksHeld'
      <3>1. \A m \in Maps : \/ lock'[m] = lock[m]
                            \/ lock[m] \in {c, NoOne} /\ lock'[m] \in {c, NoOne}
        BY <1>t, <1>8, <2>1 DEF RemoveRun, Working, LocksHeld, LocksOf, Doing, Available,
           RunStoreTypes, Maps
      <3> QED
        BY <1>t, <2>3, <2>5, <3>1, LocksStay
    <2>7. AppendsMarked'
      BY <1>t, <1>8, <2>1, <2>2, <2>3, MarksStay DEF RemoveRun, Working
    <2>8. OnceCreated'
      BY <1>t, <1>8, <2>1, <2>2, <2>3, CreationsStay DEF RemoveRun, Working
    <2>9. Projected'
      BY <1>t, <1>8, <2>1, <2>2 DEF RemoveRun, Working, RunStoreTypes, Projections, Projected,
         ProjectionCountsEvents, Settled, NoProjection, Applied, AppendsMarked, Marked, OnceCreated
    <2> QED
      BY <2>4, <2>6, <2>7, <2>8, <2>9 DEF RunStoreInv
  <1>9. ASSUME NEW c \in RunClients, RemoveEvents(c)
        PROVE  RunStoreInv'
    <2>1. Working(c, "delete", "events")
      BY <1>t, <1>9, AtWork DEF RemoveEvents
    <2>2. MovedTo(c, "projections")
      BY <1>t, <1>9, <2>1, Moved DEF RemoveEvents, Working
    <2>3. Goes(c)
      BY <2>2 DEF Goes
    <2>4. RunStoreTypes'
      BY <1>t, <1>e, <1>9, <2>1, <2>2 DEF RemoveEvents, Working, MovedTo, FreeAgain, RunStoreTypes,
         States
    <2>5. LocksOf(c)'
      BY <1>t, <1>9, <2>1, <2>2, FreeFields DEF RemoveEvents, Working, MovedTo, FreeAgain, LocksOf,
         LocksHeld, Doing, RunStoreTypes, Maps, Available
    <2>6. LocksHeld'
      <3>1. \A m \in Maps : \/ lock'[m] = lock[m]
                            \/ lock[m] \in {c, NoOne} /\ lock'[m] \in {c, NoOne}
        BY <1>t, <1>9, <2>1 DEF RemoveEvents, Working, LocksHeld, LocksOf, Doing, Available,
           RunStoreTypes, Maps
      <3> QED
        BY <1>t, <2>3, <2>5, <3>1, LocksStay
    <2>7. AppendsMarked'
      BY <1>t, <1>9, <2>1, <2>2, <2>3, MarksStay DEF RemoveEvents, Working
    <2>8. OnceCreated'
      BY <1>t, <1>9, <2>1, <2>2, <2>3, CreationsStay DEF RemoveEvents, Working
    <2>9. Projected'
      BY <1>t, <1>9, <2>1, <2>2 DEF RemoveEvents, Working, RunStoreTypes, Projections, Projected,
         ProjectionCountsEvents, Settled, NoProjection, Applied, AppendsMarked, Marked, OnceCreated
    <2> QED
      BY <2>4, <2>6, <2>7, <2>8, <2>9 DEF RunStoreInv
  <1>10. ASSUME NEW c \in RunClients, RemoveProjection(c)
        PROVE  RunStoreInv'
    <2>1. Working(c, "delete", "projections")
      BY <1>t, <1>10, AtWork DEF RemoveProjection
    <2>2. FreeAgain(c)
      BY <1>t, <1>10, <2>1, Ended DEF RemoveProjection, Working
    <2>3. Goes(c)
      BY <2>2 DEF Goes
    <2>4. RunStoreTypes'
      BY <1>t, <1>e, <1>10, <2>1, <2>2 DEF RemoveProjection, Working, MovedTo, FreeAgain,
         RunStoreTypes, States
    <2>5. LocksOf(c)'
      BY <1>t, <1>10, <2>1, <2>2, FreeFields DEF RemoveProjection, Working, MovedTo, FreeAgain,
         LocksOf, LocksHeld, Doing, RunStoreTypes, Maps, Available
    <2>6. LocksHeld'
      <3>1. \A m \in Maps : \/ lock'[m] = lock[m]
                            \/ lock[m] \in {c, NoOne} /\ lock'[m] \in {c, NoOne}
        BY <1>t, <1>10, <2>1 DEF RemoveProjection, Working, LocksHeld, LocksOf, Doing, Available,
           RunStoreTypes, Maps
      <3> QED
        BY <1>t, <2>3, <2>5, <3>1, LocksStay
    <2>7. AppendsMarked'
      BY <1>t, <1>10, <2>1, <2>2, <2>3, MarksStay DEF RemoveProjection, Working
    <2>8. OnceCreated'
      BY <1>t, <1>10, <2>1, <2>2, <2>3, CreationsStay DEF RemoveProjection, Working
    <2>9. Projected'
      BY <1>t, <1>10, <2>1, <2>2 DEF RemoveProjection, Working, RunStoreTypes, Projections, Projected,
         ProjectionCountsEvents, Settled, NoProjection, Applied, AppendsMarked, Marked, OnceCreated
    <2> QED
      BY <2>4, <2>6, <2>7, <2>8, <2>9 DEF RunStoreInv
  <1>11. ASSUME NEW c \in RunClients, DropOperation(c)
         PROVE  RunStoreInv'
    <2>1. FreeAgain(c) /\ Goes(c)
      BY <1>t, <1>11, Ended DEF DropOperation, Goes
    <2>2. /\ lock' = [m \in Maps |-> IF lock[m] = c THEN NoOne ELSE lock[m]]
          /\ UNCHANGED <<runs, events, projections, sequence, begun, returned, doomed, strayed>>
      BY <1>11 DEF DropOperation
    <2>3. RunStoreTypes'
      BY <1>t, <2>1, <2>2 DEF FreeAgain, RunStoreTypes
    <2>4. LocksOf(c)'
      BY <2>1, <2>2, FreeFields DEF FreeAgain, LocksOf, Doing, Maps
    <2>5. LocksHeld'
      BY <1>t, <2>1, <2>2, <2>4, LocksStay
    <2>6. AppendsMarked' /\ OnceCreated'
      BY <1>t, <2>1, <2>2, MarksStay, CreationsStay
    <2>7. Projected'
      BY <1>t, <2>2 DEF Projected, ProjectionCountsEvents, Settled
    <2> QED
      BY <2>3, <2>5, <2>6, <2>7 DEF RunStoreInv
  <1>12. ASSUME NEW c \in RunClients, NEW r \in Runs, CreateRun(c, r)
         PROVE  RunStoreInv'
    <2> DEFINE n == [Free EXCEPT !.op = "create", !.at = "runs", !.run = r]
    <2>1. n \in Operations /\ n.op = "create" /\ n.at = "runs" /\ n.run = r
      BY DEF Free, Operations
    <2>2. /\ doing[c] = Free /\ r \notin begun /\ begun' = begun \cup {r} /\ doing' = [doing EXCEPT ![c] = n]
          /\ UNCHANGED <<runs, events, projections, sequence, lock, returned, doomed, strayed>>
      BY <1>12 DEF CreateRun
    <2> HIDE DEF n
    <2>3. sequence' \in Nat
      BY <1>t, <2>2 DEF RunStoreTypes
    <2> QED
      BY <1>t, <2>1, <2>2, <2>3, Begun
  <1>13. ASSUME NEW c \in RunClients, NEW r \in Runs, NEW status \in Statuses, UpdateRunStatus(c, r, status)
         PROVE  RunStoreInv'
    <2> DEFINE n == [Free EXCEPT !.op = "update", !.at = "runs", !.run = r, !.status = status]
    <2>1. n \in Operations /\ n.op = "update" /\ n.at = "runs" /\ n.run = r
      BY DEF Free, Operations
    <2>2. /\ doing[c] = Free /\ doing' = [doing EXCEPT ![c] = n]
          /\ UNCHANGED <<runs, events, projections, sequence, lock, begun, returned, doomed, strayed>>
      BY <1>13 DEF UpdateRunStatus
    <2> HIDE DEF n
    <2>3. sequence' \in Nat
      BY <1>t, <2>2 DEF RunStoreTypes
    <2> QED
      BY <1>t, <2>1, <2>2, <2>3, Begun
  <1>14. ASSUME NEW c \in RunClients, NEW r \in Runs, NEW status \in Statuses \cup {Kept}, AppendEvent(c, r, status)
         PROVE  RunStoreInv'
    <2> DEFINE n == [op |-> "append", at |-> "events", run |-> r, status |-> status,
                     seq |-> sequence, stray |-> r \notin Settled]
    <2>1. /\ n \in Operations /\ n.op = "append" /\ n.at = "events" /\ n.run = r
          /\ n.stray = (r \notin Settled)
      BY <1>t DEF Operations, RunStoreTypes
    <2>2. /\ doing[c] = Free /\ doing' = [doing EXCEPT ![c] = n] /\ sequence' = sequence + 1
          /\ strayed' = IF r \in Settled THEN strayed ELSE strayed \cup {r}
          /\ UNCHANGED <<runs, events, projections, lock, begun, returned, doomed>>
      BY <1>14 DEF AppendEvent
    <2> HIDE DEF n
    <2>3. sequence' \in Nat
      BY <1>t, <2>2 DEF RunStoreTypes
    <2> QED
      BY <1>t, <2>1, <2>2, <2>3, Begun
  <1>15. ASSUME NEW c \in RunClients, NEW r \in Runs, DeleteRun(c, r)
         PROVE  RunStoreInv'
    <2> DEFINE n == [Free EXCEPT !.op = "delete", !.at = "runs", !.run = r]
    <2>1. n \in Operations /\ n.op = "delete" /\ n.at = "runs" /\ n.run = r
      BY DEF Free, Operations
    <2>2. /\ doing[c] = Free /\ doomed' = doomed \cup {r}
          /\ doing' = [d \in RunClients |-> IF d = c THEN n ELSE
                [doing[d] EXCEPT !.stray = @ \/ (doing[d].op = "append" /\ doing[d].run = r)]]
          /\ UNCHANGED <<runs, events, projections, sequence, lock, begun, returned, strayed>>
      BY <1>15 DEF DeleteRun
    <2> HIDE DEF n
    <2>3. ASSUME NEW d \in RunClients \ {c}
          PROVE  /\ doing'[d] \in Operations \cup {Free} /\ doing'[d].op = doing[d].op
                 /\ doing'[d].at = doing[d].at /\ doing'[d].run = doing[d].run
                 /\ doing'[d].stray <=> doing[d].stray \/ (doing[d].op = "append" /\ doing[d].run = r)
      <3> DEFINE x == doing[d].stray \/ (doing[d].op = "append" /\ doing[d].run = r)
                 m == [doing[d] EXCEPT !.stray = x]
      <3>1. doing'[d] = m
        BY <2>2
      <3>2. x \in BOOLEAN
        OBVIOUS
      <3>3. CASE doing[d] \in Operations
        <4> HIDE DEF x
        <4>1. m \in Operations /\ m.op = doing[d].op /\ m.at = doing[d].at /\ m.run = doing[d].run /\ m.stray = x
          BY <3>2, <3>3 DEF Operations
        <4> QED
          BY <3>1, <4>1 DEF x
      <3>4. CASE doing[d] = Free
        <4>1. x = FALSE
          BY <3>4 DEF Free
        <4> HIDE DEF x
        <4>2. m = Free
          <5>1. m = [Free EXCEPT !.stray = FALSE]
            BY <3>4, <4>1
          <5>2. Free.stray = FALSE
            BY DEF Free
          <5>3. Free = [f \in DOMAIN Free |-> Free[f]]
            BY DEF Free
          <5> QED
            BY <5>1, <5>2, <5>3
        <4> QED
          BY <3>1, <3>4, <4>1, <4>2 DEF x
      <3> QED
        BY <1>t, <3>3, <3>4 DEF RunStoreTypes
    <2>4. doing'[c] = n
      BY <2>2
    <2>5. RunStoreTypes'
      <3>1. DOMAIN doing' = RunClients /\ doing' = [d \in RunClients |-> doing'[d]]
        BY <2>2
      <3>2. \A d \in RunClients : doing'[d] \in Operations \cup {Free}
        BY <2>1, <2>3, <2>4
      <3>3. doing' \in [RunClients -> Operations \cup {Free}]
        BY <3>1, <3>2
      <3> QED
        BY <1>t, <2>2, <3>3 DEF RunStoreTypes
    <2>6. LocksHeld'
      <3>1. ASSUME NEW d \in RunClients \ {c}
            PROVE  LocksOf(d)'
        BY <1>t, <2>2, <2>3 DEF LocksHeld, LocksOf, Doing
      <3>2. LocksOf(c)'
        BY <1>t, <2>1, <2>2, <2>4, FreeFields DEF LocksHeld, LocksOf, Doing
      <3> QED
        BY <3>1, <3>2 DEF LocksHeld
    <2>7. AppendsMarked'
      <3>1. ASSUME NEW d \in RunClients \ {c}
            PROVE  Marked(d)'
        <4>1. Marked(d)
          BY <1>t DEF AppendsMarked
        <4>2. doing'[d].op = "append" /\ doing'[d].stray => doing'[d].run \in strayed' \cup doomed'
          BY <2>2, <2>3, <4>1 DEF Marked
        <4>3. doing'[d].op = "append" /\ ~doing'[d].stray => doing'[d].run \in Settled'
          BY <2>2, <2>3, <4>1 DEF Marked, Settled
        <4> QED
          BY <2>2, <2>3, <4>1, <4>2, <4>3 DEF Marked
      <3>2. Marked(c)'
        BY <2>1, <2>4 DEF Marked
      <3> QED
        BY <3>1, <3>2 DEF AppendsMarked
    <2>8. OnceCreated'
      BY <1>t, <2>1, <2>2, <2>3, <2>4 DEF OnceCreated
    <2>9. Projected'
      BY <1>t, <2>2 DEF Projected, ProjectionCountsEvents, Settled
    <2> QED
      BY <2>5, <2>6, <2>7, <2>8, <2>9 DEF RunStoreInv
  <1>16. CASE UNCHANGED runStoreVars
    BY <1>t, <1>16 DEF runStoreVars, RunStoreInv, RunStoreTypes, LocksHeld, LocksOf, Doing,
       AppendsMarked, Marked,
                        OnceCreated, Projected, ProjectionCountsEvents, Settled
  <1> QED
    BY <1>1, <1>2, <1>3, <1>4, <1>5, <1>6, <1>7, <1>8, <1>9, <1>10, <1>11, <1>12, <1>13, <1>14, <1>15,
       <1>16
       DEF RunStoreNext

\* Nothing is held, begun or listed at first.
LEMMA RunStoreFirst == RunStoreInit => RunStoreInv
PROOF
  <1> SUFFICES ASSUME RunStoreInit PROVE RunStoreInv
    OBVIOUS
  <1> USE RunStoreAssumption
  <1>1. NoProjection \in Projections
    BY DEF NoProjection, Projections, States
  <1>2. RunStoreTypes
    BY <1>1 DEF RunStoreInit, RunStoreTypes, States
  <1>3. LocksHeld
    BY FreeFields DEF RunStoreInit, LocksHeld, LocksOf, Doing, Maps
  <1>4. AppendsMarked /\ OnceCreated
    BY FreeFields DEF RunStoreInit, AppendsMarked, Marked, OnceCreated
  <1>5. Projected
    BY DEF RunStoreInit, Projected, ProjectionCountsEvents, Settled
  <1> QED
    BY <1>2, <1>3, <1>4, <1>5 DEF RunStoreInv

\* update_run_status and append_event, for any clients, runs and drops: the two
\* wait for each other's lock only over an event of a run whose creation had
\* not returned or that is being deleted.
THEOREM DeadlocksAreStrays == RunStoreSpec => []OnlyStraysDeadlock
PROOF
  <1>1. RunStoreInv => OnlyStraysDeadlock
    BY DEF RunStoreInv, OnlyStraysDeadlock, AppendsMarked, Marked, Doing
  <1> QED
    BY <1>1, RunStoreFirst, RunStoreStep, PTL DEF RunStoreSpec

\* append_event under its locks: the projection of a settled run counts the
\* events of its list.
THEOREM ProjectionsCount == RunStoreSpec => []ProjectionCountsEvents
PROOF
  <1>1. RunStoreInv => ProjectionCountsEvents
    BY DEF RunStoreInv, Projected
  <1> QED
    BY <1>1, RunStoreFirst, RunStoreStep, PTL DEF RunStoreSpec
-----------------------------------------------------------------------------
(* The session stores.                                                       *)

StoresSpec == StoresInit /\ [][StoresNext]_storeVars

Entries == [id : Messages, usage : Usages \cup {0}]
Ops == [op : {"idle", "append", "usage", "delete"},
        at : {"idle", "check", "push", "index", "touch", "write", "read", "remove", "put", "messages", "records"},
        m : Messages \cup {None}, s : Sessions \cup {None}, u : Usages \cup {0}, seen : Entries \cup {None}]

StoresTypes ==
    /\ backend \in Backends
    /\ created \subseteq Sessions
    /\ session \in [Sessions -> {"absent", "whole", "stub"}]
    /\ home \in [Messages -> Sessions \cup {None}]
    /\ stored \in [Sessions -> Seq(Entries)]
    /\ index \subseteq Messages /\ acked \subseteq Messages /\ tangled \subseteq Messages
    /\ records \subseteq Records /\ deleted \subseteq Sessions
    /\ client \in [Clients -> Ops]

\* What a session of Redis has, the messages counted that an update has in its
\* hand or has lost.
KeptOf(s) == Ids(s) \cup InHand(s) \cup Lost(s)

Unknown(m) == m \notin index \cup acked \cup tangled /\ \A s \in Sessions : m \notin Ids(s)

Appending(c) ==
    client[c].op = "append" =>
        /\ client[c].at \in {"check", "push", "index", "touch"}
        /\ client[c].m \in Messages /\ client[c].s \in Sessions
        /\ home[client[c].m] = client[c].s
        /\ client[c].at \in {"check", "push"} => Unknown(client[c].m)
        /\ client[c].at # "check" => backend # "sql" /\ client[c].s \in created
        /\ client[c].at = "touch" => backend # "memory"
        /\ client[c].at = "index" /\ client[c].s \notin deleted =>
               /\ backend = "redis" => client[c].m \in KeptOf(client[c].s)
               /\ backend = "memory" => client[c].m \in Ids(client[c].s)

UpdatingUsage(c) ==
    client[c].op = "usage" =>
        /\ client[c].m \in Messages /\ home[client[c].m] = client[c].s
        /\ client[c].s \in created
        /\ \/ backend = "memory" /\ client[c].at = "write"
           \/ /\ backend = "redis" /\ client[c].at \in {"read", "remove", "put"}
              /\ client[c].m \in index
        /\ client[c].at = "remove" => client[c].seen.id = client[c].m

Deleting(c) ==
    client[c].op = "delete" =>
        /\ client[c].at \in {"messages", "records"} /\ backend # "sql"
        /\ client[c].s \in deleted

Resting(c) == client[c].op = "idle" => client[c].at = "idle"

ClientOk(c) == Appending(c) /\ UpdatingUsage(c) /\ Deleting(c) /\ Resting(c)

\* No message is appended twice.
AppendsApart ==
    \A c \in Clients : \A d \in Clients \ {c} :
        client[c].op = "append" /\ client[d].op = "append" => client[c].m # client[d].m

Placed ==
    \A s \in Sessions :
        /\ \A m \in Ids(s) : home[m] = s /\ s \in created
        /\ backend = "sql" /\ Ids(s) # {} => session[s] = "whole"

Known ==
    /\ \A m \in index \cup tangled \cup acked : home[m] \in created
    /\ \A r \in records : r.session \in created

Standing ==
    /\ deleted \subseteq created
    /\ \A s \in Sessions :
        /\ session[s] # "absent" => s \in created
        /\ session[s] = "whole" <=> s \in created \ deleted
        /\ session[s] = "stub" => backend = "redis"

\* What is indexed, or in memory acknowledged, is there.
Indexed ==
    /\ backend = "redis" => \A m \in index : home[m] \notin deleted => m \in KeptOf(home[m])
    /\ backend = "memory" => \A m \in acked : home[m] \notin deleted => m \in Ids(home[m])

StoresInv ==
    /\ StoresTypes
    /\ \A c \in Clients : ClientOk(c)
    /\ AppendsApart /\ Placed /\ Known /\ Standing /\ Indexed

\* A client between two operations.
LEMMA IdleFields == Idle.op = "idle" /\ Idle.at = "idle" /\ Idle \in Ops
BY DEF Idle, Ops

\* An entry is added: its message is listed, and nothing else changes.
LEMMA EntryAdded ==
  ASSUME stored \in [Sessions -> Seq(Entries)], NEW s \in Sessions, NEW e \in Entries,
         stored' = [stored EXCEPT ![s] = Append(@, e)]
  PROVE  /\ stored' \in [Sessions -> Seq(Entries)]
         /\ \A t \in Sessions : Ids(t)' = IF t = s THEN Ids(t) \cup {e.id} ELSE Ids(t)
PROOF
  <1>1. stored'[s] = Append(stored[s], e) /\ stored[s] \in Seq(Entries)
    OBVIOUS
  <1>2. /\ Len(stored'[s]) = Len(stored[s]) + 1 /\ stored'[s] \in Seq(Entries)
        /\ \A i \in 1..Len(stored[s]) : stored'[s][i] = stored[s][i]
        /\ stored'[s][Len(stored[s]) + 1] = e
        /\ Len(stored[s]) \in Nat /\ DOMAIN stored[s] = 1..Len(stored[s])
        /\ DOMAIN stored'[s] = 1..Len(stored'[s])
    BY <1>1
  <1>3. Ids(s)' = Ids(s) \cup {e.id}
    <2>1. ASSUME NEW i \in DOMAIN stored'[s]
          PROVE  stored'[s][i].id \in Ids(s) \cup {e.id}
      <3>1. i \in 1..Len(stored[s]) \/ i = Len(stored[s]) + 1
        BY <1>2
      <3> QED
        BY <1>2, <3>1 DEF Ids
    <2>2. ASSUME NEW i \in DOMAIN stored[s]
          PROVE  stored[s][i].id \in Ids(s)'
      <3>1. i \in DOMAIN stored'[s] /\ stored'[s][i] = stored[s][i]
        BY <1>2
      <3> QED
        BY <3>1 DEF Ids
    <2>3. e.id \in Ids(s)'
      <3>1. Len(stored[s]) + 1 \in DOMAIN stored'[s]
        BY <1>2
      <3> QED
        BY <1>2, <3>1 DEF Ids
    <2>4. Ids(s)' \subseteq Ids(s) \cup {e.id}
      BY <2>1 DEF Ids
    <2>5. Ids(s) \subseteq Ids(s)'
      BY <2>2 DEF Ids
    <2> QED
      BY <2>3, <2>4, <2>5
  <1>4. \A t \in Sessions \ {s} : Ids(t)' = Ids(t)
    BY DEF Ids
  <1> QED
    BY <1>2, <1>3, <1>4

\* A usage is set in place: the same messages are listed.
LEMMA UsageSet ==
  ASSUME stored \in [Sessions -> Seq(Entries)], NEW s \in Sessions, NEW m \in Messages,
         NEW u \in Usages \cup {0}, stored' = [stored EXCEPT ![s] = WithUsage(s, m, u)]
  PROVE  /\ stored' \in [Sessions -> Seq(Entries)]
         /\ \A t \in Sessions : Ids(t)' = Ids(t)
PROOF
  <1> DEFINE q == WithUsage(s, m, u)
  <1>1. /\ DOMAIN q = DOMAIN stored[s] /\ q \in Seq(Entries)
        /\ \A i \in DOMAIN q : q[i].id = stored[s][i].id
    <2>1. stored[s] \in Seq(Entries) /\ Len(stored[s]) \in Nat /\ DOMAIN stored[s] = 1..Len(stored[s])
      OBVIOUS
    <2>2. \A i \in 1..Len(stored[s]) : stored[s][i] \in Entries
      BY <2>1
    <2>3. q = [i \in 1..Len(stored[s]) |-> IF stored[s][i].id = m THEN [id |-> m, usage |-> u] ELSE stored[s][i]]
      BY <2>1 DEF WithUsage
    <2>4. \A i \in 1..Len(stored[s]) : q[i] \in Entries /\ q[i].id = stored[s][i].id
      BY <2>2, <2>3 DEF Entries
    <2> HIDE DEF q
    <2> QED
      BY <2>1, <2>3, <2>4
  <1> HIDE DEF q
  <1>2. stored'[s] = q /\ \A t \in Sessions \ {s} : stored'[t] = stored[t]
    BY DEF q
  <1>3. Ids(s)' = Ids(s)
    BY <1>1, <1>2 DEF Ids
  <1>4. \A t \in Sessions \ {s} : Ids(t)' = Ids(t)
    BY <1>2 DEF Ids
  <1> QED
    BY <1>1, <1>3, <1>4 DEF q

\* An entry is taken out: those behind it move up.
LEMMA RemovedAt ==
  ASSUME stored \in [Sessions -> Seq(Entries)], NEW s \in Sessions, NEW i \in DOMAIN stored[s],
         stored' = [stored EXCEPT ![s] = RemoveAt(@, i)]
  PROVE  /\ stored'[s] \in Seq(Entries)
         /\ \A t \in Sessions \ {s} : stored'[t] = stored[t]
         /\ DOMAIN stored'[s] = 1..(Len(stored[s]) - 1)
         /\ \A j \in 1..(Len(stored[s]) - 1) :
                stored'[s][j] = IF j < i THEN stored[s][j] ELSE stored[s][j + 1]
PROOF
  <1> DEFINE q == stored[s]
             n == Len(q)
             before == SubSeq(q, 1, i - 1)
             after == SubSeq(q, i + 1, n)
             r == before \o after
  <1>1. q \in Seq(Entries) /\ n \in Nat /\ DOMAIN q = 1..n /\ i \in 1..n /\ \A j \in 1..n : q[j] \in Entries
    OBVIOUS
  <1>2. /\ before \in Seq(Entries) /\ Len(before) = i - 1
        /\ \A j \in 1..(i - 1) : before[j] = q[j]
    <2> HIDE DEF q, n
    <2>1. 1 \in Int /\ i - 1 \in Int /\ \A j \in 1..(i - 1) : q[j] \in Entries
      BY <1>1
    <2>2. /\ SubSeq(q, 1, i - 1) \in Seq(Entries)
          /\ Len(SubSeq(q, 1, i - 1)) = IF 1 <= i - 1 THEN (i - 1) - 1 + 1 ELSE 0
          /\ \A j \in 1..((i - 1) - 1 + 1) : SubSeq(q, 1, i - 1)[j] = q[1 + j - 1]
      BY <2>1, SubSeqProperties
    <2> HIDE DEF before
    <2> QED
      BY <1>1, <2>2 DEF before
  <1>3. /\ after \in Seq(Entries) /\ Len(after) = n - i
        /\ \A j \in 1..(n - i) : after[j] = q[j + i]
    <2> HIDE DEF q, n
    <2>1. i + 1 \in Int /\ n \in Int /\ \A j \in (i + 1)..n : q[j] \in Entries
      BY <1>1
    <2>2. /\ SubSeq(q, i + 1, n) \in Seq(Entries)
          /\ Len(SubSeq(q, i + 1, n)) = IF i + 1 <= n THEN n - (i + 1) + 1 ELSE 0
          /\ \A j \in 1..(n - (i + 1) + 1) : SubSeq(q, i + 1, n)[j] = q[(i + 1) + j - 1]
      BY <2>1, SubSeqProperties
    <2>3. /\ n - (i + 1) + 1 = n - i /\ (IF i + 1 <= n THEN n - (i + 1) + 1 ELSE 0) = n - i
          /\ \A j \in 1..(n - i) : (i + 1) + j - 1 = j + i
      BY <1>1
    <2> QED
      BY <2>2, <2>3
  <1>4. stored'[s] = r /\ \A t \in Sessions \ {s} : stored'[t] = stored[t]
    BY DEF RemoveAt
  <1> HIDE DEF before, after
  <1>5. /\ r \in Seq(Entries) /\ Len(r) = Len(before) + Len(after)
        /\ \A j \in 1..(Len(before) + Len(after)) :
               r[j] = IF j <= Len(before) THEN before[j] ELSE after[j - Len(before)]
    BY <1>2, <1>3, ConcatProperties
  <1> HIDE DEF q, n, r
  <1>6. /\ Len(r) = n - 1 /\ DOMAIN r = 1..(n - 1)
        /\ \A j \in 1..(n - 1) : r[j] = IF j < i THEN q[j] ELSE q[j + 1]
    BY <1>1, <1>2, <1>3, <1>5
  <1> QED
    BY <1>4, <1>5, <1>6 DEF q, n, r

\* An entry is taken out: no other message is.
LEMMA EntryRemoved ==
  ASSUME stored \in [Sessions -> Seq(Entries)], NEW s \in Sessions, NEW i \in DOMAIN stored[s],
         stored' = [stored EXCEPT ![s] = RemoveAt(@, i)]
  PROVE  /\ stored' \in [Sessions -> Seq(Entries)]
         /\ \A t \in Sessions : /\ Ids(t)' \subseteq Ids(t)
                                /\ Ids(t) \subseteq Ids(t)' \cup {stored[s][i].id}
                                /\ t # s => Ids(t)' = Ids(t)
PROOF
  <1> DEFINE q == stored[s]
             n == Len(q)
             r == stored'[s]
  <1>1. q \in Seq(Entries) /\ n \in Nat /\ DOMAIN q = 1..n /\ i \in 1..n /\ \A j \in 1..n : q[j] \in Entries
    OBVIOUS
  <1>4. \A t \in Sessions \ {s} : stored'[t] = stored[t]
    OBVIOUS
  <1>5. r \in Seq(Entries)
    BY RemovedAt
  <1>6. /\ DOMAIN r = 1..(n - 1)
        /\ \A j \in 1..(n - 1) : r[j] = IF j < i THEN q[j] ELSE q[j + 1]
    BY RemovedAt
  <1> HIDE DEF q, n, r
  <1>7. Ids(s) = {q[j].id : j \in 1..n} /\ Ids(s)' = {r[j].id : j \in 1..(n - 1)}
    BY <1>1, <1>4, <1>6 DEF Ids, q, r
  <1>8. Ids(s)' \subseteq Ids(s)
    <2>1. ASSUME NEW j \in 1..(n - 1)
          PROVE  \E k \in 1..n : r[j] = q[k]
      <3>1. CASE j < i
        BY <1>1, <1>6, <3>1
      <3>2. CASE ~(j < i)
        <4>1. j + 1 \in 1..n /\ r[j] = q[j + 1]
          BY <1>1, <1>6, <3>2
        <4> QED
          BY <4>1
      <3> QED
        BY <3>1, <3>2
    <2> QED
      BY <1>7, <2>1
  <1>9. Ids(s) \subseteq Ids(s)' \cup {q[i].id}
    <2>1. ASSUME NEW j \in 1..n, j # i
          PROVE  \E k \in 1..(n - 1) : r[k] = q[j]
      <3>1. CASE j < i
        <4>1. j \in 1..(n - 1) /\ r[j] = q[j]
          BY <1>1, <1>6, <3>1
        <4> QED
          BY <4>1
      <3>2. CASE j > i
        <4>1. j - 1 \in 1..(n - 1) /\ r[j - 1] = q[j]
          BY <1>1, <1>6, <3>2
        <4> QED
          BY <4>1
      <3> QED
        BY <1>1, <2>1, <3>1, <3>2
    <2> QED
      BY <1>7, <2>1
  <1>10. \A t \in Sessions \ {s} : Ids(t)' = Ids(t)
    BY <1>4 DEF Ids
  <1>11. stored' \in [Sessions -> Seq(Entries)]
    BY <1>4, <1>5 DEF r
  <1> QED
    BY <1>8, <1>9, <1>10, <1>11 DEF q

\* What the clients have in their hands, when only c's operation changes.
LEMMA HandsStay ==
  ASSUME NEW c \in Clients, \A d \in Clients \ {c} : client'[d] = client[d],
         ~At(c, "usage", "put"), ~At(c, "usage", "put")', NEW t
  PROVE  InHand(t)' = InHand(t)
BY DEF InHand, At

\* The operations of the other clients are as they were: c lists, indexes,
\* acknowledges and tangles no message that another is about to insert.
LEMMA OthersStay ==
  ASSUME StoresInv, NEW c \in Clients, \A d \in Clients \ {c} : client'[d] = client[d],
         backend' = backend, created \subseteq created', deleted \subseteq deleted',
         \A m \in Messages : home[m] # None => home'[m] = home[m],
         NEW m,
         \A d \in Clients \ {c} : client[d].op = "append" /\ Unknown(client[d].m) => client[d].m # m,
         \A t \in Sessions : Ids(t)' \subseteq Ids(t) \cup {m},
         index' \subseteq index \cup {m}, tangled' \subseteq tangled \cup {m}, acked' \subseteq acked \cup {m},
         backend = "redis" => /\ index \subseteq index'
                              /\ \A t \in Sessions : t \notin deleted' => KeptOf(t) \subseteq KeptOf(t)',
         backend = "memory" => \A t \in Sessions : t \notin deleted' => Ids(t) \subseteq Ids(t)'
  PROVE  \A d \in Clients \ {c} : ClientOk(d)'
PROOF
  <1> SUFFICES ASSUME NEW d \in Clients \ {c} PROVE ClientOk(d)'
    OBVIOUS
  <1> USE StoresAssumption
  <1>1. ClientOk(d) /\ StoresTypes /\ client'[d] = client[d]
    BY DEF StoresInv
  <1>2. Appending(d)'
    <2> SUFFICES ASSUME client[d].op = "append" PROVE Appending(d)'
      BY <1>1 DEF Appending
    <2>1. Unknown(client[d].m) => Unknown(client[d].m)'
      <3> DEFINE x == client[d].m
      <3> SUFFICES ASSUME Unknown(x) PROVE x \notin index' \cup acked' \cup tangled' /\ \A s \in Sessions : x \notin Ids(s)'
        BY <1>1 DEF Unknown
      <3>1. x # m
        OBVIOUS
      <3> QED
        BY <3>1 DEF Unknown
    <2> QED
      BY <1>1, <2>1 DEF ClientOk, Appending, StoresTypes
  <1>3. UpdatingUsage(d)'
    BY <1>1 DEF ClientOk, UpdatingUsage, StoresTypes
  <1>4. Deleting(d)' /\ Resting(d)'
    BY <1>1 DEF ClientOk, Deleting, Resting
  <1> QED
    BY <1>2, <1>3, <1>4 DEF ClientOk

\* An operation goes on, or ends.
LEMMA GoesOn ==
  ASSUME client \in [Clients -> Ops], NEW c \in Clients,
         NEW at \in {"check", "push", "index", "touch", "write", "read", "remove", "put", "messages", "records"},
         GoTo(c, at)
  PROVE  /\ client' \in [Clients -> Ops] /\ \A d \in Clients \ {c} : client'[d] = client[d]
         /\ client'[c].at = at /\ client'[c].op = client[c].op /\ client'[c].m = client[c].m
         /\ client'[c].s = client[c].s /\ client'[c].u = client[c].u /\ client'[c].seen = client[c].seen
PROOF
  <1> DEFINE n == [client[c] EXCEPT !.at = at]
  <1>1. /\ n \in Ops /\ n.at = at /\ n.op = client[c].op /\ n.m = client[c].m
        /\ n.s = client[c].s /\ n.u = client[c].u /\ n.seen = client[c].seen
    <2>1. client[c] \in Ops
      OBVIOUS
    <2> QED
      BY <2>1 DEF Ops
  <1>2. client' = [client EXCEPT ![c] = n]
    BY DEF GoTo
  <1> HIDE DEF n
  <1> QED
    BY <1>1, <1>2

\* A client begins an operation, or is at another step of it.
LEMMA Becomes ==
  ASSUME client \in [Clients -> Ops], NEW c \in Clients, NEW n \in Ops, Become(c, n)
  PROVE  /\ client' \in [Clients -> Ops] /\ \A d \in Clients \ {c} : client'[d] = client[d]
         /\ client'[c] = n
BY DEF Become

\* No message gets a second append by an operation that goes on, or by one of
\* a fresh message.
LEMMA ApartStay ==
  ASSUME AppendsApart, NEW c \in Clients, \A d \in Clients \ {c} : client'[d] = client[d],
         \/ client'[c].op # "append"
         \/ client[c].op = "append" /\ client'[c].m = client[c].m
         \/ \A d \in Clients : client[d].op = "append" => client[d].m # client'[c].m
  PROVE  AppendsApart'
BY DEF AppendsApart

SessLog == [s \in Sessions |->
               IF ~Promised(s) THEN {}
               ELSE IF backend = "redis" THEN Ids(s) \cup InHand(s) \cup Lost(s) ELSE Ids(s)]
SessRecords == {r \in records : Promised(r.session)}
Live == {s \in Sessions : session[s] = "whole"}

Shown(t) == IF backend = "redis" THEN KeptOf(t) ELSE Ids(t)
LogIs ==
    /\ SessLog = [t \in Sessions |-> SessLog[t]]
    /\ \A t \in Sessions : SessLog[t] = IF backend # "sql" /\ t \notin Live THEN {} ELSE Shown(t)

\* The log of the abstract store, by what is kept.
LEMMA SessLogIs == LogIs
BY DEF LogIs, SessLog, KeptOf, Promised, Live, Shown

\* The steps of the abstract store, by what they change.
LEMMA IsCreate ==
  ASSUME NEW s \in Sessions, s \notin created, created' = created \cup {s}, Live' = Live \cup {s},
         UNCHANGED <<SessLog, SessRecords>>
  PROVE  Spec1!Next
PROOF
  <1>1. Spec1!Create(s)
    BY Zenon DEF Spec1!Create, Live, SessLog, SessRecords
  <1> QED
    BY <1>1 DEF Spec1!Next

\* An append, of a message the store does not have.
LEMMA IsAppend ==
  ASSUME NEW s \in Sessions, NEW m \in Messages, s \in Live,
         \A t \in Sessions : m \notin SessLog[t], SessLog' = [SessLog EXCEPT ![s] = @ \cup {m}],
         UNCHANGED <<created, Live, SessRecords>>
  PROVE  Spec1!Next
PROOF
  <1>1. Spec1!Append(m, s)
    BY Zenon DEF Spec1!Append, Live, SessLog, SessRecords
  <1> QED
    BY <1>1 DEF Spec1!Next

\* A record.
LEMMA IsRecord ==
  ASSUME NEW r \in Records, r.session \in Live, r.of \in SessLog[r.session],
         SessRecords' = SessRecords \cup {r}, UNCHANGED <<created, Live, SessLog>>
  PROVE  Spec1!Next
PROOF
  <1>1. Spec1!Record(r)
    BY Zenon DEF Spec1!Record, Live, SessLog, SessRecords
  <1> QED
    BY <1>1 DEF Spec1!Next

\* A deletion in one step.
LEMMA IsDelete ==
  ASSUME NEW s \in Sessions, Live' = Live \ {s}, SessLog' = [SessLog EXCEPT ![s] = {}],
         SessRecords' = {r \in SessRecords : r.session # s}, UNCHANGED created
  PROVE  Spec1!Next
PROOF
  <1>1. Spec1!Delete(s)
    BY Zenon DEF Spec1!Delete, Live, SessLog, SessRecords
  <1> QED
    BY <1>1 DEF Spec1!Next

\* Nothing of the abstract store changes.
LEMMA IsStutter ==
  ASSUME UNCHANGED <<created, Live, SessLog, SessRecords>>
  PROVE  UNCHANGED Spec1!specVars
BY Zenon DEF Spec1!specVars, Live, SessLog, SessRecords

\* The records of a store that has neither a new record nor another session.
LEMMA SameRecords ==
  ASSUME UNCHANGED <<backend, session, records>>
  PROVE  UNCHANGED <<Live, SessRecords>>
BY DEF Live, SessRecords, Promised

\* The log follows from what is shown of the sessions that exist.
LEMMA SameLog ==
  ASSUME UNCHANGED backend, UNCHANGED Live,
         \A t \in Sessions : backend = "sql" \/ t \in Live => Shown(t)' = Shown(t)
  PROVE  UNCHANGED SessLog
PROOF
  <1>1. LogIs /\ LogIs'
    BY SessLogIs, PTL
  <1>2. \A t \in Sessions : SessLog'[t] = SessLog[t]
    BY <1>1 DEF LogIs
  <1>3. SessLog = [t \in Sessions |-> SessLog[t]] /\ SessLog' = [t \in Sessions |-> SessLog'[t]]
    BY <1>1 DEF LogIs
  <1> HIDE DEF SessLog
  <1> QED
    BY <1>2, <1>3

\* A step keeps the invariant, and is a step of the abstract store or none.
Faithful == StoresInv' /\ (Spec1!Next \/ UNCHANGED Spec1!specVars)

\* A listed message is its session's; what is kept of it is.
LEMMA KeptIsHome ==
  ASSUME StoresInv, NEW t \in Sessions, NEW m \in KeptOf(t)
  PROVE  m \in Messages /\ home[m] = t /\ t \in created /\ ~Unknown(m)
PROOF
  <1> USE StoresAssumption
  <1>1. StoresTypes /\ Placed /\ Known /\ \A c \in Clients : ClientOk(c)
    BY DEF StoresInv
  <1>2. CASE m \in Ids(t)
    <2>1. PICK i \in DOMAIN stored[t] : m = stored[t][i].id
      BY <1>2 DEF Ids
    <2>2. stored[t] \in Seq(Entries)
      BY <1>1 DEF StoresTypes
    <2>3. stored[t][i] \in Entries
      BY <2>2
    <2>4. m \in Messages
      BY <2>1, <2>3 DEF Entries
    <2> QED
      BY <1>1, <1>2, <2>4 DEF Placed, Unknown
  <1>3. CASE m \in InHand(t)
    <2>1. PICK c \in Clients : At(c, "usage", "put") /\ client[c].s = t /\ client[c].m = m
      BY <1>3 DEF InHand
    <2>2. UpdatingUsage(c)
      BY <1>1 DEF ClientOk
    <2> QED
      BY <2>1, <2>2 DEF UpdatingUsage, At, Unknown
  <1>4. CASE m \in Lost(t)
    BY <1>1, <1>4 DEF Lost, Known, StoresTypes, Unknown
  <1> QED
    BY <1>2, <1>3, <1>4 DEF KeptOf

\* create_session: the ids are fresh.
LEMMA CreateSessionOk ==
  ASSUME StoresInv, NEW s \in Sessions, CreateSession(s)
  PROVE  Faithful
PROOF
  <1>t. StoresTypes /\ AppendsApart /\ Placed /\ Known /\ Standing /\ Indexed /\ \A c \in Clients : ClientOk(c)
    BY DEF StoresInv
  <1>1. /\ s \notin created /\ created' = created \cup {s} /\ session' = [session EXCEPT ![s] = "whole"]
        /\ UNCHANGED <<backend, made, home, stored, index, records, client, faults, acked, deleted, tangled>>
    BY DEF CreateSession
  <1>2. \A t : Ids(t)' = Ids(t) /\ InHand(t)' = InHand(t) /\ Lost(t)' = Lost(t) /\ KeptOf(t)' = KeptOf(t)
    BY <1>1 DEF Ids, InHand, Lost, At, KeptOf
  <1>3. StoresTypes'
    BY <1>t, <1>1 DEF StoresTypes
  <1>4. \A c \in Clients : ClientOk(c)'
    BY <1>t, <1>1, <1>2 DEF ClientOk, Appending, UpdatingUsage, Deleting, Resting, Unknown
  <1>5. AppendsApart' /\ Known'
    BY <1>t, <1>1 DEF AppendsApart, Known
  <1>6. Placed' /\ Standing' /\ Indexed'
    BY <1>t, <1>1, <1>2 DEF Placed, Standing, Indexed, StoresTypes
  <1>7. Live' = Live \cup {s}
    BY <1>t, <1>1 DEF Live, StoresTypes
  <1>8. UNCHANGED <<SessLog, SessRecords>>
    <2>1. KeptOf(s) = {} /\ Ids(s) = {}
      BY <1>1, KeptIsHome DEF KeptOf
    <2>2. UNCHANGED SessLog
      <3>1. LogIs /\ LogIs'
        BY SessLogIs, PTL
      <3>2. \A t \in Sessions : SessLog'[t] = SessLog[t]
        BY <1>1, <1>2, <1>7, <2>1, <3>1 DEF LogIs, Shown
      <3>3. SessLog = [t \in Sessions |-> SessLog[t]] /\ SessLog' = [t \in Sessions |-> SessLog'[t]]
        BY <3>1 DEF LogIs
      <3> HIDE DEF SessLog
      <3> QED
        BY <3>2, <3>3
    <2>3. \A r \in records : r.session # s
      BY <1>1, <1>t DEF Known
    <2> QED
      BY <1>1, <1>t, <2>2, <2>3 DEF SessRecords, Promised, StoresTypes, Records
  <1> QED
    BY <1>1, <1>3, <1>4, <1>5, <1>6, <1>7, <1>8, IsCreate DEF StoresInv, Faithful

\* append_message: the message is fresh, so nobody knows it.
LEMMA BeginAppendOk ==
  ASSUME StoresInv, NEW c \in Clients, NEW m \in Messages, NEW s \in Sessions, BeginAppend(c, m, s)
  PROVE  Faithful
PROOF
  <1> USE StoresAssumption
  <1> DEFINE n == [Idle EXCEPT !.op = "append", !.at = "check", !.m = m, !.s = s]
  <1>t. StoresTypes /\ AppendsApart /\ Placed /\ Known /\ Standing /\ Indexed /\ \A d \in Clients : ClientOk(d)
    BY DEF StoresInv
  <1>1. /\ At(c, "idle", "idle") /\ home[m] = None /\ home' = [home EXCEPT ![m] = s] /\ Become(c, n)
        /\ UNCHANGED <<backend, created, session, stored, index, records, faults, acked, deleted, tangled>>
    BY DEF BeginAppend
  <1>2. n \in Ops /\ n.op = "append" /\ n.at = "check" /\ n.m = m /\ n.s = s
    BY DEF Idle, Ops
  <1> HIDE DEF n
  <1>3. /\ client' \in [Clients -> Ops] /\ \A d \in Clients \ {c} : client'[d] = client[d]
        /\ client'[c] = n
    BY <1>t, <1>1, <1>2, Becomes DEF StoresTypes
  <1>4. \A t \in Sessions : m \notin KeptOf(t)
    BY <1>1, KeptIsHome
  <1>5. Unknown(m)
    BY <1>1, <1>4, <1>t DEF Unknown, Known, KeptOf, StoresTypes
  <1>6. \A t \in Sessions : Ids(t)' = Ids(t) /\ InHand(t)' = InHand(t) /\ Lost(t)' = Lost(t) /\ KeptOf(t)' = KeptOf(t)
    <2>1. \A t \in Sessions : Ids(t)' = Ids(t)
      BY <1>1 DEF Ids
    <2>2. \A t \in Sessions : InHand(t)' = InHand(t)
      BY <1>1, <1>2, <1>3, HandsStay DEF At
    <2>3. \A t \in Sessions : Lost(t)' = Lost(t)
      BY <1>1, <1>5, <1>t DEF Lost, Unknown, StoresTypes
    <2> QED
      BY <2>1, <2>2, <2>3 DEF KeptOf
  <1>7. \A d \in Clients : client[d].op = "append" => client[d].m # m
    BY <1>1, <1>t DEF ClientOk, Appending
  <1>8. \A d \in Clients \ {c} : ClientOk(d)'
    <2>1. /\ backend' = backend /\ created \subseteq created' /\ deleted \subseteq deleted'
          /\ \A x \in Messages : home[x] # None => home'[x] = home[x]
          /\ index' \subseteq index \cup {m} /\ tangled' \subseteq tangled \cup {m} /\ acked' \subseteq acked \cup {m}
          /\ \A t \in Sessions : Ids(t)' \subseteq Ids(t) \cup {m} /\ KeptOf(t) \subseteq KeptOf(t)'
          /\ \A t \in Sessions : Ids(t) \subseteq Ids(t)'
          /\ index \subseteq index'
      BY <1>1, <1>6
    <2> QED
      BY <1>3, <1>7, <2>1, OthersStay
  <1>9. ClientOk(c)'
    <2>1. Unknown(m)'
      BY <1>1, <1>5, <1>6 DEF Unknown
    <2> QED
      BY <1>1, <1>2, <1>3, <1>t, <2>1 DEF ClientOk, Appending, UpdatingUsage, Deleting, Resting,
         StoresTypes
  <1>10. AppendsApart'
    BY <1>2, <1>3, <1>7, <1>t, ApartStay
  <1>11. Placed' /\ Indexed' /\ Known' /\ Standing'
    <2>1. \A x \in Messages : ~Unknown(x) => home'[x] = home[x]
      BY <1>1, <1>5, <1>t DEF StoresTypes
    <2>2. \A t \in Sessions : \A x \in Ids(t) : x \in Messages /\ ~Unknown(x)
      BY KeptIsHome DEF KeptOf, Unknown
    <2> QED
      BY <1>1, <1>6, <1>t, <2>1, <2>2 DEF Placed, Indexed, Known, Standing, Unknown, StoresTypes
  <1>12. StoresTypes'
    BY <1>t, <1>1, <1>3 DEF StoresTypes
  <1>13. UNCHANGED <<SessLog, Live, SessRecords>>
    BY <1>1, <1>6, SameRecords, SameLog DEF Shown
  <1> QED
    BY <1>1, <1>8, <1>9, <1>10, <1>11, <1>12, <1>13, IsStutter DEF StoresInv, Faithful

\* The transaction of the SQL stores: one step, and a session is there.
LEMMA InsertMessageOk ==
  ASSUME StoresInv, NEW c \in Clients, InsertMessage(c)
  PROVE  Faithful
PROOF
  <1> USE StoresAssumption
  <1>t. StoresTypes /\ AppendsApart /\ Placed /\ Known /\ Standing /\ Indexed /\ \A d \in Clients : ClientOk(d)
    BY DEF StoresInv
  <1>1. /\ backend = "sql" /\ At(c, "append", "check") /\ Become(c, Idle)
        /\ UNCHANGED <<backend, created, session, home, index, records, deleted, tangled>>
    BY DEF InsertMessage, Return
  <1>2. PICK m \in Messages, s \in Sessions :
            client[c].m = m /\ client[c].s = s /\ home[m] = s /\ Unknown(m)
    BY <1>1, <1>t DEF ClientOk, Appending, At
  <1>3. /\ client' \in [Clients -> Ops] /\ \A d \in Clients \ {c} : client'[d] = client[d]
        /\ client'[c] = Idle
    BY <1>t, <1>1, IdleFields, Becomes DEF StoresTypes
  <1>4. /\ \A d \in Clients \ {c} : client[d].op = "append" => client[d].m # m
    BY <1>1, <1>2, <1>t DEF AppendsApart, At
  <1>5. ASSUME stored' \in [Sessions -> Seq(Entries)], acked' \subseteq acked \cup {m}, s \in created \/ acked' = acked,
               \A t \in Sessions : Ids(t)' \subseteq Ids(t) \cup {m}, Placed'
        PROVE  StoresInv'
    <2>1. /\ backend' = backend /\ created \subseteq created' /\ deleted \subseteq deleted'
          /\ \A x \in Messages : home[x] # None => home'[x] = home[x]
          /\ index' \subseteq index \cup {m} /\ tangled' \subseteq tangled \cup {m} /\ acked' \subseteq acked \cup {m}
          /\ backend # "redis" /\ backend # "memory"
      BY <1>1, <1>5
    <2>2. \A d \in Clients \ {c} : ClientOk(d)'
      BY <1>3, <1>4, <1>5, <2>1, OthersStay
    <2>3. ClientOk(c)'
      BY <1>3, IdleFields DEF ClientOk, Appending, UpdatingUsage, Deleting, Resting
    <2>4. AppendsApart'
      BY <1>3, <1>t, IdleFields, ApartStay
    <2>5. StoresTypes' /\ Known' /\ Standing' /\ Indexed'
      BY <1>1, <1>2, <1>3, <1>5, <1>t DEF StoresTypes, Known, Standing, Indexed
    <2> QED
      BY <1>5, <2>2, <2>3, <2>4, <2>5 DEF StoresInv
  <1>6. UNCHANGED <<Live, SessRecords>>
    BY <1>1, SameRecords
  <1>7. CASE session[s] = "whole" /\ stored' = [stored EXCEPT ![s] = Append(@, [id |-> m, usage |-> 0])]
             /\ acked' \in {acked, acked \cup {m}}
    <2> DEFINE e == [id |-> m, usage |-> 0]
    <2>1. e \in Entries /\ e.id = m
      BY DEF Entries
    <2> HIDE DEF e
    <2>2. /\ stored' \in [Sessions -> Seq(Entries)]
          /\ \A t \in Sessions : Ids(t)' = IF t = s THEN Ids(t) \cup {m} ELSE Ids(t)
      <3>1. stored \in [Sessions -> Seq(Entries)] /\ stored' = [stored EXCEPT ![s] = Append(@, e)]
        BY <1>7, <1>t DEF StoresTypes, e
      <3> QED
        BY <2>1, <3>1, EntryAdded
    <2>3. s \in created
      BY <1>7, <1>t DEF Standing
    <2>4. Placed'
      BY <1>1, <1>2, <1>7, <1>t, <2>2, <2>3 DEF Placed
    <2>5. StoresInv'
      BY <1>5, <1>7, <2>2, <2>3, <2>4
    <2>6. SessLog' = [SessLog EXCEPT ![s] = @ \cup {m}] /\ \A t \in Sessions : m \notin SessLog[t]
      BY <1>1, <1>2, <2>2 DEF SessLog, Unknown, Promised
    <2>7. s \in Live
      BY <1>1, <1>7 DEF Live
    <2> QED
      BY <1>1, <1>6, <2>5, <2>6, <2>7, IsAppend DEF Faithful
  <1>8. CASE UNCHANGED <<stored, acked>>
    <2>1. \A t \in Sessions : Ids(t)' = Ids(t)
      BY <1>8 DEF Ids
    <2>2. Placed' /\ stored' \in [Sessions -> Seq(Entries)]
      BY <1>1, <1>8, <1>t, <2>1 DEF Placed, StoresTypes
    <2>3. StoresInv'
      BY <1>5, <1>8, <2>1, <2>2
    <2>4. UNCHANGED SessLog
      BY <1>1, <1>6, <2>1, SameLog DEF Shown
    <2> QED
      BY <1>1, <1>6, <2>3, <2>4, IsStutter DEF Faithful
  <1> QED
    BY <1>2, <1>7, <1>8 DEF InsertMessage

\* An operation goes on, and nothing else is changed by it.
LEMMA Quiet ==
  ASSUME StoresInv, NEW c \in Clients, \A d \in Clients \ {c} : client'[d] = client[d],
         client' \in [Clients -> Ops], ClientOk(c)',
         client'[c].op = "append" => client[c].op = "append" /\ client'[c].m = client[c].m,
         ~At(c, "usage", "put"), ~At(c, "usage", "put")',
         UNCHANGED <<backend, created, session, home, stored, index, records, acked, deleted, tangled>>
  PROVE  Faithful
PROOF
  <1>t. StoresTypes /\ AppendsApart /\ Placed /\ Known /\ Standing /\ Indexed /\ \A d \in Clients : ClientOk(d)
    BY DEF StoresInv
  <1>1. \A t : Ids(t)' = Ids(t) /\ InHand(t)' = InHand(t) /\ Lost(t)' = Lost(t) /\ KeptOf(t)' = KeptOf(t)
    <2>1. \A t : Ids(t)' = Ids(t) /\ Lost(t)' = Lost(t)
      BY DEF Ids, Lost
    <2>2. \A t : InHand(t)' = InHand(t)
      BY HandsStay
    <2> QED
      BY <2>1, <2>2 DEF KeptOf
  <1>2. \A m : Unknown(m)' = Unknown(m)
    BY <1>1 DEF Unknown
  <1>3. ASSUME NEW d \in Clients \ {c} PROVE ClientOk(d)'
    BY <1>1, <1>2, <1>t DEF ClientOk, Appending, UpdatingUsage, Deleting, Resting
  <1>4. AppendsApart'
    BY <1>t, ApartStay
  <1>5. StoresTypes' /\ Known' /\ Standing'
    BY <1>t DEF StoresTypes, Known, Standing
  <1>6. Placed' /\ Indexed'
    BY <1>t, <1>1 DEF Placed, Indexed
  <1>7. UNCHANGED <<SessLog, Live, SessRecords>>
    BY <1>1, SameRecords, SameLog DEF Shown
  <1> QED
    BY <1>3, <1>4, <1>5, <1>6, <1>7, IsStutter DEF StoresInv, Faithful

\* The session is looked up: it was created.
LEMMA CheckSessionOk ==
  ASSUME StoresInv, NEW c \in Clients, CheckSession(c)
  PROVE  Faithful
PROOF
  <1>t. StoresTypes /\ Standing /\ \A d \in Clients : ClientOk(d)
    BY DEF StoresInv
  <1>1. /\ backend # "sql" /\ At(c, "append", "check")
        /\ IF session[client[c].s] = "absent" THEN Become(c, Idle) ELSE GoTo(c, "push")
        /\ UNCHANGED <<backend, created, session, home, stored, index, records, acked, deleted, tangled>>
    BY DEF CheckSession, Return
  <1>2. client[c].op = "append" /\ client[c].at = "check" /\ Appending(c) /\ client[c].s \in Sessions
    BY <1>1, <1>t DEF At, ClientOk, Appending
  <1>3. CASE Become(c, Idle)
    <2>1. client' \in [Clients -> Ops] /\ (\A d \in Clients \ {c} : client'[d] = client[d]) /\ client'[c] = Idle
      BY <1>t, <1>3, IdleFields, Becomes DEF StoresTypes
    <2>2. ClientOk(c)' /\ client'[c].op # "append" /\ ~At(c, "usage", "put") /\ ~At(c, "usage", "put")'
      BY <1>2, <2>1, IdleFields DEF ClientOk, Appending, UpdatingUsage, Deleting, Resting, At
    <2> QED
      BY <1>1, <2>1, <2>2, Quiet
  <1>4. CASE session[client[c].s] # "absent" /\ GoTo(c, "push")
    <2>1. /\ client' \in [Clients -> Ops] /\ \A d \in Clients \ {c} : client'[d] = client[d]
          /\ client'[c].at = "push" /\ client'[c].op = client[c].op /\ client'[c].m = client[c].m
          /\ client'[c].s = client[c].s
      BY <1>t, <1>4, GoesOn DEF StoresTypes
    <2>2. client[c].s \in created
      BY <1>2, <1>4, <1>t DEF Standing
    <2>3. Unknown(client[c].m) /\ client[c].m \in Messages /\ home[client[c].m] = client[c].s
      BY <1>2 DEF Appending
    <2>4. ASSUME NEW m, Unknown(m) PROVE Unknown(m)'
      BY <1>1, <2>4 DEF Unknown, Ids
    <2>5. Appending(c)'
      <3>1. ASSUME NEW m, m = client[c].m PROVE Appending(c)'
        <4>1. Unknown(m)' /\ client'[c].m = m
          BY <2>1, <2>3, <2>4, <3>1
        <4> QED
          BY <1>1, <1>2, <2>1, <2>2, <2>3, <4>1 DEF Appending
      <3> QED
        BY <3>1
    <2>6. ClientOk(c)' /\ ~At(c, "usage", "put") /\ ~At(c, "usage", "put")'
      BY <1>2, <2>1, <2>5 DEF ClientOk, UpdatingUsage, Deleting, Resting, At
    <2> QED
      BY <1>1, <1>2, <2>1, <2>6, Quiet
  <1> QED
    BY <1>1, <1>3, <1>4

\* The index is asked: it knows only messages of created sessions.
LEMMA LookUpMessageOk ==
  ASSUME StoresInv, NEW c \in Clients, NEW m \in Messages, NEW u \in Usages, LookUpMessage(c, m, u)
  PROVE  Faithful
PROOF
  <1> DEFINE start == IF backend = "memory" THEN "write" ELSE "read"
             n == [Idle EXCEPT !.op = "usage", !.at = start, !.m = m, !.s = home[m], !.u = u]
  <1>t. StoresTypes /\ Known /\ \A d \in Clients : ClientOk(d)
    BY DEF StoresInv
  <1>1. /\ backend \in {"memory", "redis"} /\ At(c, "idle", "idle") /\ m \in index
        /\ Become(c, n)
        /\ UNCHANGED <<backend, created, session, home, stored, index, records, acked, deleted, tangled>>
    BY DEF LookUpMessage
  <1>2. /\ n \in Ops /\ n.op = "usage" /\ n.m = m /\ n.s = home[m] /\ n.at = start
        /\ start = IF backend = "memory" THEN "write" ELSE "read"
    <2>2. start \in {"write", "read"} /\ home[m] \in Sessions \cup {None}
      BY <1>t DEF StoresTypes
    <2> HIDE DEF start
    <2>3. n \in Ops /\ n.op = "usage" /\ n.m = m /\ n.s = home[m] /\ n.at = start
      <3>1. PICK a : a = start
        OBVIOUS
      <3>2. PICK s : s = home[m]
        OBVIOUS
      <3>3. n = [Idle EXCEPT !.op = "usage", !.at = a, !.m = m, !.s = s, !.u = u]
        BY <3>1, <3>2
      <3> HIDE DEF n
      <3>4. n \in Ops /\ n.op = "usage" /\ n.m = m /\ n.s = s /\ n.at = a
        BY <2>2, <3>1, <3>2, <3>3 DEF Idle, Ops
      <3> QED
        BY <3>1, <3>2, <3>4
    <2> QED
      BY <2>3 DEF start
  <1> HIDE DEF n, start
  <1>4. client' \in [Clients -> Ops] /\ (\A d \in Clients \ {c} : client'[d] = client[d]) /\ client'[c] = n
    BY <1>t, <1>1, <1>2, Becomes DEF StoresTypes
  <1>5. ClientOk(c)' /\ client'[c].op # "append" /\ ~At(c, "usage", "put") /\ ~At(c, "usage", "put")'
    BY <1>1, <1>2, <1>4, <1>t DEF ClientOk, Appending, UpdatingUsage, Deleting, Resting, At, Known
  <1> QED
    BY <1>1, <1>4, <1>5, Quiet

\* ZRANGE: the entry found is the message's own.
LEMMA ReadEntryOk ==
  ASSUME StoresInv, NEW c \in Clients, ReadEntry(c)
  PROVE  Faithful
PROOF
  <1> USE StoresAssumption
  <1>t. StoresTypes /\ \A d \in Clients : ClientOk(d)
    BY DEF StoresInv
  <1>1. /\ At(c, "usage", "read")
        /\ UNCHANGED <<backend, created, session, home, stored, index, records, acked, deleted, tangled>>
    BY DEF ReadEntry
  <1>2. /\ client[c].op = "usage" /\ client[c].at = "read" /\ UpdatingUsage(c)
        /\ client[c].s \in Sessions /\ client[c] \in Ops
    BY <1>1, <1>t DEF At, ClientOk, UpdatingUsage, StoresTypes
  <1>3. CASE Become(c, Idle)
    <2>1. client' \in [Clients -> Ops] /\ (\A d \in Clients \ {c} : client'[d] = client[d]) /\ client'[c] = Idle
      BY <1>t, <1>3, IdleFields, Becomes DEF StoresTypes
    <2>2. ClientOk(c)' /\ client'[c].op # "append" /\ ~At(c, "usage", "put") /\ ~At(c, "usage", "put")'
      BY <1>2, <2>1, IdleFields DEF ClientOk, Appending, UpdatingUsage, Deleting, Resting, At
    <2> QED
      BY <1>1, <2>1, <2>2, Quiet
  <1>4. ASSUME NEW i \in DOMAIN stored[client[c].s], stored[client[c].s][i].id = client[c].m,
               Become(c, [client[c] EXCEPT !.at = "remove", !.seen = stored[client[c].s][i]])
        PROVE  Faithful
    <2> DEFINE e == stored[client[c].s][i]
               n == [client[c] EXCEPT !.at = "remove", !.seen = e]
    <2>1. e \in Entries /\ e.id = client[c].m
      <3>1. stored[client[c].s] \in Seq(Entries)
        BY <1>2, <1>t DEF StoresTypes
      <3> QED
        BY <1>4, <3>1
    <2> HIDE DEF e
    <2>2. /\ n \in Ops /\ n.op = "usage" /\ n.at = "remove" /\ n.m = client[c].m /\ n.s = client[c].s
          /\ n.seen = e
      BY <1>2, <2>1 DEF Ops
    <2>3. Become(c, n)
      BY <1>4 DEF e
    <2> HIDE DEF n
    <2>4. client' \in [Clients -> Ops] /\ (\A d \in Clients \ {c} : client'[d] = client[d]) /\ client'[c] = n
      BY <1>t, <2>2, <2>3, Becomes DEF StoresTypes
    <2>5. ClientOk(c)' /\ client'[c].op # "append" /\ ~At(c, "usage", "put") /\ ~At(c, "usage", "put")'
      BY <1>1, <1>2, <2>1, <2>2, <2>4 DEF ClientOk, Appending, UpdatingUsage, Deleting, Resting, At
    <2> QED
      BY <1>1, <2>4, <2>5, Quiet
  <1> QED
    BY <1>3, <1>4 DEF ReadEntry, Return

\* The message is inserted, whether or not the session is still there.
LEMMA PushMessageOk ==
  ASSUME StoresInv, NEW c \in Clients, PushMessage(c)
  PROVE  Faithful
PROOF
  <1> USE StoresAssumption
  <1> DEFINE next == IF backend = "mongodb" THEN "touch" ELSE "index"
  <1>t. StoresTypes /\ AppendsApart /\ Placed /\ Known /\ Standing /\ Indexed /\ \A d \in Clients : ClientOk(d)
    BY DEF StoresInv
  <1>1. /\ At(c, "append", "push") /\ GoTo(c, next)
        /\ UNCHANGED <<backend, created, session, home, index, records, acked, deleted, tangled>>
        /\ stored' = [stored EXCEPT ![client[c].s] = Append(@, [id |-> client[c].m, usage |-> 0])]
    BY DEF PushMessage
  <1>2. PICK m \in Messages, s \in Sessions :
            /\ client[c].m = m /\ client[c].s = s /\ home[m] = s /\ Unknown(m)
            /\ s \in created /\ backend # "sql"
    BY <1>1, <1>t DEF ClientOk, Appending, At
  <1>3. /\ client' \in [Clients -> Ops] /\ \A d \in Clients \ {c} : client'[d] = client[d]
        /\ client'[c].op = "append" /\ client'[c].at = next /\ client'[c].m = m /\ client'[c].s = s
    BY <1>t, <1>1, <1>2, GoesOn DEF StoresTypes, At
  <1>4. \A d \in Clients \ {c} : client[d].op = "append" => client[d].m # m
    BY <1>1, <1>2, <1>t DEF AppendsApart, At
  <1>5. /\ stored' \in [Sessions -> Seq(Entries)]
        /\ \A t \in Sessions : Ids(t)' = IF t = s THEN Ids(t) \cup {m} ELSE Ids(t)
    <2> DEFINE e == [id |-> m, usage |-> 0]
    <2>1. e \in Entries /\ e.id = m
      BY DEF Entries
    <2> HIDE DEF e
    <2>2. stored \in [Sessions -> Seq(Entries)] /\ stored' = [stored EXCEPT ![s] = Append(@, e)]
      BY <1>1, <1>2, <1>t DEF StoresTypes, e
    <2> QED
      BY <2>1, <2>2, EntryAdded
  <1>6. \A t \in Sessions : InHand(t)' = InHand(t) /\ Lost(t)' = Lost(t)
    <2>1. ~At(c, "usage", "put") /\ ~At(c, "usage", "put")'
      BY <1>1, <1>3 DEF At
    <2> QED
      BY <1>1, <1>3, <2>1, HandsStay DEF Lost
  <1>7. \A t \in Sessions : KeptOf(t)' = IF t = s THEN KeptOf(t) \cup {m} ELSE KeptOf(t)
    BY <1>5, <1>6 DEF KeptOf
  <1>8. \A d \in Clients \ {c} : ClientOk(d)'
    <2>1. /\ backend' = backend /\ created \subseteq created' /\ deleted \subseteq deleted'
          /\ \A x \in Messages : home[x] # None => home'[x] = home[x]
          /\ index' \subseteq index \cup {m} /\ tangled' \subseteq tangled \cup {m} /\ acked' \subseteq acked \cup {m}
          /\ index \subseteq index'
          /\ \A t \in Sessions : Ids(t)' \subseteq Ids(t) \cup {m} /\ KeptOf(t) \subseteq KeptOf(t)'
          /\ backend = "memory" => \A t \in Sessions : Ids(t) \subseteq Ids(t)'
      BY <1>1, <1>5, <1>7
    <2> QED
      BY <1>3, <1>4, <2>1, OthersStay
  <1>9. ClientOk(c)'
    <2>1. m \in KeptOf(s)' /\ m \in Ids(s)'
      BY <1>5, <1>7
    <2> QED
      BY <1>1, <1>2, <1>3, <2>1 DEF ClientOk, Appending, UpdatingUsage, Deleting, Resting
  <1>10. AppendsApart'
    BY <1>1, <1>2, <1>3, <1>t, ApartStay DEF At
  <1>11. StoresTypes' /\ Known' /\ Standing'
    BY <1>1, <1>3, <1>5, <1>t DEF StoresTypes, Known, Standing
  <1>12. Placed' /\ Indexed'
    <2>1. Placed'
      BY <1>1, <1>2, <1>5, <1>t DEF Placed
    <2>2. Indexed'
      <3>1. \A x \in index \cup acked : home[x] \in Sessions
        BY <1>t DEF Known, StoresTypes
      <3> QED
        BY <1>1, <1>5, <1>7, <1>t, <3>1 DEF Indexed
    <2> QED
      BY <2>1, <2>2
  <1>13. LogIs /\ LogIs' /\ UNCHANGED <<Live, SessRecords>>
    <2>1. LogIs /\ LogIs'
      BY SessLogIs, PTL
    <2> QED
      BY <1>1, <2>1, SameRecords
  <1>14. CASE s \in Live
    <2>1. \A t \in Sessions : m \notin SessLog[t]
      BY <1>2, <1>13, KeptIsHome DEF LogIs, Shown, KeptOf, Unknown
    <2>2. \A t \in Sessions : SessLog'[t] = IF t = s THEN SessLog[t] \cup {m} ELSE SessLog[t]
      BY <1>1, <1>2, <1>5, <1>7, <1>13, <1>14 DEF LogIs, Shown
    <2>3. SessLog' = [t \in Sessions |-> SessLog'[t]] /\ SessLog = [t \in Sessions |-> SessLog[t]]
      BY <1>13 DEF LogIs
    <2>4. SessLog' = [SessLog EXCEPT ![s] = @ \cup {m}]
      <3> HIDE DEF SessLog
      <3> QED
        BY <2>2, <2>3
    <2> QED
      BY <1>1, <1>8, <1>9, <1>10, <1>11, <1>12, <1>13, <1>14, <2>1, <2>4, IsAppend DEF StoresInv, Faithful
  <1>15. CASE s \notin Live
    <2>1. UNCHANGED SessLog
      BY <1>1, <1>2, <1>5, <1>7, <1>13, <1>15, SameLog DEF Shown
    <2> QED
      BY <1>1, <1>8, <1>9, <1>10, <1>11, <1>12, <1>13, <2>1, IsStutter DEF StoresInv, Faithful
  <1> QED
    BY <1>14, <1>15

\* An operation returns.
LEMMA Returns ==
  ASSUME StoresInv, NEW c \in Clients, Return(c)
  PROVE  /\ client' \in [Clients -> Ops] /\ \A d \in Clients \ {c} : client'[d] = client[d]
         /\ client'[c] = Idle /\ ClientOk(c)' /\ AppendsApart' /\ ~At(c, "usage", "put")'
PROOF
  <1>1. client \in [Clients -> Ops] /\ AppendsApart
    BY DEF StoresInv, StoresTypes
  <1>2. client' \in [Clients -> Ops] /\ (\A d \in Clients \ {c} : client'[d] = client[d]) /\ client'[c] = Idle
    BY <1>1, IdleFields, Becomes DEF Return
  <1>3. ClientOk(c)' /\ ~At(c, "usage", "put")'
    BY <1>2, IdleFields DEF ClientOk, Appending, UpdatingUsage, Deleting, Resting, At
  <1>4. AppendsApart'
    BY <1>1, <1>2, IdleFields, ApartStay
  <1> QED
    BY <1>2, <1>3, <1>4

\* The index learns of a message that is listed, or whose session goes.
LEMMA IndexMessageOk ==
  ASSUME StoresInv, NEW c \in Clients, IndexMessage(c)
  PROVE  Faithful
PROOF
  <1> USE StoresAssumption
  <1>t. StoresTypes /\ AppendsApart /\ Placed /\ Known /\ Standing /\ Indexed /\ \A d \in Clients : ClientOk(d)
    BY DEF StoresInv
  <1>1. /\ At(c, "append", "index") /\ index' = index \cup {client[c].m}
        /\ UNCHANGED <<backend, created, session, home, stored, records, deleted, tangled>>
    BY DEF IndexMessage
  <1>2. PICK m \in Messages, s \in Sessions :
            /\ client[c].m = m /\ client[c].s = s /\ home[m] = s
            /\ s \in created /\ backend # "sql"
            /\ backend = "redis" /\ s \notin deleted => m \in KeptOf(s)
            /\ backend = "memory" /\ s \notin deleted => m \in Ids(s)
    BY <1>1, <1>t DEF ClientOk, Appending, At
  <1>3. \A d \in Clients \ {c} : client[d].op = "append" => client[d].m # m
    BY <1>1, <1>2, <1>t DEF AppendsApart, At
  <1>4. /\ client' \in [Clients -> Ops] /\ \A d \in Clients \ {c} : client'[d] = client[d]
        /\ ClientOk(c)' /\ AppendsApart' /\ ~At(c, "usage", "put")' /\ acked' \subseteq acked \cup {m}
    <2>1. CASE Return(c) /\ acked' = acked \cup {m}
      BY <2>1, Returns
    <2>2. CASE GoTo(c, "touch") /\ UNCHANGED acked /\ backend # "memory"
      <3>1. /\ client' \in [Clients -> Ops] /\ \A d \in Clients \ {c} : client'[d] = client[d]
            /\ client'[c].op = "append" /\ client'[c].at = "touch" /\ client'[c].m = m /\ client'[c].s = s
        BY <1>1, <1>2, <1>t, <2>2, GoesOn DEF StoresTypes, At
      <3>2. ClientOk(c)' /\ ~At(c, "usage", "put")'
        BY <1>1, <1>2, <2>2, <3>1 DEF ClientOk, Appending, UpdatingUsage, Deleting, Resting, At
      <3>3. AppendsApart'
        BY <1>1, <1>2, <1>t, <3>1, ApartStay DEF At
      <3> QED
        BY <2>2, <3>1, <3>2, <3>3
    <2> QED
      BY <1>2, <2>1, <2>2 DEF IndexMessage
  <1>5. \A t \in Sessions : Ids(t)' = Ids(t) /\ InHand(t)' = InHand(t) /\ Lost(t)' = Lost(t) /\ KeptOf(t)' = KeptOf(t)
    <2>1. ~At(c, "usage", "put")
      BY <1>1 DEF At
    <2>2. \A t \in Sessions : Ids(t)' = Ids(t) /\ InHand(t)' = InHand(t) /\ Lost(t)' = Lost(t)
      BY <1>1, <1>4, <2>1, HandsStay DEF Lost, Ids
    <2> QED
      BY <2>2 DEF KeptOf
  <1>6. \A d \in Clients \ {c} : ClientOk(d)'
    <2>1. /\ backend' = backend /\ created \subseteq created' /\ deleted \subseteq deleted'
          /\ \A x \in Messages : home[x] # None => home'[x] = home[x]
          /\ index' \subseteq index \cup {m} /\ tangled' \subseteq tangled \cup {m} /\ acked' \subseteq acked \cup {m}
          /\ index \subseteq index'
          /\ \A t \in Sessions : Ids(t)' \subseteq Ids(t) \cup {m} /\ KeptOf(t) \subseteq KeptOf(t)'
          /\ backend = "memory" => \A t \in Sessions : Ids(t) \subseteq Ids(t)'
      BY <1>1, <1>2, <1>4, <1>5
    <2> QED
      BY <1>3, <1>4, <2>1, OthersStay
  <1>7. StoresTypes' /\ Known' /\ Standing'
    BY <1>1, <1>2, <1>4, <1>t DEF StoresTypes, Known, Standing
  <1>8. Placed'
    BY <1>1, <1>5, <1>t DEF Placed
  <1>9. Indexed'
    <2>1. \A x \in index \cup acked : home[x] \in Sessions
      BY <1>t DEF Known, StoresTypes
    <2> QED
      BY <1>1, <1>2, <1>4, <1>5, <1>t, <2>1 DEF Indexed, Known, StoresTypes
  <1>10. UNCHANGED <<SessLog, Live, SessRecords>>
    BY <1>1, <1>5, SameRecords, SameLog DEF Shown
  <1> QED
    BY <1>1, <1>4, <1>6, <1>7, <1>8, <1>9, <1>10, IsStutter DEF StoresInv, Faithful

\* HSET may bring a stub of a session back, but no session.
LEMMA TouchSessionOk ==
  ASSUME StoresInv, NEW c \in Clients, TouchSession(c)
  PROVE  Faithful
PROOF
  <1> USE StoresAssumption
  <1>t. StoresTypes /\ AppendsApart /\ Placed /\ Known /\ Standing /\ Indexed /\ \A d \in Clients : ClientOk(d)
    BY DEF StoresInv
  <1>1. /\ At(c, "append", "touch") /\ Return(c) /\ acked' \in {acked, acked \cup {client[c].m}}
        /\ session' = [session EXCEPT ![client[c].s] =
               IF session[client[c].s] = "absent" /\ backend = "redis" THEN "stub" ELSE session[client[c].s]]
        /\ UNCHANGED <<backend, created, home, stored, index, records, deleted, tangled>>
    BY DEF TouchSession
  <1>2. PICK m \in Messages, s \in Sessions :
            client[c].m = m /\ client[c].s = s /\ home[m] = s /\ s \in created /\ backend \notin {"sql", "memory"}
    BY <1>1, <1>t DEF ClientOk, Appending, At
  <1>3. \A d \in Clients \ {c} : client[d].op = "append" => client[d].m # m
    BY <1>1, <1>2, <1>t DEF AppendsApart, At
  <1>4. /\ client' \in [Clients -> Ops] /\ \A d \in Clients \ {c} : client'[d] = client[d]
        /\ ClientOk(c)' /\ AppendsApart' /\ ~At(c, "usage", "put")'
    BY <1>1, Returns
  <1>5. \A t \in Sessions : Ids(t)' = Ids(t) /\ InHand(t)' = InHand(t) /\ Lost(t)' = Lost(t) /\ KeptOf(t)' = KeptOf(t)
    <2>1. ~At(c, "usage", "put")
      BY <1>1 DEF At
    <2>2. \A t \in Sessions : Ids(t)' = Ids(t) /\ InHand(t)' = InHand(t) /\ Lost(t)' = Lost(t)
      BY <1>1, <1>4, <2>1, HandsStay DEF Lost, Ids
    <2> QED
      BY <2>2 DEF KeptOf
  <1>6. \A d \in Clients \ {c} : ClientOk(d)'
    <2>1. /\ backend' = backend /\ created \subseteq created' /\ deleted \subseteq deleted'
          /\ \A x \in Messages : home[x] # None => home'[x] = home[x]
          /\ index' \subseteq index \cup {m} /\ tangled' \subseteq tangled \cup {m} /\ acked' \subseteq acked \cup {m}
          /\ index \subseteq index'
          /\ \A t \in Sessions : Ids(t)' \subseteq Ids(t) \cup {m} /\ KeptOf(t) \subseteq KeptOf(t)'
          /\ backend = "memory" => \A t \in Sessions : Ids(t) \subseteq Ids(t)'
      BY <1>1, <1>2, <1>5
    <2> QED
      BY <1>3, <1>4, <2>1, OthersStay
  <1>7. StoresTypes' /\ Known' /\ Standing'
    BY <1>1, <1>2, <1>4, <1>t DEF StoresTypes, Known, Standing
  <1>8. Placed' /\ Indexed'
    <2>1. \A x \in index \cup acked : home[x] \in Sessions
      BY <1>t DEF Known, StoresTypes
    <2> QED
      BY <1>1, <1>2, <1>5, <1>t, <2>1 DEF Placed, Indexed
  <1>9. UNCHANGED <<Live, SessRecords>>
    BY <1>1, <1>2, <1>t DEF Live, SessRecords, Promised, StoresTypes, Records
  <1>10. UNCHANGED SessLog
    BY <1>1, <1>5, <1>9, SameLog DEF Shown
  <1> QED
    BY <1>1, <1>4, <1>6, <1>7, <1>8, <1>9, <1>10, IsStutter DEF StoresInv, Faithful

\* The operations under way do not see a session go in one step.
LEMMA DeleteCascadingOk ==
  ASSUME StoresInv, NEW c \in Clients, NEW s \in Sessions, DeleteCascading(c, s)
  PROVE  Faithful
PROOF
  <1>t. StoresTypes /\ AppendsApart /\ Placed /\ Known /\ Standing /\ Indexed /\ \A d \in Clients : ClientOk(d)
    BY DEF StoresInv
  <1>1. /\ backend = "sql" /\ s \in created /\ session' = [session EXCEPT ![s] = "absent"]
        /\ stored' = [stored EXCEPT ![s] = <<>>] /\ records' = {r \in records : r.session # s}
        /\ deleted' = deleted \cup {s}
        /\ UNCHANGED <<backend, created, home, index, client, acked, tangled>>
    BY DEF DeleteCascading
  <1>2. \A t \in Sessions : Ids(t)' = IF t = s THEN {} ELSE Ids(t)
    <2>1. stored'[s] = <<>> /\ \A t \in Sessions \ {s} : stored'[t] = stored[t]
      BY <1>1, <1>t DEF StoresTypes
    <2>2. DOMAIN stored'[s] = {}
      BY <2>1
    <2> QED
      BY <2>1, <2>2 DEF Ids
  <1>3. StoresTypes'
    BY <1>1, <1>t DEF StoresTypes
  <1>4. \A d \in Clients : ClientOk(d)'
    <2>1. \A m : Unknown(m) => Unknown(m)'
      BY <1>1, <1>2 DEF Unknown
    <2> QED
      BY <1>1, <1>t, <2>1 DEF ClientOk, Appending, UpdatingUsage, Deleting, Resting
  <1>5. AppendsApart' /\ Known' /\ Indexed'
    BY <1>1, <1>t DEF AppendsApart, Known, Indexed
  <1>6. Placed' /\ Standing'
    BY <1>1, <1>2, <1>t DEF Placed, Standing, StoresTypes
  <1>7. /\ SessLog' = [SessLog EXCEPT ![s] = {}] /\ Live' = Live \ {s}
        /\ SessRecords' = {r \in SessRecords : r.session # s}
    BY <1>1, <1>2, <1>t DEF SessLog, SessRecords, Promised, Live, StoresTypes
  <1> QED
    BY <1>1, <1>3, <1>4, <1>5, <1>6, <1>7, IsDelete DEF StoresInv, Faithful

\* An execution or an embedding is of a message that was appended.
LEMMA AddRecordOk ==
  ASSUME StoresInv, NEW r \in Records, AddRecord(r)
  PROVE  Faithful
PROOF
  <1>t. StoresTypes /\ AppendsApart /\ Placed /\ Known /\ Standing /\ Indexed /\ \A d \in Clients : ClientOk(d)
    BY DEF StoresInv
  <1>1. /\ backend \in {"memory", "sql"} /\ r.of \in acked /\ home[r.of] = r.session /\ (backend = "sql" => r.of \in Ids(r.session))
        /\ records' = records \cup {r}
        /\ UNCHANGED <<backend, created, session, home, stored, index, client, acked, deleted, tangled>>
    BY DEF AddRecord
  <1>2. \A t : Ids(t)' = Ids(t) /\ InHand(t)' = InHand(t) /\ Lost(t)' = Lost(t) /\ KeptOf(t)' = KeptOf(t)
    BY <1>1 DEF Ids, InHand, Lost, At, KeptOf
  <1>3. StoresTypes' /\ AppendsApart' /\ Known' /\ Standing'
    BY <1>1, <1>t DEF StoresTypes, AppendsApart, Known, Standing
  <1>4. \A d \in Clients : ClientOk(d)'
    BY <1>1, <1>2, <1>t DEF ClientOk, Appending, UpdatingUsage, Deleting, Resting, Unknown
  <1>5. Placed' /\ Indexed'
    BY <1>1, <1>2, <1>t DEF Placed, Indexed
  <1>6. UNCHANGED <<SessLog, Live>>
    BY <1>1, <1>2, SameLog DEF Shown, Live
  <1>7. r.session \in Sessions /\ r.session \in created
    BY <1>1, <1>t DEF Records, Known
  <1>8. CASE Promised(r.session)
    <2>1. r.session \in Live
      BY <1>1, <1>7, <1>8, <1>t DEF Live, Placed, Promised
    <2>2. r.session \notin deleted
      BY <1>7, <2>1, <1>t DEF Live, Standing
    <2>3. r.of \in Ids(r.session)
      BY <1>1, <1>t, <2>2 DEF Indexed
    <2>4. r.of \in SessLog[r.session]
      BY <1>1, <1>7, <1>8, <2>3 DEF SessLog
    <2>5. SessRecords' = SessRecords \cup {r}
      BY <1>1, <1>8 DEF SessRecords, Promised
    <2> QED
      BY <1>1, <1>3, <1>4, <1>5, <1>6, <2>1, <2>4, <2>5, IsRecord DEF StoresInv, Faithful
  <1>9. CASE ~Promised(r.session)
    <2>1. UNCHANGED SessRecords
      BY <1>1, <1>9 DEF SessRecords, Promised
    <2> QED
      BY <1>1, <1>3, <1>4, <1>5, <1>6, <2>1, IsStutter DEF StoresInv, Faithful
  <1> QED
    BY <1>8, <1>9

\* The session goes first; from now on nothing is promised of it.
LEMMA DeleteSessionOk ==
  ASSUME StoresInv, NEW c \in Clients, NEW s \in Sessions, DeleteSession(c, s)
  PROVE  Faithful
PROOF
  <1> USE StoresAssumption
  <1> DEFINE n == [Idle EXCEPT !.op = "delete", !.at = "messages", !.s = s]
  <1>t. StoresTypes /\ AppendsApart /\ Placed /\ Known /\ Standing /\ Indexed /\ \A d \in Clients : ClientOk(d)
    BY DEF StoresInv
  <1>1. /\ backend # "sql" /\ At(c, "idle", "idle") /\ s \in created
        /\ session' = [session EXCEPT ![s] = "absent"] /\ deleted' = deleted \cup {s} /\ Become(c, n)
        /\ UNCHANGED <<backend, created, home, stored, index, records, acked, tangled>>
    BY DEF DeleteSession
  <1>2. n \in Ops /\ n.op = "delete" /\ n.at = "messages" /\ n.s = s
    BY DEF Idle, Ops
  <1> HIDE DEF n
  <1>3. client' \in [Clients -> Ops] /\ (\A d \in Clients \ {c} : client'[d] = client[d]) /\ client'[c] = n
    BY <1>t, <1>1, <1>2, Becomes DEF StoresTypes
  <1>4. \A t \in Sessions : Ids(t)' = Ids(t) /\ InHand(t)' = InHand(t) /\ Lost(t)' = Lost(t) /\ KeptOf(t)' = KeptOf(t)
    <2>1. ~At(c, "usage", "put") /\ ~At(c, "usage", "put")'
      BY <1>1, <1>2, <1>3 DEF At
    <2>2. \A t \in Sessions : Ids(t)' = Ids(t) /\ InHand(t)' = InHand(t) /\ Lost(t)' = Lost(t)
      BY <1>1, <1>3, <2>1, HandsStay DEF Lost, Ids
    <2> QED
      BY <2>2 DEF KeptOf
  <1>5. \A d \in Clients \ {c} : ClientOk(d)'
    <2>1. \A m : Unknown(m)' = Unknown(m)
      BY <1>1, <1>4 DEF Unknown
    <2> QED
      BY <1>1, <1>3, <1>4, <1>t, <2>1 DEF ClientOk, Appending, UpdatingUsage, Deleting, Resting
  <1>6. ClientOk(c)' /\ AppendsApart'
    <2>1. ClientOk(c)'
      BY <1>1, <1>2, <1>3 DEF ClientOk, Appending, UpdatingUsage, Deleting, Resting
    <2>2. AppendsApart'
      BY <1>2, <1>3, <1>t, ApartStay
    <2> QED
      BY <2>1, <2>2
  <1>7. StoresTypes' /\ Known' /\ Standing'
    BY <1>1, <1>3, <1>t DEF StoresTypes, Known, Standing
  <1>8. Placed' /\ Indexed'
    <2>1. \A x \in index \cup acked : home[x] \in Sessions
      BY <1>t DEF Known, StoresTypes
    <2> QED
      BY <1>1, <1>4, <1>t, <2>1 DEF Placed, Indexed
  <1>9. Live' = Live \ {s}
    BY <1>1, <1>t DEF Live, StoresTypes
  <1>10. SessLog' = [SessLog EXCEPT ![s] = {}]
    <2>1. LogIs /\ LogIs'
      BY SessLogIs, PTL
    <2>2. \A t \in Sessions : SessLog'[t] = IF t = s THEN {} ELSE SessLog[t]
      BY <1>1, <1>4, <1>9, <2>1 DEF LogIs, Shown
    <2>3. SessLog = [t \in Sessions |-> SessLog[t]] /\ SessLog' = [t \in Sessions |-> SessLog'[t]]
      BY <2>1 DEF LogIs
    <2> HIDE DEF SessLog
    <2> QED
      BY <2>2, <2>3
  <1>11. SessRecords' = {r \in SessRecords : r.session # s}
    BY <1>1, <1>t DEF SessRecords, Promised, StoresTypes, Records
  <1>12. Spec1!Next
    BY <1>1, <1>9, <1>10, <1>11, IsDelete
  <1> QED
    BY <1>5, <1>6, <1>7, <1>8, <1>12 DEF StoresInv, Faithful

\* The messages of a session that is being deleted go.
LEMMA DeleteMessagesOk ==
  ASSUME StoresInv, NEW c \in Clients, DeleteMessages(c)
  PROVE  Faithful
PROOF
  <1> USE StoresAssumption
  <1>t. StoresTypes /\ AppendsApart /\ Placed /\ Known /\ Standing /\ Indexed /\ \A d \in Clients : ClientOk(d)
    BY DEF StoresInv
  <1>1. /\ At(c, "delete", "messages") /\ stored' = [stored EXCEPT ![client[c].s] = <<>>]
        /\ index' = IF backend = "memory" THEN index \ Ids(client[c].s) ELSE index
        /\ UNCHANGED <<backend, created, session, home, records, acked, deleted, tangled>>
    BY DEF DeleteMessages
  <1>2. PICK s \in Sessions : client[c].s = s /\ s \in deleted /\ s \in created /\ backend # "sql"
    BY <1>1, <1>t DEF ClientOk, Deleting, At, Standing, StoresTypes
  <1>3. /\ client' \in [Clients -> Ops] /\ \A d \in Clients \ {c} : client'[d] = client[d]
        /\ ClientOk(c)' /\ AppendsApart' /\ ~At(c, "usage", "put")'
    <2>1. CASE Return(c)
      BY <2>1, Returns
    <2>2. CASE backend = "memory" /\ GoTo(c, "records")
      <3>1. /\ client' \in [Clients -> Ops] /\ \A d \in Clients \ {c} : client'[d] = client[d]
            /\ client'[c].op = "delete" /\ client'[c].at = "records" /\ client'[c].s = s
        BY <1>1, <1>2, <1>t, <2>2, GoesOn DEF StoresTypes, At
      <3>2. ClientOk(c)' /\ ~At(c, "usage", "put")'
        BY <1>1, <1>2, <3>1 DEF ClientOk, Appending, UpdatingUsage, Deleting, Resting, At
      <3>3. AppendsApart'
        BY <1>t, <3>1, ApartStay
      <3> QED
        BY <3>1, <3>2, <3>3
    <2> QED
      BY <2>1, <2>2 DEF DeleteMessages
  <1>4. \A t \in Sessions : Ids(t)' = IF t = s THEN {} ELSE Ids(t)
    <2>1. stored'[s] = <<>> /\ \A t \in Sessions \ {s} : stored'[t] = stored[t]
      BY <1>1, <1>2, <1>t DEF StoresTypes
    <2>2. DOMAIN stored'[s] = {}
      BY <2>1
    <2> QED
      BY <2>1, <2>2 DEF Ids
  <1>5. \A t \in Sessions : InHand(t)' = InHand(t) /\ Lost(t)' = Lost(t)
    <2>1. ~At(c, "usage", "put")
      BY <1>1 DEF At
    <2> QED
      BY <1>1, <1>3, <2>1, HandsStay DEF Lost
  <1>6. \A t \in Sessions : t # s => KeptOf(t)' = KeptOf(t)
    BY <1>4, <1>5 DEF KeptOf
  <1>7. \A d \in Clients \ {c} : ClientOk(d)'
    <2>1. \A m : Unknown(m) => Unknown(m)'
      BY <1>1, <1>2, <1>4 DEF Unknown
    <2> QED
      BY <1>1, <1>2, <1>3, <1>4, <1>6, <1>t, <2>1 DEF ClientOk, Appending, UpdatingUsage, Deleting, Resting
  <1>8. StoresTypes' /\ Known' /\ Standing'
    BY <1>1, <1>2, <1>3, <1>t DEF StoresTypes, Known, Standing
  <1>9. Placed'
    BY <1>1, <1>4, <1>t DEF Placed
  <1>10. Indexed'
    <2>1. \A x \in index \cup acked : home[x] \in Sessions
      BY <1>t DEF Known, StoresTypes
    <2> QED
      BY <1>1, <1>2, <1>4, <1>6, <1>t, <2>1 DEF Indexed
  <1>11. UNCHANGED <<Live, SessRecords>>
    BY <1>1, SameRecords
  <1>12. UNCHANGED SessLog
    <2>1. s \notin Live
      BY <1>2, <1>t DEF Live, Standing
    <2> QED
      BY <1>1, <1>2, <1>4, <1>6, <1>11, <2>1, SameLog DEF Shown
  <1> QED
    BY <1>1, <1>3, <1>7, <1>8, <1>9, <1>10, <1>11, <1>12, IsStutter DEF StoresInv, Faithful

\* Only embeddings of the session go, its executions stay.
LEMMA DeleteRecordsOk ==
  ASSUME StoresInv, NEW c \in Clients, DeleteRecords(c)
  PROVE  Faithful
PROOF
  <1>t. StoresTypes /\ AppendsApart /\ Placed /\ Known /\ Standing /\ Indexed /\ \A d \in Clients : ClientOk(d)
    BY DEF StoresInv
  <1>1. /\ At(c, "delete", "records") /\ Return(c)
        /\ records' = {r \in records : ~(r.kind = "embedding" /\ r.session = client[c].s)}
        /\ UNCHANGED <<backend, created, session, home, stored, index, acked, deleted, tangled>>
    BY DEF DeleteRecords
  <1>2. PICK s \in Sessions : client[c].s = s /\ s \in deleted /\ s \in created /\ backend # "sql"
    BY <1>1, <1>t DEF ClientOk, Deleting, At, Standing, StoresTypes
  <1>3. /\ client' \in [Clients -> Ops] /\ \A d \in Clients \ {c} : client'[d] = client[d]
        /\ ClientOk(c)' /\ AppendsApart' /\ ~At(c, "usage", "put")'
    BY <1>1, Returns
  <1>4. \A t \in Sessions : Ids(t)' = Ids(t) /\ InHand(t)' = InHand(t) /\ Lost(t)' = Lost(t) /\ KeptOf(t)' = KeptOf(t)
    <2>1. ~At(c, "usage", "put")
      BY <1>1 DEF At
    <2>2. \A t \in Sessions : Ids(t)' = Ids(t) /\ InHand(t)' = InHand(t) /\ Lost(t)' = Lost(t)
      BY <1>1, <1>3, <2>1, HandsStay DEF Lost, Ids
    <2> QED
      BY <2>2 DEF KeptOf
  <1>5. \A d \in Clients \ {c} : ClientOk(d)'
    <2>1. \A m : Unknown(m)' = Unknown(m)
      BY <1>1, <1>4 DEF Unknown
    <2> QED
      BY <1>1, <1>3, <1>4, <1>t, <2>1 DEF ClientOk, Appending, UpdatingUsage, Deleting, Resting
  <1>6. StoresTypes' /\ Known' /\ Standing'
    BY <1>1, <1>3, <1>t DEF StoresTypes, Known, Standing
  <1>7. Placed' /\ Indexed'
    <2>1. \A x \in index \cup acked : home[x] \in Sessions
      BY <1>t DEF Known, StoresTypes
    <2> QED
      BY <1>1, <1>4, <1>t, <2>1 DEF Placed, Indexed
  <1>8. UNCHANGED <<SessLog, Live>>
    BY <1>1, <1>4, SameLog DEF Shown, Live
  <1>9. UNCHANGED SessRecords
    <2>1. session[s] # "whole"
      BY <1>2, <1>t DEF Standing
    <2> QED
      BY <1>1, <1>2, <2>1 DEF SessRecords, Promised
  <1> QED
    BY <1>1, <1>3, <1>5, <1>6, <1>7, <1>8, <1>9, IsStutter DEF StoresInv, Faithful

\* A usage set in place is none of the abstract store's business.
LEMMA UsageOk ==
  ASSUME StoresInv, NEW c \in Clients, NEW s \in Sessions, NEW m \in Messages, NEW u \in Usages \cup {0},
         stored' = [stored EXCEPT ![s] = WithUsage(s, m, u)],
         UNCHANGED client \/ (Return(c) /\ ~At(c, "usage", "put")),
         UNCHANGED <<backend, created, session, home, index, records, acked, deleted, tangled>>
  PROVE  Faithful
PROOF
  <1>t. StoresTypes /\ AppendsApart /\ Placed /\ Known /\ Standing /\ Indexed /\ \A d \in Clients : ClientOk(d)
    BY DEF StoresInv
  <1>1. stored' \in [Sessions -> Seq(Entries)] /\ \A t \in Sessions : Ids(t)' = Ids(t)
    BY <1>t, UsageSet DEF StoresTypes
  <1>2. /\ client' \in [Clients -> Ops] /\ AppendsApart' /\ \A d \in Clients \ {c} : client'[d] = client[d]
        /\ UNCHANGED client \/ ClientOk(c)'
    <2>1. CASE UNCHANGED client
      BY <1>t, <2>1 DEF StoresTypes, AppendsApart
    <2>2. CASE Return(c)
      BY <2>2, Returns
    <2> QED
      BY <2>1, <2>2
  <1>3. \A t \in Sessions : InHand(t)' = InHand(t) /\ Lost(t)' = Lost(t) /\ KeptOf(t)' = KeptOf(t)
    <2>1. \A t : InHand(t)' = InHand(t)
      <3>1. CASE UNCHANGED client
        BY <3>1 DEF InHand, At
      <3>2. CASE Return(c) /\ ~At(c, "usage", "put")
        BY <3>2, Returns, HandsStay
      <3> QED
        BY <3>1, <3>2
    <2> QED
      BY <1>1, <2>1 DEF Lost, KeptOf
  <1>4. \A d \in Clients : ClientOk(d)'
    <2>1. \A x : Unknown(x)' = Unknown(x)
      BY <1>1 DEF Unknown
    <2>2. ASSUME NEW d \in Clients, client'[d] = client[d]
          PROVE  ClientOk(d)'
      BY <1>1, <1>3, <1>t, <2>1, <2>2 DEF ClientOk, Appending, UpdatingUsage, Deleting, Resting
    <2> QED
      BY <1>2, <2>2
  <1>5. StoresTypes' /\ Known' /\ Standing'
    BY <1>1, <1>2, <1>t DEF StoresTypes, Known, Standing
  <1>6. Placed' /\ Indexed'
    <2>1. \A x \in index \cup acked : home[x] \in Sessions
      BY <1>t DEF Known, StoresTypes
    <2> QED
      BY <1>1, <1>3, <1>t, <2>1 DEF Placed, Indexed
  <1>7. UNCHANGED <<SessLog, Live, SessRecords>>
    BY <1>1, <1>3, SameRecords, SameLog DEF Shown
  <1> QED
    BY <1>2, <1>4, <1>5, <1>6, <1>7, IsStutter DEF StoresInv, Faithful

\* UPDATE, update_one and the write under the lock of the map.
LEMMA UpdateUsageOk ==
  ASSUME StoresInv
  PROVE  /\ \A c \in Clients, m \in Messages, u \in Usages : UpdateUsageAtOnce(c, m, u) => Faithful
         /\ \A c \in Clients : WriteUsage(c) => Faithful
PROOF
  <1>t. StoresTypes /\ \A d \in Clients : ClientOk(d)
    BY DEF StoresInv
  <1>1. ASSUME NEW c \in Clients, NEW m \in Messages, NEW u \in Usages, UpdateUsageAtOnce(c, m, u)
        PROVE  Faithful
    <2>0. PICK s \in Sessions : s = home[m]
      BY <1>1, <1>t DEF UpdateUsageAtOnce, StoresTypes
    <2>1. /\ stored' = [stored EXCEPT ![s] = WithUsage(s, m, u)]
          /\ UNCHANGED client /\ u \in Usages \cup {0}
          /\ UNCHANGED <<backend, created, session, home, index, records, acked, deleted, tangled>>
      BY <1>1, <2>0 DEF UpdateUsageAtOnce
    <2>2. UNCHANGED client \/ (Return(c) /\ ~At(c, "usage", "put"))
      BY <2>1
    <2> QED
      BY <2>1, <2>2, UsageOk
  <1>2. ASSUME NEW c \in Clients, WriteUsage(c)
        PROVE  Faithful
    <2>1. client[c].s \in Sessions /\ client[c].m \in Messages /\ client[c].u \in Usages \cup {0}
      BY <1>2, <1>t DEF WriteUsage, At, ClientOk, UpdatingUsage, StoresTypes, Ops
    <2>2. /\ stored' = [stored EXCEPT ![client[c].s] = WithUsage(client[c].s, client[c].m, client[c].u)]
          /\ Return(c) /\ ~At(c, "usage", "put")
          /\ UNCHANGED <<backend, created, session, home, index, records, acked, deleted, tangled>>
      BY <1>2 DEF WriteUsage, At
    <2> QED
      BY <2>1, <2>2, UsageOk
  <1> QED
    BY <1>1, <1>2

\* ZREM: the message goes from the list into the hand of the update.
LEMMA RemoveEntryOk ==
  ASSUME StoresInv, NEW c \in Clients, RemoveEntry(c)
  PROVE  Faithful
PROOF
  <1> USE StoresAssumption
  <1>t. StoresTypes /\ AppendsApart /\ Placed /\ Known /\ Standing /\ Indexed /\ \A d \in Clients : ClientOk(d)
    BY DEF StoresInv
  <1>1. /\ At(c, "usage", "remove") /\ GoTo(c, "put")
        /\ tangled' = IF Updating(client[c].m) # {c} THEN tangled \cup {client[c].m} ELSE tangled
        /\ UNCHANGED <<backend, created, session, home, index, records, acked, deleted>>
    BY DEF RemoveEntry
  <1>2. PICK m \in Messages, s \in Sessions :
            /\ client[c].m = m /\ client[c].s = s /\ home[m] = s /\ client[c].seen.id = m
            /\ s \in created /\ backend = "redis" /\ m \in index
    BY <1>1, <1>t DEF ClientOk, UpdatingUsage, At, StoresTypes
  <1>3. /\ client' \in [Clients -> Ops] /\ \A d \in Clients \ {c} : client'[d] = client[d]
        /\ client'[c].op = "usage" /\ client'[c].at = "put" /\ client'[c].m = m /\ client'[c].s = s
    BY <1>1, <1>2, <1>t, GoesOn DEF StoresTypes, At
  <1>4. /\ stored' \in [Sessions -> Seq(Entries)]
        /\ \A t \in Sessions : /\ Ids(t)' \subseteq Ids(t) /\ Ids(t) \subseteq Ids(t)' \cup {m}
                               /\ t # s => Ids(t)' = Ids(t)
    <2>0. stored \in [Sessions -> Seq(Entries)]
      BY <1>t DEF StoresTypes
    <2>1. ASSUME NEW i \in DOMAIN stored[s], stored[s][i] = client[c].seen,
                 stored' = [stored EXCEPT ![s] = RemoveAt(@, i)]
          PROVE  /\ stored' \in [Sessions -> Seq(Entries)]
                 /\ \A t \in Sessions : /\ Ids(t)' \subseteq Ids(t) /\ Ids(t) \subseteq Ids(t)' \cup {m}
                                        /\ t # s => Ids(t)' = Ids(t)
      <3>1. stored[s][i].id = m
        BY <1>2, <2>1
      <3> QED
        BY <2>0, <2>1, <3>1, EntryRemoved
    <2>2. CASE UNCHANGED stored
      BY <2>0, <2>2 DEF Ids
    <2> QED
      BY <1>2, <2>1, <2>2 DEF RemoveEntry
  <1>5. /\ m \in InHand(s)'
        /\ \A t \in Sessions : /\ InHand(t) \subseteq InHand(t)'
                               /\ InHand(t)' \subseteq InHand(t) \cup {m}
                               /\ t # s => InHand(t)' = InHand(t)
    <2>1. \A t \in Sessions, d \in Clients \ {c} :
              At(d, "usage", "put")' /\ client'[d].s = t <=> At(d, "usage", "put") /\ client[d].s = t
      BY <1>3 DEF At
    <2>2. At(c, "usage", "put")' /\ client'[c].s = s /\ client'[c].m = m /\ ~At(c, "usage", "put")
      BY <1>1, <1>3 DEF At
    <2> QED
      BY <1>3, <2>1, <2>2 DEF InHand
  <1>6. /\ tangled \subseteq tangled' /\ tangled' \subseteq tangled \cup {m}
        /\ \A t \in Sessions : /\ Lost(t) \subseteq Lost(t)' /\ Lost(t)' \subseteq Lost(t) \cup {m}
                               /\ t # s => Lost(t)' = Lost(t)
    BY <1>1, <1>2 DEF Lost
  <1>7. /\ \A t \in Sessions : /\ KeptOf(t) \subseteq KeptOf(t)' /\ KeptOf(t)' \subseteq KeptOf(t) \cup {m}
                               /\ t # s => KeptOf(t)' = KeptOf(t)
    <2>1. ASSUME NEW t \in Sessions, t # s PROVE KeptOf(t)' = KeptOf(t)
      <3>1. Ids(t)' = Ids(t)
        BY <1>4, <2>1
      <3>2. InHand(t)' = InHand(t)
        BY <1>5, <2>1
      <3>3. Lost(t)' = Lost(t)
        BY <1>6, <2>1
      <3> QED
        BY <3>1, <3>2, <3>3 DEF KeptOf
    <2>2. KeptOf(s) \subseteq KeptOf(s)' /\ KeptOf(s)' \subseteq KeptOf(s) \cup {m}
      <3>1. /\ Ids(s)' \subseteq Ids(s) /\ Ids(s) \subseteq Ids(s)' \cup {m}
            /\ InHand(s) \subseteq InHand(s)' /\ InHand(s)' \subseteq InHand(s) \cup {m} /\ m \in InHand(s)'
            /\ Lost(s) \subseteq Lost(s)' /\ Lost(s)' \subseteq Lost(s) \cup {m}
        <4>1. Ids(s)' \subseteq Ids(s) /\ Ids(s) \subseteq Ids(s)' \cup {m}
          BY <1>4
        <4>2. InHand(s) \subseteq InHand(s)' /\ InHand(s)' \subseteq InHand(s) \cup {m} /\ m \in InHand(s)'
          BY <1>5
        <4>3. Lost(s) \subseteq Lost(s)' /\ Lost(s)' \subseteq Lost(s) \cup {m}
          BY <1>6
        <4> QED
          BY <4>1, <4>2, <4>3
      <3> QED
        BY <3>1 DEF KeptOf
    <2> QED
      BY <2>1, <2>2
  <1>8. s \notin deleted => m \in KeptOf(s)
    BY <1>2, <1>t DEF Indexed
  <1>9. \A d \in Clients \ {c} : ClientOk(d)'
    <2>1. /\ backend' = backend /\ created \subseteq created' /\ deleted \subseteq deleted'
          /\ \A x \in Messages : home[x] # None => home'[x] = home[x]
          /\ index' \subseteq index \cup {m} /\ tangled' \subseteq tangled \cup {m} /\ acked' \subseteq acked \cup {m}
          /\ index \subseteq index'
          /\ \A t \in Sessions : Ids(t)' \subseteq Ids(t) \cup {m} /\ KeptOf(t) \subseteq KeptOf(t)'
          /\ backend # "memory"
      BY <1>1, <1>2, <1>4, <1>6, <1>7
    <2>2. \A d \in Clients \ {c} : client[d].op = "append" /\ Unknown(client[d].m) => client[d].m # m
      BY <1>2 DEF Unknown
    <2> QED
      BY <1>3, <2>1, <2>2, OthersStay
  <1>10. ClientOk(c)'
    BY <1>1, <1>2, <1>3 DEF ClientOk, Appending, UpdatingUsage, Deleting, Resting
  <1>11. AppendsApart'
    BY <1>3, <1>t, ApartStay
  <1>12. StoresTypes' /\ Known' /\ Standing'
    BY <1>1, <1>2, <1>3, <1>4, <1>6, <1>t DEF StoresTypes, Known, Standing
  <1>13. Placed'
    BY <1>1, <1>2, <1>4, <1>t DEF Placed
  <1>14. Indexed'
    <2>1. \A x \in index \cup acked : home[x] \in Sessions
      BY <1>t DEF Known, StoresTypes
    <2> QED
      BY <1>1, <1>2, <1>7, <1>t, <2>1 DEF Indexed
  <1>15. UNCHANGED <<Live, SessRecords>>
    BY <1>1, SameRecords
  <1>16. UNCHANGED SessLog
    <2>1. ASSUME NEW t \in Sessions, t \in Live PROVE KeptOf(t)' = KeptOf(t)
      <3>1. t \notin deleted
        BY <1>t, <2>1 DEF Live, Standing
      <3> QED
        BY <1>7, <1>8, <3>1
    <2> QED
      BY <1>1, <1>2, <1>15, <2>1, SameLog DEF Shown
  <1> QED
    BY <1>1, <1>9, <1>10, <1>11, <1>12, <1>13, <1>14, <1>15, <1>16, IsStutter DEF StoresInv, Faithful

\* ZADD: the message is listed again.
LEMMA PutEntryOk ==
  ASSUME StoresInv, NEW c \in Clients, PutEntry(c)
  PROVE  Faithful
PROOF
  <1> USE StoresAssumption
  <1>t. StoresTypes /\ AppendsApart /\ Placed /\ Known /\ Standing /\ Indexed /\ \A d \in Clients : ClientOk(d)
    BY DEF StoresInv
  <1>1. /\ At(c, "usage", "put") /\ Return(c)
        /\ UNCHANGED <<backend, created, session, home, index, records, acked, deleted, tangled>>
    BY DEF PutEntry
  <1>2. PICK m \in Messages, s \in Sessions :
            /\ client[c].m = m /\ client[c].s = s /\ home[m] = s
            /\ s \in created /\ backend = "redis" /\ m \in index
    BY <1>1, <1>t DEF ClientOk, UpdatingUsage, At, StoresTypes
  <1>3. /\ client' \in [Clients -> Ops] /\ \A d \in Clients \ {c} : client'[d] = client[d]
        /\ ClientOk(c)' /\ AppendsApart' /\ ~At(c, "usage", "put")'
    BY <1>1, Returns
  <1>4. /\ stored' \in [Sessions -> Seq(Entries)]
        /\ \A t \in Sessions : Ids(t)' = IF t = s THEN Ids(t) \cup {m} ELSE Ids(t)
    <2> DEFINE e == [id |-> m, usage |-> client[c].u]
    <2>1. e \in Entries /\ e.id = m /\ stored \in [Sessions -> Seq(Entries)]
      BY <1>t DEF StoresTypes, Ops, Entries
    <2>2. stored' = [stored EXCEPT ![s] = IF Contains(stored[s], e) THEN stored[s] ELSE Append(stored[s], e)]
      BY <1>2 DEF PutEntry
    <2> HIDE DEF e
    <2>3. CASE Contains(stored[s], e)
      <3>1. stored' = stored
        BY <2>1, <2>2, <2>3
      <3>2. stored[s] \in Seq(Entries)
        BY <2>1
      <3>3. m \in Ids(s)
        BY <2>1, <2>3, <3>2 DEF Contains, Ids
      <3> QED
        BY <2>1, <3>1, <3>3 DEF Ids
    <2>4. CASE ~Contains(stored[s], e)
      <3>1. stored' = [stored EXCEPT ![s] = Append(@, e)]
        BY <2>2, <2>4
      <3> QED
        BY <2>1, <3>1, EntryAdded
    <2> QED
      BY <2>3, <2>4
  <1>5. /\ \A t \in Sessions : /\ InHand(t)' \subseteq InHand(t) /\ InHand(t) \subseteq InHand(t)' \cup {m}
                               /\ t # s => InHand(t)' = InHand(t)
    <2>1. \A t \in Sessions, d \in Clients \ {c} :
              At(d, "usage", "put")' /\ client'[d].s = t <=> At(d, "usage", "put") /\ client[d].s = t
      BY <1>3 DEF At
    <2> QED
      BY <1>2, <1>3, <2>1 DEF InHand
  <1>6. m \in InHand(s) /\ \A t \in Sessions : Lost(t)' = Lost(t)
    BY <1>1, <1>2 DEF Lost, InHand
  <1>7. \A t \in Sessions : KeptOf(t)' = KeptOf(t)
    BY <1>4, <1>5, <1>6 DEF KeptOf
  <1>9. \A d \in Clients \ {c} : ClientOk(d)'
    <2>1. /\ backend' = backend /\ created \subseteq created' /\ deleted \subseteq deleted'
          /\ \A x \in Messages : home[x] # None => home'[x] = home[x]
          /\ index' \subseteq index \cup {m} /\ tangled' \subseteq tangled \cup {m} /\ acked' \subseteq acked \cup {m}
          /\ index \subseteq index'
          /\ \A t \in Sessions : Ids(t)' \subseteq Ids(t) \cup {m} /\ KeptOf(t) \subseteq KeptOf(t)'
          /\ backend # "memory"
      BY <1>1, <1>2, <1>4, <1>7
    <2>2. \A d \in Clients \ {c} : client[d].op = "append" /\ Unknown(client[d].m) => client[d].m # m
      BY <1>2 DEF Unknown
    <2> QED
      BY <1>3, <2>1, <2>2, OthersStay
  <1>10. StoresTypes' /\ Known' /\ Standing'
    BY <1>1, <1>3, <1>4, <1>t DEF StoresTypes, Known, Standing
  <1>11. Placed'
    BY <1>1, <1>2, <1>4, <1>t DEF Placed
  <1>12. Indexed'
    <2>1. \A x \in index \cup acked : home[x] \in Sessions
      BY <1>t DEF Known, StoresTypes
    <2> QED
      BY <1>1, <1>2, <1>7, <1>t, <2>1 DEF Indexed
  <1>13. UNCHANGED <<SessLog, Live, SessRecords>>
    BY <1>1, <1>2, <1>7, SameRecords, SameLog DEF Shown
  <1> QED
    BY <1>1, <1>3, <1>9, <1>10, <1>11, <1>12, <1>13, IsStutter DEF StoresInv, Faithful

\* Cut off between ZREM and ZADD, a message is lost; elsewhere nothing is.
LEMMA CallFailsOk ==
  ASSUME StoresInv, NEW c \in Clients, CallFails(c)
  PROVE  Faithful
PROOF
  <1> USE StoresAssumption
  <1>t. StoresTypes /\ AppendsApart /\ Placed /\ Known /\ Standing /\ Indexed /\ \A d \in Clients : ClientOk(d)
    BY DEF StoresInv
  <1>1. /\ Return(c)
        /\ tangled' = IF At(c, "usage", "put") THEN tangled \cup {client[c].m} ELSE tangled
        /\ UNCHANGED <<backend, created, session, home, stored, index, records, acked, deleted>>
    BY DEF CallFails
  <1>2. /\ client' \in [Clients -> Ops] /\ \A d \in Clients \ {c} : client'[d] = client[d]
        /\ ClientOk(c)' /\ AppendsApart' /\ ~At(c, "usage", "put")'
    BY <1>1, Returns
  <1>3. CASE ~At(c, "usage", "put")
    <2>1. tangled' = tangled /\ client'[c] = Idle
      BY <1>1, <1>3, Returns
    <2> QED
      BY <1>1, <1>2, <1>3, <2>1, IdleFields, Quiet
  <1>4. CASE At(c, "usage", "put")
    <2>1. PICK m \in Messages, s \in Sessions :
              /\ client[c].m = m /\ client[c].s = s /\ home[m] = s
              /\ s \in created /\ backend = "redis" /\ m \in index
      BY <1>4, <1>t DEF ClientOk, UpdatingUsage, At, StoresTypes
    <2>2. tangled' = tangled \cup {m}
      BY <1>1, <1>4, <2>1
    <2>3. /\ \A t \in Sessions : /\ InHand(t)' \subseteq InHand(t) /\ InHand(t) \subseteq InHand(t)' \cup {m}
                                 /\ t # s => InHand(t)' = InHand(t)
      <3>1. \A t \in Sessions, d \in Clients \ {c} :
                At(d, "usage", "put")' /\ client'[d].s = t <=> At(d, "usage", "put") /\ client[d].s = t
        BY <1>2 DEF At
      <3> QED
        BY <1>2, <2>1, <3>1 DEF InHand
    <2>4. /\ m \in InHand(s) /\ \A t \in Sessions : Ids(t)' = Ids(t)
          /\ \A t \in Sessions : Lost(t)' = IF t = s THEN Lost(t) \cup {m} ELSE Lost(t)
      BY <1>1, <1>4, <2>1, <2>2 DEF Lost, InHand, Ids
    <2>5. \A t \in Sessions : KeptOf(t)' = KeptOf(t)
      BY <2>3, <2>4 DEF KeptOf
    <2>6. \A d \in Clients \ {c} : ClientOk(d)'
      <3>1. /\ backend' = backend /\ created \subseteq created' /\ deleted \subseteq deleted'
            /\ \A x \in Messages : home[x] # None => home'[x] = home[x]
            /\ index' \subseteq index \cup {m} /\ tangled' \subseteq tangled \cup {m} /\ acked' \subseteq acked \cup {m}
            /\ index \subseteq index'
            /\ \A t \in Sessions : Ids(t)' \subseteq Ids(t) \cup {m} /\ KeptOf(t) \subseteq KeptOf(t)'
            /\ backend # "memory"
        BY <1>1, <2>1, <2>2, <2>4, <2>5
      <3>2. \A d \in Clients \ {c} : client[d].op = "append" /\ Unknown(client[d].m) => client[d].m # m
        BY <2>1 DEF Unknown
      <3> QED
        BY <1>2, <3>1, <3>2, OthersStay
    <2>7. StoresTypes' /\ Known' /\ Standing'
      BY <1>1, <1>2, <1>t, <2>1, <2>2 DEF StoresTypes, Known, Standing
    <2>8. Placed'
      BY <1>1, <1>t, <2>4 DEF Placed
    <2>9. Indexed'
      <3>1. \A x \in index \cup acked : home[x] \in Sessions
        BY <1>t DEF Known, StoresTypes
      <3> QED
        BY <1>1, <1>t, <2>1, <2>5, <3>1 DEF Indexed
    <2>10. UNCHANGED <<SessLog, Live, SessRecords>>
      BY <1>1, <2>1, <2>5, SameRecords, SameLog DEF Shown
    <2> QED
      BY <1>1, <1>2, <2>6, <2>7, <2>8, <2>9, <2>10, IsStutter DEF StoresInv, Faithful
  <1> QED
    BY <1>3, <1>4

\* The stores are empty at first.
LEMMA StoresFirst == StoresInit => StoresInv /\ Spec1!Init
PROOF
  <1> SUFFICES ASSUME StoresInit PROVE StoresInv /\ Spec1!Init
    OBVIOUS
  <1>1. \A s \in Sessions : Ids(s) = {}
    <2>1. \A s \in Sessions : stored[s] = <<>>
      BY DEF StoresInit
    <2>2. \A s \in Sessions : DOMAIN stored[s] = {}
      BY <2>1
    <2> QED
      BY <2>2 DEF Ids
  <1>2. \A c \in Clients : client[c] = Idle
    BY DEF StoresInit
  <1>3. StoresTypes
    BY IdleFields DEF StoresInit, StoresTypes
  <1>4. \A c \in Clients : ClientOk(c)
    BY <1>2, IdleFields DEF ClientOk, Appending, UpdatingUsage, Deleting, Resting
  <1>5. AppendsApart
    BY <1>2, IdleFields DEF AppendsApart
  <1>6. Placed /\ Known /\ Standing /\ Indexed
    BY <1>1 DEF StoresInit, Placed, Known, Standing, Indexed
  <1>7. \A s \in Sessions : InHand(s) = {} /\ Lost(s) = {}
    BY <1>2, IdleFields DEF InHand, Lost, At, StoresInit
  <1>8. SessLog = [s \in Sessions |-> {}] /\ Live = {}
    BY <1>1, <1>7 DEF SessLog, Live, StoresInit
  <1>9. created = {} /\ SessRecords = {}
    BY DEF StoresInit, SessRecords
  <1>10. Spec1!Init
    BY <1>8, <1>9, Zenon DEF Spec1!Init, SessLog, Live, SessRecords
  <1> QED
    BY <1>3, <1>4, <1>5, <1>6, <1>10 DEF StoresInv

\* Every step of the session stores is faithful to the abstract store.
LEMMA StoresStep == StoresInv /\ [StoresNext]_storeVars => Faithful
PROOF
  <1> SUFFICES ASSUME StoresInv, [StoresNext]_storeVars PROVE Faithful
    OBVIOUS
  <1>1. CASE StoresNext
    BY <1>1, CreateSessionOk, AddRecordOk, DeleteCascadingOk, DeleteSessionOk, BeginAppendOk,
       UpdateUsageOk,
       LookUpMessageOk, InsertMessageOk, CheckSessionOk, PushMessageOk, IndexMessageOk, TouchSessionOk,
       DeleteMessagesOk, DeleteRecordsOk, ReadEntryOk, RemoveEntryOk, PutEntryOk, CallFailsOk, Zenon DEF StoresNext
  <1>2. CASE UNCHANGED storeVars
    <2>1. \A t : Ids(t)' = Ids(t) /\ InHand(t)' = InHand(t) /\ Lost(t)' = Lost(t) /\ KeptOf(t)' = KeptOf(t)
      BY <1>2 DEF storeVars, Ids, InHand, Lost, At, KeptOf
    <2>2. StoresInv'
      BY <1>2, <2>1 DEF storeVars, StoresInv, StoresTypes, AppendsApart, Placed, Known, Standing,
         Indexed,
         ClientOk, Appending, UpdatingUsage, Deleting, Resting, Unknown
    <2>3. UNCHANGED <<created, Live, SessLog, SessRecords>>
      BY <1>2, <2>1, SameRecords, SameLog DEF storeVars, Shown
    <2> QED
      BY <2>2, <2>3, IsStutter DEF Faithful
  <1> QED
    BY <1>1, <1>2

\* The session stores, for any clients, sessions, messages and failing calls:
\* in PostgreSQL, MySQL and SQLite each operation is one step of a store whose
\* messages and records go with their session; in memory, Redis and MongoDB it
\* is one for every session whose deletion has not begun.
THEOREM StoresAreStore == StoresSpec => ImplementsSessionStore
PROOF
  <1>1. StoresInv /\ [StoresNext]_storeVars => StoresInv' /\ [Spec1!Next]_(Spec1!specVars)
    BY StoresStep DEF Faithful
  <1> QED
    BY <1>1, StoresFirst, PTL DEF StoresSpec, ImplementsSessionStore, Spec1!Spec
-----------------------------------------------------------------------------
(* What a session lists.                                                     *)

Entry(s, m) == {i \in DOMAIN stored[s] : stored[s][i].id = m}

\* Every message was made.
MadeKnown ==
    /\ made \in Seq(Messages)
    /\ \A m \in Messages : home[m] # None => \E n \in DOMAIN made : made[n] = m

Placing(m) == {c \in Clients : At(c, "usage", "put") /\ client[c].m = m}

\* A message has one entry, the one its update has read, and none while the
\* update has it in its hand.
Single(m) ==
    m \notin tangled =>
        /\ \A s \in Sessions : \A i, j \in Entry(s, m) : i = j
        /\ \A c \in Updating(m) : At(c, "usage", "remove") =>
               \A s \in Sessions : \A i \in Entry(s, m) : stored[s][i] = client[c].seen
        /\ \A c \in Placing(m) : Updating(m) = {c} /\ \A s \in Sessions : Entry(s, m) = {}

Held(m) ==
    \/ m \in acked
    \/ \E c \in Clients : client[c].op = "append" /\ client[c].at \in {"index", "touch"} /\ client[c].m = m

\* A message is kept from its insertion on.
Present(m) ==
    m \notin tangled /\ Held(m) /\ home[m] \notin deleted => m \in Ids(home[m]) \cup InHand(home[m])

\* The entries of m that there are now were there before.
Inherits(m) ==
    \A s \in Sessions : \E f :
        \A i \in Entry(s, m)' :
            /\ f[i] \in Entry(s, m) /\ stored'[s][i] = stored[s][f[i]]
            /\ \A j \in Entry(s, m)' : f[i] = f[j] => i = j

\* The updates of m that there are now were there before.
SameUpdates(m) ==
    /\ Updating(m)' \subseteq Updating(m)
    /\ \A c \in Updating(m)' : client'[c] = client[c]

\* A message whose entries and updates are left alone stays single.
LEMMA SingleStays ==
  ASSUME NEW m, Single(m), tangled \subseteq tangled', Inherits(m), SameUpdates(m)
  PROVE  Single(m)'
PROOF
  <1> SUFFICES ASSUME m \notin tangled'
               PROVE /\ \A s \in Sessions : \A i, j \in Entry(s, m)' : i = j
                     /\ \A c \in Updating(m)' : At(c, "usage", "remove")' =>
                            \A s \in Sessions : \A i \in Entry(s, m)' : stored'[s][i] = client'[c].seen
                     /\ \A c \in Placing(m)' : Updating(m)' = {c} /\ \A s \in Sessions : Entry(s, m)' = {}
    BY DEF Single
  <1>1. m \notin tangled
    OBVIOUS
  <1>2. ASSUME NEW s \in Sessions, NEW i \in Entry(s, m)', NEW j \in Entry(s, m)'
        PROVE  i = j
    <2>1. PICK f :
              \A k \in Entry(s, m)' :
                  /\ f[k] \in Entry(s, m) /\ stored'[s][k] = stored[s][f[k]]
                  /\ \A l \in Entry(s, m)' : f[k] = f[l] => k = l
      BY DEF Inherits
    <2>2. f[i] = f[j]
      BY <1>1, <2>1 DEF Single
    <2> QED
      BY <2>1, <2>2
  <1>3. ASSUME NEW c \in Updating(m)', At(c, "usage", "remove")', NEW s \in Sessions, NEW i \in Entry(s, m)'
        PROVE  stored'[s][i] = client'[c].seen
    <2>1. c \in Updating(m) /\ client'[c] = client[c] /\ At(c, "usage", "remove")
      BY <1>3 DEF SameUpdates, At
    <2>2. PICK k \in Entry(s, m) : stored'[s][i] = stored[s][k]
      BY DEF Inherits
    <2> QED
      BY <1>1, <2>1, <2>2 DEF Single
  <1>4. ASSUME NEW c \in Placing(m)'
        PROVE  Updating(m)' = {c} /\ \A s \in Sessions : Entry(s, m)' = {}
    <2>1. c \in Updating(m)'
      BY DEF Placing, Updating, At
    <2>2. c \in Updating(m) /\ client'[c] = client[c] /\ c \in Placing(m)
      BY <2>1 DEF SameUpdates, Placing, At
    <2>3. Updating(m) = {c} /\ \A s \in Sessions : Entry(s, m) = {}
      BY <1>1, <2>2 DEF Single
    <2>4. \A s \in Sessions : Entry(s, m)' = {}
      BY <2>3 DEF Inherits
    <2> QED
      BY <2>1, <2>3, <2>4 DEF SameUpdates
  <1> QED
    BY <1>2, <1>3, <1>4

\* A session whose entries are the same, or gone.
LEMMA SameEntries ==
  ASSUME NEW m, \A s \in Sessions : stored'[s] = stored[s] \/ stored'[s] = <<>>
  PROVE  Inherits(m)
PROOF
  <1> SUFFICES ASSUME NEW s \in Sessions
               PROVE  \E f : \A i \in Entry(s, m)' :
                          /\ f[i] \in Entry(s, m) /\ stored'[s][i] = stored[s][f[i]]
                          /\ \A j \in Entry(s, m)' : f[i] = f[j] => i = j
    BY DEF Inherits
  <1> DEFINE f == [i \in Entry(s, m)' |-> i]
  <1>1. CASE stored'[s] = stored[s]
    <2>1. Entry(s, m)' = Entry(s, m)
      BY <1>1 DEF Entry
    <2>2. \A i \in Entry(s, m)' : f[i] = i
      OBVIOUS
    <2> HIDE DEF f
    <2> QED
      BY <1>1, <2>1, <2>2
  <1>2. CASE stored'[s] = <<>>
    <2>1. Entry(s, m)' = {}
      BY <1>2 DEF Entry
    <2> QED
      BY <2>1
  <1> QED
    BY <1>1, <1>2

\* An entry of another message is added.
LEMMA EntryAfter ==
  ASSUME stored \in [Sessions -> Seq(Entries)], NEW t \in Sessions, NEW e \in Entries,
         stored' = [stored EXCEPT ![t] = Append(@, e)]
  PROVE  /\ \A m : m # e.id => Inherits(m)
         /\ (\A s \in Sessions : Entry(s, e.id) = {}) =>
                \A s \in Sessions : \A i, j \in Entry(s, e.id)' : i = j
PROOF
  <1>1. /\ Len(stored[t]) \in Nat /\ DOMAIN stored[t] = 1..Len(stored[t])
        /\ DOMAIN stored'[t] = 1..(Len(stored[t]) + 1)
        /\ stored'[t][Len(stored[t]) + 1] = e
        /\ \A i \in 1..Len(stored[t]) : stored'[t][i] = stored[t][i]
        /\ \A s \in Sessions \ {t} : stored'[s] = stored[s]
    <2>1. stored'[t] = Append(stored[t], e) /\ stored[t] \in Seq(Entries)
      OBVIOUS
    <2> QED
      BY <2>1
  <1>2. ASSUME NEW i \in DOMAIN stored'[t], i # Len(stored[t]) + 1
        PROVE  i \in DOMAIN stored[t] /\ stored'[t][i] = stored[t][i]
    BY <1>1, <1>2
  <1>3. ASSUME NEW m, m # e.id, NEW s \in Sessions
        PROVE  \E f : \A i \in Entry(s, m)' :
                   /\ f[i] \in Entry(s, m) /\ stored'[s][i] = stored[s][f[i]]
                   /\ \A j \in Entry(s, m)' : f[i] = f[j] => i = j
    <2> DEFINE f == [i \in Entry(s, m)' |-> i]
    <2>1. \A i \in Entry(s, m)' : i \in Entry(s, m) /\ stored'[s][i] = stored[s][i]
      BY <1>1, <1>2, <1>3 DEF Entry
    <2>2. \A i \in Entry(s, m)' : f[i] = i
      OBVIOUS
    <2> HIDE DEF f
    <2>3. \A i \in Entry(s, m)' :
            /\ f[i] \in Entry(s, m) /\ stored'[s][i] = stored[s][f[i]]
            /\ \A j \in Entry(s, m)' : f[i] = f[j] => i = j
      BY <2>1, <2>2
    <2> QED
      BY <2>3
  <1>4. ASSUME \A s \in Sessions : Entry(s, e.id) = {}, NEW s \in Sessions, NEW i \in Entry(s, e.id)'
        PROVE  i = Len(stored[t]) + 1
    BY <1>1, <1>2, <1>4 DEF Entry
  <1> QED
    BY <1>3, <1>4 DEF Inherits

\* A usage is set: other messages' entries stay as they are, the message's own
\* where they are.
LEMMA EntryInPlace ==
  ASSUME stored \in [Sessions -> Seq(Entries)], NEW t \in Sessions, NEW x \in Messages,
         NEW u \in Usages \cup {0}, stored' = [stored EXCEPT ![t] = WithUsage(t, x, u)]
  PROVE  /\ \A m : m # x => Inherits(m)
         /\ \A s \in Sessions : Entry(s, x)' = Entry(s, x)
PROOF
  <1>1. /\ DOMAIN stored'[t] = DOMAIN stored[t]
        /\ \A i \in DOMAIN stored[t] : stored'[t][i].id = stored[t][i].id
        /\ \A i \in DOMAIN stored[t] : stored[t][i].id # x => stored'[t][i] = stored[t][i]
        /\ \A s \in Sessions \ {t} : stored'[s] = stored[s]
    BY DEF WithUsage
  <1>2. ASSUME NEW m, m # x, NEW s \in Sessions
        PROVE  \E f : \A i \in Entry(s, m)' :
                   /\ f[i] \in Entry(s, m) /\ stored'[s][i] = stored[s][f[i]]
                   /\ \A j \in Entry(s, m)' : f[i] = f[j] => i = j
    <2> DEFINE f == [i \in Entry(s, m)' |-> i]
    <2>1. \A i \in Entry(s, m)' : i \in Entry(s, m) /\ stored'[s][i] = stored[s][i]
      BY <1>1, <1>2 DEF Entry
    <2>2. \A i \in Entry(s, m)' : f[i] = i
      OBVIOUS
    <2> HIDE DEF f
    <2>3. \A i \in Entry(s, m)' :
            /\ f[i] \in Entry(s, m) /\ stored'[s][i] = stored[s][f[i]]
            /\ \A j \in Entry(s, m)' : f[i] = f[j] => i = j
      BY <2>1, <2>2
    <2> QED
      BY <2>3
  <1>3. \A s \in Sessions : Entry(s, x)' = Entry(s, x)
    BY <1>1 DEF Entry
  <1> QED
    BY <1>2, <1>3 DEF Inherits

\* An entry is taken out.
LEMMA EntryGone ==
  ASSUME stored \in [Sessions -> Seq(Entries)], NEW t \in Sessions, NEW k \in DOMAIN stored[t],
         stored' = [stored EXCEPT ![t] = RemoveAt(@, k)]
  PROVE  /\ \A m : Inherits(m)
         /\ \A m : Entry(t, m) = {k} => Entry(t, m)' = {}
PROOF
  <1> DEFINE q == stored[t]
             n == Len(q)
             r == stored'[t]
  <1>1. q \in Seq(Entries) /\ n \in Nat /\ DOMAIN q = 1..n /\ k \in 1..n
    OBVIOUS
  <1>2. /\ DOMAIN r = 1..(n - 1)
        /\ \A j \in 1..(n - 1) : r[j] = IF j < k THEN q[j] ELSE q[j + 1]
    BY RemovedAt
  <1>3. \A s \in Sessions \ {t} : stored'[s] = stored[s]
    OBVIOUS
  <1>4. ASSUME NEW m, NEW s \in Sessions
        PROVE  \E f : \A i \in Entry(s, m)' :
                   /\ f[i] \in Entry(s, m) /\ stored'[s][i] = stored[s][f[i]]
                   /\ \A j \in Entry(s, m)' : f[i] = f[j] => i = j
    <2>1. CASE s # t
      <3> DEFINE f == [i \in Entry(s, m)' |-> i]
      <3>1. \A i \in Entry(s, m)' : i \in Entry(s, m) /\ stored'[s][i] = stored[s][i]
        BY <1>3, <2>1 DEF Entry
      <3>2. \A i \in Entry(s, m)' : f[i] = i
        OBVIOUS
      <3> HIDE DEF f
      <3> QED
        BY <3>1, <3>2
    <2>2. CASE s = t
      <3> DEFINE f == [i \in Entry(s, m)' |-> IF i < k THEN i ELSE i + 1]
      <3> HIDE DEF q, n, r
      <3>1. ASSUME NEW i \in Entry(s, m)'
            PROVE  /\ i \in 1..(n - 1) /\ f[i] \in Entry(s, m) /\ r[i] = q[f[i]]
                   /\ f[i] = IF i < k THEN i ELSE i + 1
        <4>1. i \in 1..(n - 1) /\ r[i].id = m
          BY <1>2, <2>2 DEF Entry, r
        <4>2. f[i] = (IF i < k THEN i ELSE i + 1) /\ f[i] \in 1..n
          BY <1>1, <4>1
        <4>3. r[i] = q[f[i]]
          BY <1>2, <4>1, <4>2
        <4>4. f[i] \in Entry(s, m)
          BY <1>1, <2>2, <4>1, <4>2, <4>3 DEF Entry, q
        <4> QED
          BY <4>1, <4>2, <4>3, <4>4
      <3> HIDE DEF f
      <3>2. \A i, j \in Entry(s, m)' : f[i] = f[j] => i = j
        BY <1>1, <3>1
      <3>3. \A i \in Entry(s, m)' : stored'[s][i] = stored[s][f[i]]
        BY <2>2, <3>1 DEF q, r
      <3>4. \A i \in Entry(s, m)' :
              /\ f[i] \in Entry(s, m) /\ stored'[s][i] = stored[s][f[i]]
              /\ \A j \in Entry(s, m)' : f[i] = f[j] => i = j
        BY <3>1, <3>2, <3>3
      <3> QED
        BY <3>4
    <2> QED
      BY <2>1, <2>2
  <1>5. ASSUME NEW m, Entry(t, m) = {k}, NEW i \in Entry(t, m)'
        PROVE  FALSE
    <2> HIDE DEF q, n, r
    <2>1. i \in 1..(n - 1) /\ r[i].id = m
      BY <1>2, <1>5 DEF Entry, r
    <2>2. \A j \in 1..n : q[j].id = m => j = k
      BY <1>1, <1>5 DEF Entry, q
    <2>3. CASE i < k
      BY <1>1, <1>2, <2>1, <2>2, <2>3
    <2>4. CASE ~(i < k)
      <3>1. i + 1 \in 1..n /\ r[i] = q[i + 1] /\ i + 1 # k
        BY <1>1, <1>2, <2>1, <2>4
      <3> QED
        BY <2>1, <2>2, <3>1
    <2> QED
      BY <2>3, <2>4
  <1> QED
    BY <1>4, <1>5 DEF Inherits

\* An operation that ends, begins or goes on without an entry of m in its hand.
Aside(m, d) ==
    \/ client'[d] = client[d]
    \/ client[d].m # m /\ client'[d].m # m
    \/ /\ ~At(d, "usage", "put") /\ ~At(d, "usage", "remove")' /\ ~At(d, "usage", "put")'

\* A message that no step touches, but to acknowledge it.
LEMMA Untouched ==
  ASSUME NEW m, Single(m), Present(m), tangled \subseteq tangled', deleted \subseteq deleted',
         Inherits(m), \A d \in Clients : Aside(m, d),
         Held(m)' => /\ Held(m) /\ home[m] \in Sessions /\ home'[m] = home[m]
                     /\ \A s \in Sessions \ deleted' : m \in Ids(s) => m \in Ids(s)'
  PROVE  Single(m)' /\ Present(m)'
PROOF
  <1>1. SameUpdates(m)
    <2>1. ASSUME NEW d \in Clients, client'[d].op = "usage", client'[d].m = m, client'[d].at \in {"remove", "put"}
          PROVE  client'[d] = client[d]
      BY <2>1 DEF Aside, At
    <2> QED
      BY <2>1 DEF SameUpdates, Updating
  <1>2. ASSUME NEW s, m \in InHand(s)
        PROVE  m \in InHand(s)'
    <2>1. PICK d \in Clients : At(d, "usage", "put") /\ client[d].s = s /\ client[d].m = m
      BY <1>2 DEF InHand
    <2>2. client'[d] = client[d]
      BY <2>1 DEF Aside
    <2> QED
      BY <2>1, <2>2 DEF InHand, At
  <1>3. Present(m)'
    <2> SUFFICES ASSUME m \notin tangled', Held(m)', home'[m] \notin deleted'
                 PROVE  m \in Ids(home[m])' \cup InHand(home[m])'
      BY DEF Present
    <2>1. PICK s \in Sessions : /\ Held(m) /\ home[m] = s /\ home'[m] = s /\ m \notin tangled
                                /\ s \notin deleted' /\ s \notin deleted
      OBVIOUS
    <2>2. m \in Ids(s) \cup InHand(s)
      BY <2>1 DEF Present
    <2>3. m \in Ids(s)' \cup InHand(s)'
      BY <1>2, <2>1, <2>2
    <2> QED
      BY <2>1, <2>3
  <1> QED
    BY <1>1, <1>3, SingleStays

\* Entries that are left alone, and messages.
Listed == \A m \in Messages : Single(m) /\ Present(m)

\* A step that touches no entry, or empties a session that is being deleted.
LEMMA NothingTouched ==
  ASSUME Listed, tangled \subseteq tangled', deleted \subseteq deleted',
         \A s \in Sessions : stored'[s] = stored[s] \/ (stored'[s] = <<>> /\ s \in deleted'),
         \A m \in Messages : \A d \in Clients : m \notin tangled' => Aside(m, d),
         \A m \in Messages : Held(m)' => Held(m) /\ home'[m] = home[m] /\ home[m] \in Sessions
  PROVE  Listed'
PROOF
  <1> SUFFICES ASSUME NEW m \in Messages PROVE Single(m)' /\ Present(m)'
    BY DEF Listed
  <1>1. CASE m \in tangled'
    BY <1>1 DEF Single, Present
  <1>2. CASE m \notin tangled'
    <2>1. Inherits(m)
      BY SameEntries
    <2>2. \A s \in Sessions \ deleted' : m \in Ids(s) => m \in Ids(s)'
      BY DEF Ids
    <2> QED
      BY <1>2, <2>1, <2>2, Untouched DEF Listed
  <1> QED
    BY <1>1, <1>2

\* Messages that are held have a session.
LEMMA HeldAtHome ==
  ASSUME StoresInv, NEW m, Held(m)
  PROVE  m \in Messages /\ home[m] \in Sessions
PROOF
  <1>1. StoresTypes /\ Known /\ \A c \in Clients : ClientOk(c)
    BY DEF StoresInv
  <1>2. CASE m \in acked
    BY <1>1, <1>2 DEF StoresTypes, Known
  <1>3. CASE \E c \in Clients : client[c].op = "append" /\ client[c].m = m
    BY <1>1, <1>3 DEF ClientOk, Appending
  <1> QED
    BY <1>2, <1>3 DEF Held

\* The steps that leave every entry as it is.
LEMMA QuietSteps ==
  ASSUME StoresInv, Listed,
         \/ \E s \in Sessions : CreateSession(s)
         \/ \E r \in Records : AddRecord(r)
         \/ \E c \in Clients :
             \/ \E s \in Sessions : \/ DeleteCascading(c, s) \/ DeleteSession(c, s)
                                    \/ \E m \in Messages : BeginAppend(c, m, s)
             \/ \E m \in Messages, u \in Usages : LookUpMessage(c, m, u)
             \/ CheckSession(c) \/ IndexMessage(c) \/ TouchSession(c) \/ DeleteMessages(c) \/ DeleteRecords(c)
             \/ CallFails(c)
  PROVE  Listed'
PROOF
  <1> USE StoresAssumption
  <1>t. StoresTypes /\ Known /\ \A d \in Clients : ClientOk(d)
    BY DEF StoresInv
  <1>h. \A m : Held(m) => home[m] \in Sessions
    BY HeldAtHome
  <1>a. ASSUME UNCHANGED <<client, acked, home, stored, tangled>>, deleted \subseteq deleted'
        PROVE  Listed'
    <2>1. \A m : Held(m)' => Held(m) /\ home'[m] = home[m] /\ home[m] \in Sessions
      BY <1>a, <1>h DEF Held
    <2>2. \A m, d : Aside(m, d)
      BY <1>a DEF Aside
    <2> QED
      BY <1>a, <2>1, <2>2, NothingTouched
  \* An operation that goes on, with its message.
  <1>b. ASSUME NEW c \in Clients, \A d \in Clients \ {c} : client'[d] = client[d],
               ~At(c, "usage", "put"), ~At(c, "usage", "remove")', ~At(c, "usage", "put")',
               tangled' = tangled, deleted \subseteq deleted',
               \A s \in Sessions : stored'[s] = stored[s] \/ (stored'[s] = <<>> /\ s \in deleted'),
               \A m : Held(m)' => Held(m) /\ home'[m] = home[m]
        PROVE  Listed'
    <2>1. \A m, d : d \in Clients => Aside(m, d)
      BY <1>b DEF Aside
    <2>2. \A m : Held(m)' => Held(m) /\ home'[m] = home[m] /\ home[m] \in Sessions
      BY <1>b, <1>h
    <2> QED
      BY <1>b, <2>1, <2>2, NothingTouched
  <1>1. ASSUME NEW s \in Sessions, CreateSession(s) PROVE Listed'
    BY <1>1, <1>a DEF CreateSession
  <1>2. ASSUME NEW r \in Records, AddRecord(r) PROVE Listed'
    BY <1>2, <1>a DEF AddRecord
  <1>3. ASSUME NEW c \in Clients, NEW s \in Sessions, DeleteCascading(c, s) PROVE Listed'
    <2>1. UNCHANGED <<client, acked, home, tangled>> /\ deleted' = deleted \cup {s}
          /\ stored' = [stored EXCEPT ![s] = <<>>]
      BY <1>3 DEF DeleteCascading
    <2>2. \A m : Held(m)' => Held(m) /\ home'[m] = home[m] /\ home[m] \in Sessions
      BY <2>1, <1>h DEF Held
    <2>3. \A m, d : Aside(m, d)
      BY <2>1 DEF Aside
    <2>4. \A t \in Sessions : stored'[t] = stored[t] \/ (stored'[t] = <<>> /\ t \in deleted')
      BY <2>1, <1>t DEF StoresTypes
    <2> QED
      BY <2>1, <2>2, <2>3, <2>4, NothingTouched
  <1>4. ASSUME NEW c \in Clients, NEW s \in Sessions, DeleteSession(c, s) PROVE Listed'
    <2> DEFINE next == [Idle EXCEPT !.op = "delete", !.at = "messages", !.s = s]
    <2>1. next \in Ops /\ next.op = "delete"
      BY IdleFields DEF Ops, Idle
    <2>2. /\ At(c, "idle", "idle") /\ Become(c, next)
          /\ UNCHANGED <<home, stored, acked, tangled>> /\ deleted \subseteq deleted'
      BY <1>4 DEF DeleteSession
    <2> HIDE DEF next
    <2>3. (\A d \in Clients \ {c} : client'[d] = client[d]) /\ client'[c] = next
      BY <1>t, <2>1, <2>2, Becomes DEF StoresTypes
    <2>4. ~At(c, "usage", "put") /\ ~At(c, "usage", "remove")' /\ ~At(c, "usage", "put")'
      BY <2>1, <2>2, <2>3 DEF At
    <2>5. \A m : Held(m)' => Held(m) /\ home'[m] = home[m]
      BY <2>1, <2>2, <2>3 DEF Held
    <2> QED
      BY <1>b, <2>2, <2>3, <2>4, <2>5
  <1>5. ASSUME NEW c \in Clients, NEW s \in Sessions, NEW m \in Messages, BeginAppend(c, m, s) PROVE Listed'
    <2> DEFINE next == [Idle EXCEPT !.op = "append", !.at = "check", !.m = m, !.s = s]
    <2>1. next \in Ops /\ next.op = "append" /\ next.at = "check"
      BY IdleFields DEF Ops, Idle
    <2>2. /\ At(c, "idle", "idle") /\ Become(c, next) /\ home[m] = None
          /\ home' = [home EXCEPT ![m] = s]
          /\ UNCHANGED <<stored, acked, tangled, deleted>>
      BY <1>5 DEF BeginAppend
    <2> HIDE DEF next
    <2>3. (\A d \in Clients \ {c} : client'[d] = client[d]) /\ client'[c] = next
      BY <1>t, <2>1, <2>2, Becomes DEF StoresTypes
    <2>4. ~At(c, "usage", "put") /\ ~At(c, "usage", "remove")' /\ ~At(c, "usage", "put")'
      BY <2>1, <2>2, <2>3 DEF At
    <2>5. ASSUME NEW x, Held(x)' PROVE Held(x) /\ home'[x] = home[x]
      <3>1. Held(x)
        BY <2>1, <2>2, <2>3, <2>5 DEF Held
      <3>2. x \in Messages /\ home[x] \in Sessions
        BY <3>1, HeldAtHome
      <3> QED
        BY <2>2, <3>1, <3>2, <1>t DEF StoresTypes
    <2> QED
      BY <1>b, <2>2, <2>3, <2>4, <2>5
  <1>6. ASSUME NEW c \in Clients, NEW m \in Messages, NEW u \in Usages, LookUpMessage(c, m, u) PROVE Listed'
    <2> DEFINE at == IF backend = "memory" THEN "write" ELSE "read"
               next == [Idle EXCEPT !.op = "usage", !.at = at, !.m = m, !.s = home[m], !.u = u]
    <2>1. at \in {"write", "read"}
      OBVIOUS
    <2> HIDE DEF at
    <2>2. next \in Ops /\ next.op = "usage" /\ next.at = at
      BY <2>1, <1>t, IdleFields DEF Ops, Idle, StoresTypes
    <2>3. /\ At(c, "idle", "idle") /\ Become(c, next)
          /\ UNCHANGED <<home, stored, acked, tangled, deleted>>
      BY <1>6 DEF LookUpMessage, at
    <2> HIDE DEF next
    <2>4. (\A d \in Clients \ {c} : client'[d] = client[d]) /\ client'[c] = next
      BY <1>t, <2>2, <2>3, Becomes DEF StoresTypes
    <2>5. ~At(c, "usage", "put") /\ ~At(c, "usage", "remove")' /\ ~At(c, "usage", "put")'
      BY <2>1, <2>2, <2>3, <2>4 DEF At
    <2>6. \A x : Held(x)' => Held(x) /\ home'[x] = home[x]
      BY <2>2, <2>3, <2>4 DEF Held
    <2> QED
      BY <1>b, <2>3, <2>4, <2>5, <2>6
  \* An operation ends.
  <1>c. ASSUME NEW c \in Clients, Return(c), ~At(c, "usage", "put"), tangled' = tangled, deleted' = deleted,
               \A s \in Sessions : stored'[s] = stored[s] \/ (stored'[s] = <<>> /\ s \in deleted'),
               home' = home, \A m \in acked' : Held(m)
        PROVE  Listed'
    <2>1. (\A d \in Clients \ {c} : client'[d] = client[d]) /\ client'[c] = Idle
      BY <1>c, Returns
    <2>2. ~At(c, "usage", "remove")' /\ ~At(c, "usage", "put")'
      BY <2>1, IdleFields DEF At
    <2>3. \A m : Held(m)' => Held(m) /\ home'[m] = home[m]
      BY <1>c, <2>1, IdleFields DEF Held
    <2> QED
      BY <1>c, <1>b, <2>1, <2>2, <2>3
  \* An operation goes on, an append to a step where its message was held.
  <1>d. ASSUME NEW c \in Clients, NEW at \in {"check", "push", "index", "touch", "write", "read", "messages", "records"},
               GoTo(c, at), ~At(c, "usage", "put"), tangled' = tangled, deleted' = deleted,
               \A s \in Sessions : stored'[s] = stored[s] \/ (stored'[s] = <<>> /\ s \in deleted'),
               home' = home, acked' = acked,
               client[c].op = "append" /\ at \in {"index", "touch"} => Held(client[c].m)
        PROVE  Listed'
    <2>1. /\ \A d \in Clients \ {c} : client'[d] = client[d]
          /\ client'[c].at = at /\ client'[c].op = client[c].op /\ client'[c].m = client[c].m
      BY <1>d, <1>t, GoesOn DEF StoresTypes
    <2>2. ~At(c, "usage", "remove")' /\ ~At(c, "usage", "put")'
      BY <2>1 DEF At
    <2>3. \A m : Held(m)' => Held(m) /\ home'[m] = home[m]
      BY <1>d, <2>1 DEF Held
    <2> QED
      BY <1>d, <1>b, <2>1, <2>2, <2>3
  <1>7. ASSUME NEW c \in Clients, CheckSession(c) PROVE Listed'
    <2>1. At(c, "append", "check") /\ (Return(c) \/ GoTo(c, "push"))
          /\ UNCHANGED <<home, stored, acked, tangled, deleted>>
      BY <1>7 DEF CheckSession
    <2>2. ~At(c, "usage", "put") /\ \A m \in acked' : Held(m)
      BY <2>1 DEF At, Held
    <2> QED
      BY <1>c, <1>d, <2>1, <2>2
  <1>8. ASSUME NEW c \in Clients, IndexMessage(c) PROVE Listed'
    <2>1. /\ At(c, "append", "index") /\ UNCHANGED <<home, stored, tangled, deleted>>
          /\ \/ Return(c) /\ acked' = acked \cup {client[c].m}
             \/ GoTo(c, "touch") /\ acked' = acked
      BY <1>8 DEF IndexMessage
    <2>2. ~At(c, "usage", "put") /\ Held(client[c].m) /\ \A m \in acked : Held(m)
      BY <2>1 DEF At, Held
    <2> QED
      BY <1>c, <1>d, <2>1, <2>2
  <1>9. ASSUME NEW c \in Clients, TouchSession(c) PROVE Listed'
    <2>1. /\ At(c, "append", "touch") /\ UNCHANGED <<home, stored, tangled, deleted>>
          /\ Return(c) /\ acked' \in {acked, acked \cup {client[c].m}}
      BY <1>9 DEF TouchSession
    <2>2. ~At(c, "usage", "put") /\ Held(client[c].m) /\ \A m \in acked : Held(m)
      BY <2>1 DEF At, Held
    <2> QED
      BY <1>c, <2>1, <2>2
  <1>10. ASSUME NEW c \in Clients, DeleteMessages(c) PROVE Listed'
    <2>1. /\ At(c, "delete", "messages") /\ UNCHANGED <<home, acked, tangled, deleted>>
          /\ stored' = [stored EXCEPT ![client[c].s] = <<>>]
          /\ GoTo(c, "records") \/ Return(c)
      BY <1>10 DEF DeleteMessages
    <2>2. ~At(c, "usage", "put") /\ (\A m \in acked' : Held(m)) /\ client[c].op # "append"
      BY <2>1 DEF At, Held
    <2>3. client[c].s \in deleted
      BY <2>1, <1>t DEF At, ClientOk, Deleting
    <2>4. \A s \in Sessions : stored'[s] = stored[s] \/ (stored'[s] = <<>> /\ s \in deleted')
      BY <2>1, <2>3, <1>t DEF StoresTypes
    <2> QED
      BY <1>c, <1>d, <2>1, <2>2, <2>4
  <1>11. ASSUME NEW c \in Clients, DeleteRecords(c) PROVE Listed'
    <2>1. At(c, "delete", "records") /\ Return(c) /\ UNCHANGED <<home, stored, acked, tangled, deleted>>
      BY <1>11 DEF DeleteRecords
    <2>2. ~At(c, "usage", "put") /\ \A m \in acked' : Held(m)
      BY <2>1 DEF At, Held
    <2> QED
      BY <1>c, <2>1, <2>2
  <1>12. ASSUME NEW c \in Clients, CallFails(c) PROVE Listed'
    <2>1. /\ Return(c) /\ UNCHANGED <<home, stored, acked, deleted>>
          /\ tangled' = IF At(c, "usage", "put") THEN tangled \cup {client[c].m} ELSE tangled
      BY <1>12 DEF CallFails
    <2>2. CASE ~At(c, "usage", "put")
      <3>1. \A m \in acked' : Held(m)
        BY <2>1 DEF Held
      <3> QED
        BY <1>c, <2>1, <2>2, <3>1
    <2>3. CASE At(c, "usage", "put")
      <3>1. (\A d \in Clients \ {c} : client'[d] = client[d]) /\ client'[c] = Idle
        BY <2>1, Returns
      <3>2. \A m \in Messages : \A d \in Clients : m \notin tangled' => Aside(m, d)
        <4> SUFFICES ASSUME NEW m \in Messages, NEW d \in Clients, m \notin tangled' PROVE Aside(m, d)
          OBVIOUS
        <4>1. client[c].m # m /\ Idle.m # m
          BY <2>1, <2>3 DEF Idle
        <4> QED
          BY <3>1, <4>1 DEF Aside
      <3>3. \A m : Held(m)' => Held(m) /\ home'[m] = home[m] /\ home[m] \in Sessions
        BY <2>1, <3>1, <1>h, IdleFields DEF Held
      <3>4. tangled \subseteq tangled' /\ deleted \subseteq deleted' /\ stored' = stored
        BY <2>1, <2>3
      <3> QED
        BY <3>2, <3>3, <3>4, NothingTouched
    <2> QED
      BY <2>2, <2>3
  <1> QED
    BY <1>1, <1>2, <1>3, <1>4, <1>5, <1>6, <1>7, <1>8, <1>9, <1>10, <1>11, <1>12

\* No update has a message in work that no index knows.
LEMMA NoUpdates ==
  ASSUME StoresInv, NEW m, m \notin index \/ backend # "redis"
  PROVE  Updating(m) = {}
PROOF
  <1>1. \A c \in Clients : UpdatingUsage(c)
    BY DEF StoresInv, ClientOk
  <1> QED
    BY <1>1 DEF UpdatingUsage, Updating

\* A message is inserted, and acknowledged now or later.
LEMMA InsertSteps ==
  ASSUME StoresInv, StoresInv', Listed, NEW c \in Clients, InsertMessage(c) \/ PushMessage(c)
  PROVE  Listed'
PROOF
  <1> USE StoresAssumption
  <1>t. StoresTypes /\ AppendsApart /\ Placed /\ \A d \in Clients : ClientOk(d)
    BY DEF StoresInv
  <1>1. /\ client[c].op = "append" /\ client[c].at \in {"check", "push"}
        /\ UNCHANGED <<home, tangled, deleted, index, backend>>
    BY DEF InsertMessage, PushMessage, At
  <1>2. PICK m \in Messages, s \in Sessions :
            client[c].m = m /\ client[c].s = s /\ home[m] = s /\ Unknown(m)
    BY <1>1, <1>t DEF ClientOk, Appending
  <1> DEFINE e == [id |-> m, usage |-> 0]
  <1>3. /\ \A d \in Clients \ {c} : client'[d] = client[d]
        /\ client'[c].op # "usage"
        /\ client'[c].op = "append" => client'[c].m = m
        /\ \/ stored' = [stored EXCEPT ![s] = Append(@, e)] /\ acked' \subseteq acked \cup {m}
           \/ UNCHANGED <<stored, acked>> /\ client'[c].op = "idle"
    <2>1. CASE InsertMessage(c)
      <3>1. Return(c)
        BY <2>1 DEF InsertMessage
      <3>2. (\A d \in Clients \ {c} : client'[d] = client[d]) /\ client'[c] = Idle
        BY <3>1, Returns
      <3> QED
        BY <1>2, <2>1, <3>2, IdleFields DEF InsertMessage
    <2>2. CASE PushMessage(c)
      <3>1. PICK at \in {"touch", "index"} : GoTo(c, at)
        BY <2>2 DEF PushMessage
      <3>2. /\ \A d \in Clients \ {c} : client'[d] = client[d]
            /\ client'[c].op = client[c].op /\ client'[c].m = client[c].m
        BY <1>t, <3>1, GoesOn DEF StoresTypes
      <3> QED
        BY <1>1, <1>2, <2>2, <3>2 DEF PushMessage
    <2> QED
      BY <2>1, <2>2
  <1>4. e \in Entries /\ e.id = m /\ stored \in [Sessions -> Seq(Entries)]
    BY <1>t DEF Entries, StoresTypes
  <1> HIDE DEF e
  <1>5. ASSUME NEW x, Held(x)' PROVE (x = m \/ Held(x)) /\ home'[x] = home[x]
    BY <1>1, <1>3, <1>5 DEF Held
  <1>6. \A x : x # m => \A d \in Clients : Aside(x, d)
    <2> SUFFICES ASSUME NEW x, x # m, NEW d \in Clients PROVE Aside(x, d)
      OBVIOUS
    <2> QED
      BY <1>1, <1>3 DEF Aside, At
  <1>7. CASE UNCHANGED <<stored, acked>> /\ client'[c].op = "idle"
    <2>1. \A x : \A d \in Clients : Aside(x, d)
      BY <1>1, <1>3, <1>7 DEF Aside, At
    <2>2. \A x : Held(x)' => Held(x)
      BY <1>3, <1>7 DEF Held
    <2>3. \A x : Held(x)' => Held(x) /\ home'[x] = home[x] /\ home[x] \in Sessions
      BY <1>5, <2>2, HeldAtHome
    <2> QED
      BY <1>1, <1>7, <2>1, <2>3, NothingTouched
  <1>8. CASE stored' = [stored EXCEPT ![s] = Append(@, e)]
    <2>1. /\ \A x : x # m => Inherits(x)
          /\ (\A t \in Sessions : Entry(t, m) = {}) =>
                 \A t \in Sessions : \A i, j \in Entry(t, m)' : i = j
      BY <1>4, <1>8, EntryAfter
    <2>2. \A t \in Sessions : Ids(t)' = IF t = s THEN Ids(t) \cup {m} ELSE Ids(t)
      BY <1>4, <1>8, EntryAdded
    <2>3. \A t \in Sessions : Entry(t, m) = {}
      BY <1>2 DEF Unknown, Ids, Entry
    <2>4. Updating(m) = {} /\ Updating(m)' = {}
      <3>1. m \notin index
        BY <1>2 DEF Unknown
      <3>2. Updating(m) = {}
        BY <3>1, NoUpdates
      <3>3. Updating(m)' = {}
        BY <3>2, <1>3 DEF Updating
      <3> QED
        BY <3>2, <3>3
    <2>5. Single(m)'
      BY <2>1, <2>3, <2>4 DEF Single, Placing, Updating, At
    <2>6. Present(m)'
      BY <1>1, <1>2, <2>2 DEF Present
    <2>7. ASSUME NEW x \in Messages, x # m PROVE Single(x)' /\ Present(x)'
      <3>1. Inherits(x)
        BY <2>1, <2>7
      <3>2. Held(x)' => /\ Held(x) /\ home[x] \in Sessions /\ home'[x] = home[x]
                        /\ \A t \in Sessions \ deleted' : x \in Ids(t) => x \in Ids(t)'
        BY <1>5, <2>2, <2>7, HeldAtHome
      <3>3. \A d \in Clients : Aside(x, d)
        BY <1>6, <2>7
      <3>4. tangled \subseteq tangled' /\ deleted \subseteq deleted'
        BY <1>1
      <3> QED
        BY <2>7, <3>1, <3>2, <3>3, <3>4, Untouched DEF Listed
    <2> QED
      BY <2>5, <2>6, <2>7 DEF Listed
  <1> QED
    BY <1>3, <1>7, <1>8

\* A usage is set in place, at once or by a client of the memory store.
LEMMA InPlaceSteps ==
  ASSUME StoresInv, Listed,
         \/ \E c \in Clients, m \in Messages, u \in Usages : UpdateUsageAtOnce(c, m, u)
         \/ \E c \in Clients : WriteUsage(c)
  PROVE  Listed'
PROOF
  <1> USE StoresAssumption
  <1>t. StoresTypes /\ \A d \in Clients : ClientOk(d)
    BY DEF StoresInv
  <1>1. PICK x \in Messages, t \in Sessions, u \in Usages \cup {0} :
            /\ stored' = [stored EXCEPT ![t] = WithUsage(t, x, u)]
            /\ UNCHANGED <<home, tangled, deleted, acked>> /\ backend # "redis"
            /\ \A d \in Clients : client'[d] = client[d] \/ client'[d] = Idle
    <2>1. ASSUME NEW c \in Clients, NEW m \in Messages, NEW u \in Usages, UpdateUsageAtOnce(c, m, u)
          PROVE  /\ stored' = [stored EXCEPT ![home[m]] = WithUsage(home[m], m, u)] /\ home[m] \in Sessions
                 /\ UNCHANGED <<home, tangled, deleted, acked>> /\ backend # "redis"
                 /\ \A d \in Clients : client'[d] = client[d]
      BY <2>1, <1>t DEF UpdateUsageAtOnce, StoresTypes
    <2>2. ASSUME NEW c \in Clients, WriteUsage(c)
          PROVE  /\ stored' = [stored EXCEPT ![client[c].s] = WithUsage(client[c].s, client[c].m, client[c].u)]
                 /\ client[c].s \in Sessions /\ client[c].m \in Messages /\ client[c].u \in Usages \cup {0}
                 /\ UNCHANGED <<home, tangled, deleted, acked>> /\ backend # "redis"
                 /\ \A d \in Clients : client'[d] = client[d] \/ client'[d] = Idle
      <3>1. At(c, "usage", "write") /\ Return(c) /\ UNCHANGED <<home, tangled, deleted, acked>>
            /\ stored' = [stored EXCEPT ![client[c].s] = WithUsage(client[c].s, client[c].m, client[c].u)]
        BY <2>2 DEF WriteUsage
      <3>2. /\ UpdatingUsage(c) /\ client[c].op = "usage" /\ client[c].at = "write" /\ client[c] \in Ops
        BY <3>1, <1>t DEF ClientOk, At, StoresTypes
      <3>3. /\ client[c].s \in Sessions /\ client[c].m \in Messages /\ client[c].u \in Usages \cup {0}
            /\ backend # "redis"
        BY <3>2, <1>t DEF UpdatingUsage, Ops, StoresTypes
      <3>4. (\A d \in Clients \ {c} : client'[d] = client[d]) /\ client'[c] = Idle
        BY <3>1, Returns
      <3> QED
        BY <3>1, <3>3, <3>4
    <2> QED
      BY <2>1, <2>2
  <1>2. stored \in [Sessions -> Seq(Entries)]
    BY <1>t DEF StoresTypes
  <1>3. (\A m : m # x => Inherits(m)) /\ \A s \in Sessions : Entry(s, x)' = Entry(s, x)
    BY <1>1, <1>2, EntryInPlace
  <1>4. \A s \in Sessions : Ids(s)' = Ids(s)
    BY <1>1, <1>2, UsageSet
  <1>5. \A m : Updating(m) = {}
    BY <1>1, NoUpdates
  <1>6. \A m : Updating(m)' = {}
    BY <1>1, <1>5, IdleFields DEF Updating
  <1>7. \A m : InHand(m) = {}
    BY <1>5 DEF InHand, Updating, At
  <1>8. ASSUME NEW m, Held(m)'
        PROVE  Held(m) /\ home[m] \in Sessions /\ home'[m] = home[m]
    <2>1. Held(m)
      BY <1>1, <1>8, IdleFields DEF Held
    <2> QED
      BY <1>1, <2>1, HeldAtHome
  <1>9. ASSUME NEW m \in Messages PROVE Present(m)'
    <2> SUFFICES ASSUME m \notin tangled', Held(m)', home'[m] \notin deleted'
                 PROVE  m \in Ids(home[m])' \cup InHand(home[m])'
      BY DEF Present
    <2>1. PICK s \in Sessions : Held(m) /\ home[m] = s /\ home'[m] = s
      BY <1>8
    <2>2. m \in Ids(s)
      BY <1>1, <1>7, <2>1 DEF Listed, Present
    <2>3. m \in Ids(s)'
      BY <1>4, <2>2
    <2> QED
      BY <2>1, <2>3
  <1>10. ASSUME NEW m \in Messages PROVE Single(m)'
    <2>1. m \notin tangled => \A s \in Sessions : \A i, j \in Entry(s, m) : i = j
      BY DEF Listed, Single
    <2>2. m \notin tangled => \A s \in Sessions : \A i, j \in Entry(s, m)' : i = j
      <3>1. CASE m = x
        BY <1>3, <2>1, <3>1
      <3>2. CASE m # x
        <4>1. SameUpdates(m) /\ Inherits(m) /\ tangled' = tangled
          BY <1>1, <1>3, <1>6, <3>2 DEF SameUpdates
        <4>2. Single(m)'
          BY <4>1, SingleStays DEF Listed
        <4> QED
          BY <4>1, <4>2 DEF Single
      <3> QED
        BY <3>1, <3>2
    <2>3. Placing(m)' = {}
      BY <1>6 DEF Placing, Updating, At
    <2> QED
      BY <1>1, <1>6, <2>2, <2>3 DEF Single
  <1> QED
    BY <1>9, <1>10 DEF Listed

\* The steps of a Redis update.
LEMMA AtUpdate ==
  ASSUME StoresInv, NEW c \in Clients, client[c].op = "usage"
  PROVE  /\ client[c].m \in Messages /\ client[c].s \in Sessions /\ home[client[c].m] = client[c].s
         /\ client[c].at = "remove" => client[c].seen.id = client[c].m
         /\ client[c] \in Ops
PROOF
  <1>1. StoresTypes /\ UpdatingUsage(c)
    BY DEF StoresInv, ClientOk
  <1> QED
    BY <1>1 DEF UpdatingUsage, StoresTypes

\* The other messages, when a client is at one step of an update.
LEMMA OtherMessages ==
  ASSUME StoresInv, Listed, NEW c \in Clients, \A d \in Clients \ {c} : client'[d] = client[d],
         NEW m \in Messages, client[c].m = m, client[c].op = "usage",
         client'[c].m = m \/ client'[c] = Idle, client'[c].op # "append",
         UNCHANGED <<home, acked, deleted>>, tangled \subseteq tangled',
         NEW x \in Messages, x # m, Inherits(x), \A s \in Sessions : x \in Ids(s) => x \in Ids(s)'
  PROVE  Single(x)' /\ Present(x)'
PROOF
  <1>1. \A d \in Clients : Aside(x, d)
    <2> SUFFICES ASSUME NEW d \in Clients PROVE Aside(x, d)
      OBVIOUS
    <2>1. CASE d # c
      BY <2>1 DEF Aside
    <2>2. CASE d = c /\ client'[c].m = m
      BY <2>2 DEF Aside
    <2>3. CASE d = c /\ client'[c] = Idle
      <3>1. Idle.m # x
        BY StoresAssumption DEF Idle
      <3> QED
        BY <2>3, <3>1 DEF Aside
    <2> QED
      BY <2>1, <2>2, <2>3
  <1>2. Held(x)' => Held(x)
    BY DEF Held
  <1>3. Held(x)' => /\ Held(x) /\ home[x] \in Sessions /\ home'[x] = home[x]
                    /\ \A s \in Sessions \ deleted' : x \in Ids(s) => x \in Ids(s)'
    BY <1>2, HeldAtHome
  <1>4. tangled \subseteq tangled' /\ deleted \subseteq deleted'
    OBVIOUS
  <1> QED
    BY <1>1, <1>3, <1>4, Untouched DEF Listed

\* The entry is read: it is the message's only one.
LEMMA ReadEntryLists ==
  ASSUME StoresInv, Listed, NEW c \in Clients, ReadEntry(c)
  PROVE  Listed'
PROOF
  <1>t. StoresTypes /\ Placed
    BY DEF StoresInv
  <1>1. /\ At(c, "usage", "read") /\ client[c].op = "usage" /\ client[c].at = "read"
        /\ UNCHANGED <<home, stored, acked, tangled, deleted>>
    BY DEF ReadEntry, At
  <1>2. PICK m \in Messages, t \in Sessions :
            client[c].m = m /\ client[c].s = t /\ home[m] = t /\ client[c] \in Ops
    BY <1>1, AtUpdate
  <1>3. CASE Return(c)
    <2>1. (\A d \in Clients \ {c} : client'[d] = client[d]) /\ client'[c] = Idle
      BY <1>3, Returns
    <2>2. ~At(c, "usage", "put") /\ ~At(c, "usage", "remove")' /\ ~At(c, "usage", "put")'
      BY <1>1, <2>1, IdleFields DEF At
    <2>3. \A x : Held(x)' => Held(x)
      BY <1>1, <2>1, IdleFields DEF Held
    <2>4. \A x : Held(x)' => Held(x) /\ home'[x] = home[x] /\ home[x] \in Sessions
      BY <1>1, <2>3, HeldAtHome
    <2>5. \A x : \A d \in Clients : Aside(x, d)
      BY <2>1, <2>2 DEF Aside
    <2> QED
      BY <1>1, <2>4, <2>5, NothingTouched
  <1>4. ASSUME NEW k \in DOMAIN stored[t], stored[t][k].id = m,
               Become(c, [client[c] EXCEPT !.at = "remove", !.seen = stored[t][k]])
        PROVE  Listed'
    <2> DEFINE next == [client[c] EXCEPT !.at = "remove", !.seen = stored[t][k]]
    <2>1. /\ next \in Ops /\ next.op = "usage" /\ next.at = "remove" /\ next.m = m /\ next.s = t
          /\ next.seen = stored[t][k]
      <3>1. stored[t][k] \in Entries
        BY <1>t, <1>4 DEF StoresTypes
      <3> QED
        BY <1>1, <1>2, <3>1 DEF Ops
    <2> HIDE DEF next
    <2>2. (\A d \in Clients \ {c} : client'[d] = client[d]) /\ client'[c] = next
      BY <1>t, <1>4, <2>1, Becomes DEF StoresTypes, next
    <2>3. \A x : Inherits(x)
      BY <1>1, SameEntries
    <2>4. \A x, s : x \in Ids(s) => x \in Ids(s)'
      BY <1>1 DEF Ids
    <2>5. ASSUME NEW x \in Messages, x # m PROVE Single(x)' /\ Present(x)'
      BY <1>1, <1>2, <2>1, <2>2, <2>3, <2>4, <2>5, OtherMessages
    <2>6. Present(m)'
      <3>1. Held(m)' => Held(m)
        BY <1>1, <2>1, <2>2 DEF Held
      <3>2. m \in Ids(t)
        BY <1>4 DEF Ids
      <3> QED
        BY <1>1, <1>2, <2>4, <3>2 DEF Present
    <2>7. Single(m)'
      <3> SUFFICES ASSUME m \notin tangled
                   PROVE  Single(m)'
        BY <1>1 DEF Single
      <3>1. \A s \in Sessions : Entry(s, m)' = Entry(s, m)
        BY <1>1 DEF Entry
      <3>2. k \in Entry(t, m)
        BY <1>4 DEF Entry
      <3>3. \A s \in Sessions : \A i \in Entry(s, m) : s = t /\ i = k
        <4>1. \A s \in Sessions : \A i \in Entry(s, m) : s = t
          BY <1>2, <1>t DEF Placed, Ids, Entry
        <4> QED
          BY <3>2, <4>1 DEF Listed, Single
      <3>4. Placing(m) = {}
        BY <3>2 DEF Listed, Single
      <3>5. Placing(m)' = {}
        BY <2>1, <2>2, <3>4 DEF Placing, At
      <3>6. ASSUME NEW d \in Updating(m)', At(d, "usage", "remove")', NEW s \in Sessions, NEW i \in Entry(s, m)'
            PROVE  stored'[s][i] = client'[d].seen
        <4>1. CASE d = c
          BY <1>1, <2>1, <2>2, <3>1, <3>3, <4>1
        <4>2. CASE d # c
          <5>1. d \in Updating(m) /\ client'[d] = client[d] /\ At(d, "usage", "remove")
            BY <2>2, <3>6, <4>2 DEF Updating, At
          <5> QED
            BY <1>1, <3>1, <5>1 DEF Listed, Single
        <4> QED
          BY <4>1, <4>2
      <3> QED
        BY <3>1, <3>3, <3>5, <3>6 DEF Single
    <2> QED
      BY <2>5, <2>6, <2>7 DEF Listed
  <1> QED
    BY <1>2, <1>3, <1>4 DEF ReadEntry

\* The entry is taken out, and no other of the message is left.
LEMMA RemoveEntryLists ==
  ASSUME StoresInv, Listed, NEW c \in Clients, RemoveEntry(c)
  PROVE  Listed'
PROOF
  <1>t. StoresTypes /\ Placed
    BY DEF StoresInv
  <1>1. /\ At(c, "usage", "remove") /\ client[c].op = "usage" /\ client[c].at = "remove" /\ GoTo(c, "put")
        /\ tangled' = IF Updating(client[c].m) # {c} THEN tangled \cup {client[c].m} ELSE tangled
        /\ UNCHANGED <<home, acked, deleted>>
    BY DEF RemoveEntry, At
  <1>2. PICK m \in Messages, t \in Sessions :
            client[c].m = m /\ client[c].s = t /\ home[m] = t /\ client[c].seen.id = m
    BY <1>1, AtUpdate
  <1>3. /\ \A d \in Clients \ {c} : client'[d] = client[d]
        /\ client'[c].op = "usage" /\ client'[c].at = "put" /\ client'[c].m = m /\ client'[c].s = t
    BY <1>1, <1>2, <1>t, GoesOn DEF StoresTypes
  <1>4. tangled \subseteq tangled' /\ (Updating(m) # {c} => m \in tangled')
    BY <1>1, <1>2
  <1>5. stored \in [Sessions -> Seq(Entries)]
    BY <1>t DEF StoresTypes
  <1>6. /\ \A x : Inherits(x)
        /\ \A x : x # m => \A s \in Sessions : x \in Ids(s) => x \in Ids(s)'
        /\ m \notin tangled => \A s \in Sessions : Entry(s, m)' = {}
    <2>0. \A s \in Sessions : \A i \in Entry(s, m) : s = t
      BY <1>2, <1>t DEF Placed, Ids, Entry
    <2>1. ASSUME NEW k \in DOMAIN stored[t], stored[t][k] = client[c].seen,
                 stored' = [stored EXCEPT ![t] = RemoveAt(@, k)]
          PROVE  /\ \A x : Inherits(x)
                 /\ \A x : x # m => \A s \in Sessions : x \in Ids(s) => x \in Ids(s)'
                 /\ m \notin tangled => \A s \in Sessions : Entry(s, m)' = {}
      <3>1. stored[t][k].id = m
        BY <1>2, <2>1
      <3>2. \A x : Inherits(x)
        BY <1>5, <2>1, EntryGone
      <3>3. \A s \in Sessions : Ids(s) \subseteq Ids(s)' \cup {m}
        BY <1>5, <2>1, <3>1, EntryRemoved
      <3>4. ASSUME m \notin tangled, NEW s \in Sessions PROVE Entry(s, m)' = {}
        <4>1. k \in Entry(t, m)
          BY <2>1, <3>1 DEF Entry
        <4>2. Entry(t, m) = {k}
          BY <3>4, <4>1 DEF Listed, Single
        <4>3. CASE s = t
          BY <1>5, <2>1, <4>2, <4>3, EntryGone
        <4>4. CASE s # t
          <5>1. stored'[s] = stored[s] /\ Entry(s, m) = {}
            BY <2>0, <2>1, <4>4
          <5> QED
            BY <5>1 DEF Entry
        <4> QED
          BY <4>3, <4>4
      <3> QED
        BY <3>2, <3>3, <3>4
    <2>2. CASE client[c].seen \notin ToSet(stored[t]) /\ UNCHANGED stored
      <3>1. \A x : Inherits(x)
        BY <2>2, SameEntries
      <3>2. \A x, s : x \in Ids(s) => x \in Ids(s)'
        BY <2>2 DEF Ids
      <3>3. ASSUME m \notin tangled, NEW s \in Sessions, NEW i \in Entry(s, m) PROVE FALSE
        <4>1. c \in Updating(m)
          BY <1>1, <1>2 DEF Updating
        <4>2. stored[t][i] = client[c].seen /\ i \in DOMAIN stored[t]
          BY <1>1, <2>0, <3>3, <4>1 DEF Listed, Single, Entry
        <4> QED
          BY <2>2, <4>2 DEF ToSet
      <3>4. \A s \in Sessions : Entry(s, m)' = Entry(s, m)
        BY <2>2 DEF Entry
      <3> QED
        BY <3>1, <3>2, <3>3, <3>4
    <2> QED
      BY <1>2, <2>1, <2>2 DEF RemoveEntry
  <1>7. ASSUME NEW x \in Messages, x # m PROVE Single(x)' /\ Present(x)'
    BY <1>1, <1>2, <1>3, <1>4, <1>6, <1>7, OtherMessages
  <1>8. Present(m)'
    <2>1. c \in {d \in Clients : At(d, "usage", "put")' /\ client'[d].s = t} /\ client'[c].m = m
      BY <1>3 DEF At
    <2>2. m \in InHand(t)'
      BY <2>1 DEF InHand
    <2> QED
      BY <1>1, <1>2, <2>2 DEF Present
  <1>9. Single(m)'
    <2> SUFFICES ASSUME m \notin tangled' PROVE Single(m)'
      BY DEF Single
    <2>1. Updating(m) = {c} /\ m \notin tangled
      BY <1>4
    <2>2. Updating(m)' = {c}
      <3>1. \A d \in Clients \ {c} : d \in Updating(m)' <=> d \in Updating(m)
        BY <1>3 DEF Updating
      <3>2. c \in Updating(m)' /\ Updating(m)' \subseteq Clients
        BY <1>3 DEF Updating
      <3> QED
        BY <2>1, <3>1, <3>2
    <2>3. \A s \in Sessions : Entry(s, m)' = {}
      BY <1>6, <2>1
    <2>4. Placing(m)' \subseteq Updating(m)'
      BY DEF Placing, Updating, At
    <2> QED
      BY <2>2, <2>3, <2>4 DEF Single
  <1> QED
    BY <1>7, <1>8, <1>9 DEF Listed

\* The entry is put back: there was none.
LEMMA PutEntryLists ==
  ASSUME StoresInv, Listed, NEW c \in Clients, PutEntry(c)
  PROVE  Listed'
PROOF
  <1>t. StoresTypes
    BY DEF StoresInv
  <1>1. /\ At(c, "usage", "put") /\ client[c].op = "usage" /\ client[c].at = "put" /\ Return(c)
        /\ UNCHANGED <<home, acked, deleted, tangled>>
    BY DEF PutEntry, At
  <1>2. PICK m \in Messages, t \in Sessions :
            client[c].m = m /\ client[c].s = t /\ home[m] = t /\ client[c] \in Ops
    BY <1>1, AtUpdate
  <1>3. (\A d \in Clients \ {c} : client'[d] = client[d]) /\ client'[c] = Idle
    BY <1>1, Returns
  <1> DEFINE e == [id |-> m, usage |-> client[c].u]
  <1>4. e \in Entries /\ e.id = m /\ stored \in [Sessions -> Seq(Entries)]
    BY <1>2, <1>t DEF StoresTypes, Ops, Entries
  <1>5. stored' = [stored EXCEPT ![t] = IF Contains(stored[t], e) THEN stored[t] ELSE Append(stored[t], e)]
    BY <1>2 DEF PutEntry
  <1> HIDE DEF e
  <1>6. /\ \A x : x # m => Inherits(x)
        /\ (\A s \in Sessions : Entry(s, m) = {}) => \A s \in Sessions : \A i, j \in Entry(s, m)' : i = j
        /\ \A s \in Sessions : Ids(s) \subseteq Ids(s)'
        /\ m \in Ids(t)'
    <2>1. CASE Contains(stored[t], e)
      <3>1. stored' = stored
        BY <1>4, <1>5, <2>1
      <3>2. PICK i \in DOMAIN stored[t] : stored[t][i] = e
        <4>1. stored[t] \in Seq(Entries)
          BY <1>4
        <4> QED
          BY <2>1, <4>1 DEF Contains
      <3>3. \A s : Ids(s)' = Ids(s) /\ m \in Ids(t)
        BY <1>4, <3>1, <3>2 DEF Ids
      <3>4. (\A x : Inherits(x)) /\ \A s \in Sessions : Entry(s, m)' = Entry(s, m)
        BY <3>1, SameEntries DEF Entry
      <3> QED
        BY <3>3, <3>4
    <2>2. CASE ~Contains(stored[t], e)
      <3>1. stored' = [stored EXCEPT ![t] = Append(@, e)]
        BY <1>5, <2>2
      <3>2. \A s \in Sessions : Ids(s)' = IF s = t THEN Ids(s) \cup {m} ELSE Ids(s)
        BY <1>4, <3>1, EntryAdded
      <3>3. /\ \A x : x # m => Inherits(x)
            /\ (\A s \in Sessions : Entry(s, m) = {}) => \A s \in Sessions : \A i, j \in Entry(s, m)' : i = j
        BY <1>4, <3>1, EntryAfter
      <3> QED
        BY <3>2, <3>3
    <2> QED
      BY <2>1, <2>2
  <1>7. ASSUME NEW x \in Messages, x # m PROVE Single(x)' /\ Present(x)'
    <2>1. client'[c].op # "append"
      BY <1>3, IdleFields
    <2> QED
      BY <1>1, <1>2, <1>3, <1>6, <1>7, <2>1, OtherMessages
  <1>8. Present(m)'
    BY <1>1, <1>2, <1>6 DEF Present
  <1>9. Single(m)'
    <2> SUFFICES ASSUME m \notin tangled' PROVE Single(m)'
      BY DEF Single
    <2>1. c \in Placing(m) /\ m \notin tangled
      BY <1>1, <1>2 DEF Placing
    <2>2. Updating(m) = {c} /\ \A s \in Sessions : Entry(s, m) = {}
      BY <2>1 DEF Listed, Single
    <2>3. Updating(m)' = {}
      BY <1>3, <2>2, IdleFields DEF Updating
    <2>4. Placing(m)' = {}
      BY <2>3 DEF Placing, Updating, At
    <2> QED
      BY <1>6, <2>2, <2>3, <2>4 DEF Single
  <1> QED
    BY <1>7, <1>8, <1>9 DEF Listed

\* The places before a place i in a stable sort of n keys.
Lower(key, n, i) == {j \in 1..n : key[j] < key[i] \/ (key[j] = key[i] /\ j < i)}

\* A stable sort puts each of n places at a position of its own.
LEMMA Ranks ==
  ASSUME NEW n \in Nat, NEW key \in [1..n -> Nat]
  PROVE  \A k \in 1..n : \E i \in 1..n :
             /\ Cardinality(Lower(key, n, i)) = k - 1
             /\ \A j \in 1..n : Cardinality(Lower(key, n, j)) = k - 1 => j = i
PROOF
  <1> DEFINE rank == [i \in 1..n |-> Cardinality(Lower(key, n, i)) + 1]
  <1>1. IsFiniteSet(1..n) /\ Cardinality(1..n) = n
    BY FS_Interval
  <1>2. ASSUME NEW i \in 1..n
        PROVE  /\ IsFiniteSet(Lower(key, n, i)) /\ Cardinality(Lower(key, n, i)) \in Nat
               /\ Cardinality(Lower(key, n, i)) < n
    <2>1. Lower(key, n, i) \in SUBSET (1..n) /\ i \notin Lower(key, n, i)
      BY DEF Lower
    <2>2. /\ IsFiniteSet(Lower(key, n, i)) /\ Cardinality(Lower(key, n, i)) <= n
          /\ Cardinality(Lower(key, n, i)) # n
      BY <1>1, <2>1, FS_Subset
    <2>3. Cardinality(Lower(key, n, i)) \in Nat
      BY <2>2, FS_CardinalityType
    <2> QED
      BY <2>2, <2>3
  <1>3. ASSUME NEW i \in 1..n, NEW j \in 1..n, i \in Lower(key, n, j)
        PROVE  Cardinality(Lower(key, n, i)) < Cardinality(Lower(key, n, j))
    <2>1. Lower(key, n, i) \in SUBSET Lower(key, n, j)
      BY <1>3 DEF Lower
    <2>2. i \notin Lower(key, n, i)
      BY DEF Lower
    <2> QED
      BY <1>2, <1>3, <2>1, <2>2, FS_Subset
  <1>4. ASSUME NEW i \in 1..n, NEW j \in 1..n, i # j
        PROVE  Cardinality(Lower(key, n, i)) # Cardinality(Lower(key, n, j))
    <2>1. i \in Lower(key, n, j) \/ j \in Lower(key, n, i)
      BY <1>4 DEF Lower
    <2>2. Cardinality(Lower(key, n, i)) \in Nat /\ Cardinality(Lower(key, n, j)) \in Nat
      BY <1>2
    <2> QED
      BY <1>3, <2>1, <2>2
  <1>5. rank \in [1..n -> 1..n]
    BY <1>2
  <1>6. rank \in Injection(1..n, 1..n)
    <2>1. \A i, j \in 1..n : rank[i] = rank[j] => i = j
      BY <1>2, <1>4
    <2> QED
      BY <1>5, <2>1 DEF Injection, IsInjective
  <1>7. rank \in Surjection(1..n, 1..n)
    <2> HIDE DEF rank
    <2> QED
      BY <1>1, <1>6, FS_Injection
  <1>8. ASSUME NEW k \in 1..n
        PROVE  \E i \in 1..n : rank[i] = k
    <2> HIDE DEF rank
    <2> QED
      BY <1>7 DEF Surjection
  <1>9. ASSUME NEW k \in 1..n
        PROVE  \E i \in 1..n :
             /\ Cardinality(Lower(key, n, i)) = k - 1
             /\ \A j \in 1..n : Cardinality(Lower(key, n, j)) = k - 1 => j = i
    <2>1. PICK i \in 1..n : rank[i] = k
      BY <1>8
    <2>2. Cardinality(Lower(key, n, i)) = k - 1
      <3>1. rank[i] = Cardinality(Lower(key, n, i)) + 1 /\ Cardinality(Lower(key, n, i)) \in Nat
        BY <1>2
      <3> HIDE DEF rank
      <3> QED
        BY <2>1, <3>1
    <2>3. \A j \in 1..n : Cardinality(Lower(key, n, j)) = k - 1 => j = i
      BY <1>4, <2>2
    <2> QED
      BY <2>2, <2>3
  <1> QED
    BY <1>9

TimesListed(s, m) == Cardinality({i \in DOMAIN ListMessages(s) : ListMessages(s)[i].id = m})

\* A message with one entry is listed once.
LEMMA ListedAsStored ==
  ASSUME made \in Seq(Messages), stored \in [Sessions -> Seq(Entries)], NEW s \in Sessions,
         \A i \in DOMAIN stored[s] : \E n \in DOMAIN made : made[n] = stored[s][i].id,
         NEW m, NEW e, Entry(s, m) = {e}
  PROVE  TimesListed(s, m) = 1
PROOF
  <1> DEFINE q == stored[s]
             n == Len(q)
             key == [i \in 1..n |-> Created(q[i])]
             Place(k) == CHOOSE i \in 1..n : Cardinality(Lower(key, n, i)) = k - 1
  <1>1. q \in Seq(Entries) /\ n \in Nat /\ DOMAIN q = 1..n
    OBVIOUS
  <1>2. key \in [1..n -> Nat]
    <2>1. DOMAIN made \subseteq Nat
      OBVIOUS
    <2>2. ASSUME NEW i \in 1..n PROVE Created(q[i]) \in Nat
      BY <1>1, <2>1 DEF Created
    <2> QED
      BY <2>2
  <1>3. \A i \in 1..n : Before(s, i) = Lower(key, n, i)
    BY <1>1 DEF Before, Lower
  <1>4. e \in 1..n /\ q[e].id = m /\ \A i \in 1..n : q[i].id = m => i = e
    BY <1>1 DEF Entry
  <1>5. CASE backend = "memory"
    <2>1. {k \in DOMAIN ListMessages(s) : ListMessages(s)[k].id = m} = {e}
      BY <1>5 DEF ListMessages, Entry
    <2> QED
      BY <2>1, FS_Singleton DEF TimesListed
  <1>6. CASE backend # "memory"
    <2>1. ListMessages(s) = [k \in 1..n |-> q[Place(k)]]
      <3>1. \A k \in 1..n : (CHOOSE i \in 1..n : Cardinality(Before(s, i)) = k - 1) = Place(k)
        BY <1>3
      <3>2. ListMessages(s) = [k \in 1..n |-> q[CHOOSE i \in 1..n : Cardinality(Before(s, i)) = k - 1]]
        BY <1>1, <1>6 DEF ListMessages
      <3> QED
        BY <3>1, <3>2
    <2> HIDE DEF key, q, n
    <2>2. \A k \in 1..n : \E i \in 1..n :
             /\ Cardinality(Lower(key, n, i)) = k - 1
             /\ \A j \in 1..n : Cardinality(Lower(key, n, j)) = k - 1 => j = i
      BY <1>1, <1>2, Ranks
    <2>3. \A k \in 1..n : Place(k) \in 1..n /\ Cardinality(Lower(key, n, Place(k))) = k - 1
      BY <2>2
    <2>4. Lower(key, n, e) \in SUBSET (1..n) /\ e \notin Lower(key, n, e)
      BY <1>1, <1>2, <1>4 DEF Lower
    <2>5. IsFiniteSet(1..n) /\ Cardinality(1..n) = n
      BY <1>1, FS_Interval
    <2> DEFINE r == Cardinality(Lower(key, n, e))
    <2>6. r + 1 \in 1..n /\ r \in Nat
      <3>1. IsFiniteSet(Lower(key, n, e)) /\ r <= n /\ r # n
        BY <1>4, <2>4, <2>5, FS_Subset
      <3>2. r \in Nat
        BY <3>1, FS_CardinalityType
      <3> QED
        BY <1>1, <3>1, <3>2
    <2>7. Place(r + 1) = e
      <3>1. r = (r + 1) - 1
        BY <2>6
      <3> HIDE DEF r
      <3>2. Cardinality(Lower(key, n, e)) = (r + 1) - 1
        BY <3>1 DEF r
      <3>3. Cardinality(Lower(key, n, Place(r + 1))) = (r + 1) - 1 /\ Place(r + 1) \in 1..n
        BY <2>3, <2>6
      <3>4. PICK i \in 1..n : \A j \in 1..n : Cardinality(Lower(key, n, j)) = (r + 1) - 1 => j = i
        BY <2>2, <2>6
      <3> HIDE DEF Place
      <3> QED
        BY <1>4, <3>2, <3>3, <3>4
    <2>8. \A k \in 1..n : q[Place(k)].id = m => k = r + 1
      <3> SUFFICES ASSUME NEW k \in 1..n, q[Place(k)].id = m PROVE k = r + 1
        OBVIOUS
      <3>1. Place(k) = e
        BY <1>4, <2>3
      <3>2. r = k - 1
        BY <2>3, <3>1
      <3> HIDE DEF r, Place
      <3> QED
        BY <1>1, <3>2
    <2>9. {k \in DOMAIN ListMessages(s) : ListMessages(s)[k].id = m} = {r + 1}
      <3> HIDE DEF r, Place
      <3> QED
        BY <1>4, <2>1, <2>6, <2>7, <2>8
    <2> QED
      BY <2>9, FS_Singleton DEF TimesListed
  <1> QED
    BY <1>5, <1>6

\* The messages are made one by one.
LEMMA MadeStep ==
  ASSUME StoresInv, MadeKnown, [StoresNext]_storeVars
  PROVE  MadeKnown'
PROOF
  <1>1. CASE UNCHANGED <<made, home>>
    BY <1>1 DEF MadeKnown
  <1>2. ASSUME NEW c \in Clients, NEW m \in Messages, NEW s \in Sessions, BeginAppend(c, m, s)
        PROVE  MadeKnown'
    <2>1. /\ made' = Append(made, m) /\ made \in Seq(Messages) /\ made' \in Seq(Messages)
          /\ \A n \in DOMAIN made : n \in DOMAIN made' /\ made'[n] = made[n]
          /\ Len(made) + 1 \in DOMAIN made' /\ made'[Len(made) + 1] = m
      BY <1>2 DEF BeginAppend, MadeKnown
    <2>2. ASSUME NEW x \in Messages, home'[x] # None
          PROVE  x = m \/ home[x] # None
      BY <1>2, <2>2 DEF BeginAppend, StoresInv, StoresTypes
    <2>3. ASSUME NEW x \in Messages, home'[x] # None
          PROVE  \E n \in DOMAIN made' : made'[n] = x
      <3>1. CASE x = m
        BY <2>1, <3>1
      <3>2. CASE x # m
        <4>1. PICK n \in DOMAIN made : made[n] = x
          BY <2>2, <2>3, <3>2 DEF MadeKnown
        <4> QED
          BY <2>1, <4>1
      <3> QED
        BY <3>1, <3>2
    <2> QED
      BY <2>1, <2>3 DEF MadeKnown
  <1> QED
    BY <1>1, <1>2 DEF StoresNext, storeVars, CreateSession, AddRecord, DeleteCascading, DeleteSession,
       UpdateUsageAtOnce, LookUpMessage, InsertMessage, CheckSession, PushMessage, IndexMessage,
       TouchSession, DeleteMessages, DeleteRecords, WriteUsage, ReadEntry, RemoveEntry, PutEntry, CallFails

\* What the lists rely on.
ListInv == StoresInv /\ MadeKnown /\ Listed

LEMMA ListFirst == StoresInit => ListInv
PROOF
  <1> SUFFICES ASSUME StoresInit PROVE ListInv
    OBVIOUS
  <1>1. StoresInv
    BY StoresFirst
  <1>2. made = <<>> /\ \A m \in Messages : home[m] = None
    BY DEF StoresInit
  <1>3. MadeKnown
    <2>1. <<>> \in Seq(Messages)
      OBVIOUS
    <2> QED
      BY <1>2, <2>1 DEF MadeKnown
  <1>4. \A c \in Clients : client[c] = Idle
    BY DEF StoresInit
  <1>5. ASSUME NEW m \in Messages PROVE Single(m) /\ Present(m)
    <2>1. Updating(m) = {} /\ Placing(m) = {}
      BY <1>4, IdleFields DEF Updating, Placing, At
    <2>2. \A s \in Sessions : Entry(s, m) = {}
      <3>1. \A s \in Sessions : stored[s] = <<>>
        BY DEF StoresInit
      <3>2. \A s \in Sessions : DOMAIN stored[s] = {}
        BY <3>1
      <3> QED
        BY <3>2 DEF Entry
    <2>3. ~Held(m)
      BY <1>4, IdleFields DEF Held, StoresInit
    <2> QED
      BY <2>1, <2>2, <2>3 DEF Single, Present
  <1> QED
    BY <1>1, <1>3, <1>5 DEF ListInv, Listed

LEMMA ListStep == ListInv /\ [StoresNext]_storeVars => ListInv'
PROOF
  <1> SUFFICES ASSUME ListInv, [StoresNext]_storeVars PROVE ListInv'
    OBVIOUS
  <1>1. StoresInv /\ StoresInv' /\ MadeKnown /\ MadeKnown' /\ Listed
    BY StoresStep, MadeStep DEF Faithful, ListInv
  <1>2. CASE UNCHANGED storeVars
    <2>1. UNCHANGED <<client, acked, home, stored, tangled, deleted>>
      BY <1>2 DEF storeVars
    <2>2. \A m : Held(m)' => Held(m) /\ home'[m] = home[m] /\ home[m] \in Sessions
      BY <1>1, <2>1, HeldAtHome DEF Held
    <2>3. \A m, d : Aside(m, d)
      BY <2>1 DEF Aside
    <2>4. Listed'
      BY <1>1, <2>1, <2>2, <2>3, NothingTouched
    <2> QED
      BY <1>1, <2>4 DEF ListInv
  <1>3. CASE StoresNext
    <2>1. Listed'
      BY <1>1, <1>3, QuietSteps, InsertSteps, InPlaceSteps, ReadEntryLists, RemoveEntryLists, PutEntryLists
         DEF StoresNext
    <2> QED
      BY <1>1, <2>1 DEF ListInv
  <1> QED
    BY <1>2, <1>3

\* In every store, for any clients, sessions, messages and failing calls: a
\* message whose append returned Ok is listed once, until its session is
\* deleted, and unless two Redis updates met or one was cut off.
THEOREM MessagesAreListed == StoresSpec => []ListedOnce
PROOF
  <1>1. ListInv => ListedOnce
    <2> SUFFICES ASSUME ListInv, NEW m \in acked, home[m] \notin deleted, m \notin tangled, m \notin InHand(home[m])
                 PROVE  Cardinality({i \in DOMAIN ListMessages(home[m]) : ListMessages(home[m])[i].id = m}) = 1
      BY DEF ListedOnce
    <2>1. StoresInv /\ StoresTypes /\ Placed /\ MadeKnown /\ Held(m)
      BY DEF ListInv, StoresInv, Held
    <2>2. PICK s \in Sessions : m \in Messages /\ home[m] = s
      BY <2>1, HeldAtHome
    <2>3. Single(m) /\ Present(m)
      BY <2>2 DEF ListInv, Listed
    <2>4. m \in Ids(s)
      BY <2>1, <2>2, <2>3 DEF Present
    <2>5. PICK e \in DOMAIN stored[s] : stored[s][e].id = m
      BY <2>4 DEF Ids
    <2>6. Entry(s, m) = {e}
      <3>1. e \in Entry(s, m) /\ \A i \in Entry(s, m) : i = e
        BY <2>3, <2>5 DEF Single, Entry
      <3> QED
        BY <3>1
    <2>7. \A i \in DOMAIN stored[s] : \E n \in DOMAIN made : made[n] = stored[s][i].id
      <3> SUFFICES ASSUME NEW i \in DOMAIN stored[s] PROVE \E n \in DOMAIN made : made[n] = stored[s][i].id
        OBVIOUS
      <3>1. stored[s][i].id \in Messages /\ stored[s][i].id \in Ids(s)
        <4>1. stored[s] \in Seq(Entries)
          BY <2>1 DEF StoresTypes
        <4>2. stored[s][i] \in Entries
          BY <4>1
        <4> QED
          BY <4>2 DEF Entries, Ids
      <3>2. home[stored[s][i].id] # None
        BY <2>1, <3>1, StoresAssumption DEF Placed
      <3> QED
        BY <2>1, <3>1, <3>2 DEF MadeKnown
    <2>8. made \in Seq(Messages) /\ stored \in [Sessions -> Seq(Entries)]
      BY <2>1 DEF MadeKnown, StoresTypes
    <2>9. TimesListed(s, m) = 1
      BY <2>6, <2>7, <2>8, ListedAsStored
    <2> QED
      BY <2>2, <2>9 DEF TimesListed
  <1> QED
    BY <1>1, ListFirst, ListStep, PTL DEF StoresSpec
=============================================================================
