---------------------------- MODULE Settings_proofs ----------------------------
(***************************************************************************)
(* For any terminal, rate and parity and any number of openings: ports in  *)
(* use are configured as asked, the terminal is left as it was found, and  *)
(* every descriptor has one owner, which closes it.                        *)
(***************************************************************************)
EXTENDS Settings, SequenceTheorems, TLAPS

Speeds == {"1200", "2400", "4800", "9600", "19200", "38400", "57600", "115200"}
Values == Speeds \union {"8", "1", "set", "clear"} \union UNION {{t[a] : a \in Attributes} : t \in Terminals}
Config == [Attributes -> Values]
Asked == [rate : Speeds, parity : {"N", "O", "E"}]
Ports == [fd : Fds, file : Nat, backup : Config]
Builds == [fd : Fds \union {-1}, file : Nat, settings : Config \union {<<>>},
           backup : Config \union {<<>>}]

Building == stage \in {"get", "set", "check", "flush"}
Coming == stage \in {"pair", "move"} \/ Building

Types ==
  /\ term \in Config /\ found \in Config
  /\ stage \in Stages /\ spoilt \in BOOLEAN /\ opens \in 0 .. MaxOpens
  /\ stage # "idle" => asked \in Asked
  /\ locals \in Seq(Fds \union {-1}) /\ Len(locals) <= 2
  /\ ports \in Seq(Ports) /\ Len(ports) <= Len(locals)
  /\ files \in [Fds -> 0 .. opens]
  /\ build \in Builds
  /\ Building => build.fd \in Fds
  /\ ~Building => build = NoBuild
  /\ stage \in {"set", "check", "flush"} => build.settings \in Config /\ build.backup \in Config

\* How many guards and ports there are in each stage.
Placed ==
  /\ stage = "idle" => locals = <<>> /\ ports = <<>>
  /\ stage = "pair" => ports = <<>> /\ Len(locals) = 1
  /\ stage = "move" \/ Building => Len(ports) < Len(locals)
  /\ stage = "up" => ports # <<>>

\* While ports are constructed, the guards of those that are done have been
\* moved from, and the others hold a descriptor.
Moved == Len(ports) + (IF Building THEN 1 ELSE 0)
Passed ==
  Coming => \A k \in 1 .. Len(locals) : locals[k] = -1 <=> k <= Moved

\* Every open descriptor has an owner, and no two owners the same one.
Owned(fd) == \/ \E k \in 1 .. Len(locals) : locals[k] = fd
             \/ build.fd = fd
             \/ \E k \in 1 .. Len(ports) : ports[k].fd = fd
Held ==
  /\ \A fd \in Fds : files[fd] # None => Owned(fd)
  /\ \A k \in 1 .. Len(locals) : locals[k] # -1 => files[locals[k]] # None
  /\ \A k \in 1 .. Len(ports) : files[ports[k].fd] = ports[k].file /\ ports[k].file # None
  /\ Building => files[build.fd] = build.file /\ build.file # None
Alone ==
  /\ \A i, j \in 1 .. Len(locals) : locals[i] = locals[j] => i = j \/ locals[i] = -1
  /\ \A i \in 1 .. Len(locals), j \in 1 .. Len(ports) : locals[i] # ports[j].fd
  /\ \A i, j \in 1 .. Len(ports) : ports[i].fd = ports[j].fd => i = j
  /\ Building => /\ \A i \in 1 .. Len(locals) : locals[i] # build.fd
                 /\ \A i \in 1 .. Len(ports) : ports[i].fd # build.fd

\* The first port saves what was found, and until it has set anything the
\* terminal is as it was.
Saved ==
  /\ Coming => ~spoilt
  /\ ports # <<>> => ports[1].backup = found
  /\ ports = <<>> /\ stage \in {"set", "check", "flush"} => build.backup = found
  /\ ports = <<>> /\ stage \notin {"check", "flush", "dead"} /\ ~spoilt => term = found
  /\ stage = "dead" => spoilt

\* What is being set is what was asked for.
Asks ==
  /\ stage \in {"set", "check", "flush"} => build.settings = modifySettings(build.backup, asked)
  /\ stage = "flush" => term = build.settings

IInv == Types /\ Placed /\ Passed /\ Held /\ Alone /\ Saved /\ Asks /\ Configured

-----------------------------------------------------------------------------
(* The settings.                                                           *)

LEMMA Spelled ==
  ASSUME NEW rate \in Rates, NEW parity \in Parities
  PROVE  [rate |-> toBaudRate(rate), parity |-> toParity(parity)] \in Asked
BY DEF toBaudRate, toParity, Asked, Speeds

LEMMA ModifyType ==
  ASSUME NEW s \in Config, NEW ask \in Asked
  PROVE  modifySettings(s, ask) \in Config
<1>1. \A a \in Attributes \ {"rest"} : Given(ask)[a] \in Speeds \union {"8", "1", "set", "clear"}
  BY DEF Asked, Attributes, Given
<1>2. "rest" \in Kept(ask) /\ Speeds \union {"8", "1", "set", "clear"} \subseteq Values
  BY DEF Kept, Values
<1> QED
  BY <1>1, <1>2 DEF modifySettings, Config

\* Setting the same again changes nothing.
LEMMA ModifyTwice ==
  ASSUME NEW s \in Config, NEW ask
  PROVE  modifySettings(modifySettings(s, ask), ask) = modifySettings(s, ask)
BY DEF modifySettings, Config

LEMMA CarriedType ==
  ASSUME NEW old \in Config, NEW new \in Config, NEW t \in Carried(old, new)
  PROVE  t \in Config
BY DEF Carried, Config

\* Ports and guards are what their sequences say.
LEMMA Numbers ==
  ASSUME Types
  PROVE  /\ \A k \in 1 .. Len(ports) : ports[k] \in Ports /\ ports[k].fd \in Fds /\ ports[k].fd # -1
         /\ \A k \in 1 .. Len(locals) : locals[k] \in Fds \union {-1}
         /\ Len(ports) \in Nat /\ Len(locals) \in Nat /\ -1 \notin Fds
<1>1. -1 \notin Fds
  BY SettingsConstants DEF Fds
<1>2. \A k \in 1 .. Len(ports) : ports[k] \in Ports
  BY ElementOfSeq DEF Types
<1>3. \A k \in 1 .. Len(locals) : locals[k] \in Fds \union {-1}
  BY ElementOfSeq, Zenon DEF Types
<1>4. Len(ports) \in Nat /\ Len(locals) \in Nat
  BY DEF Types
<1> QED
  BY <1>1, <1>2, <1>3, <1>4 DEF Ports

LEMMA InitIInv == Init => IInv
<1> SUFFICES ASSUME Init PROVE IInv
  OBVIOUS
<1>1. term \in Config
  BY SettingsConstants DEF Init, Config, Values
<1>2. locals \in Seq(Fds \union {-1}) /\ ports \in Seq(Ports) /\ Len(locals) = 0 /\ Len(ports) = 0
  BY EmptySeq DEF Init
<1>3. build \in Builds
  BY DEF Init, NoBuild, Builds, None
<1>4. files \in [Fds -> 0 .. opens] /\ opens \in 0 .. MaxOpens
  BY SettingsConstants DEF Init, None
<1>5. spoilt \in BOOLEAN
  BY Zenon DEF Init
<1>6. Types
  BY <1>1, <1>2, <1>3, <1>4, <1>5 DEF Init, Types, Building, Stages
<1> QED
  BY <1>1, <1>2, <1>6, SettingsConstants
     DEF Init, IInv, Placed, Passed, Held, Alone, Saved, Asks, Configured, Building, Coming, Fds, None

-----------------------------------------------------------------------------
(* Opening.                                                                *)

LEMMA OpenIInv ==
  ASSUME IInv, Open
  PROVE  IInv'
<1> USE DEF IInv
<1>1. PICK fd \in Free : locals' = <<fd>> /\ Opened(fd)
  BY DEF Open
<1>2. fd \in Fds /\ fd # -1 /\ files[fd] = None
  BY <1>1, SettingsConstants DEF Free, Fds
<1>3. locals' \in Seq(Fds \union {-1}) /\ Len(locals') = 1 /\ locals'[1] = fd
  BY <1>1, <1>2
<1>4. asked' \in Asked
  BY Spelled DEF Open
<1>5. stage = "idle" /\ ports = <<>> /\ ports' = <<>> /\ Len(ports) = 0 /\ locals = <<>> /\ Len(locals) = 0
  BY DEF Open, Placed
<1>6. build = NoBuild /\ build' = NoBuild /\ NoBuild.fd = -1
  BY <1>5 DEF Types, Building, Open, NoBuild
<1>7. Types'
  <2>1. opens' \in 0 .. MaxOpens /\ files' \in [Fds -> 0 .. opens']
    BY <1>1, <1>2, SettingsConstants DEF Open, Opened, Types
  <2>2. stage' \in {"move", "pair"} /\ spoilt' \in BOOLEAN /\ term' = term /\ found' = term
    BY Zenon DEF Open
  <2> QED
    BY <1>3, <1>4, <1>5, <1>6, <2>1, <2>2 DEF Types, Building, Stages
<1>8. Held'
  BY <1>1, <1>2, <1>3, <1>5, <1>6, SettingsConstants
     DEF Types, Open, Opened, Held, Owned, Building, Fds, None
<1> QED
  BY <1>2, <1>3, <1>5, <1>7, <1>8
     DEF Open, Types, Placed, Passed, Moved, Alone, Saved, Asks, Configured, Building, Coming, Fds

LEMMA OpenSlaveIInv ==
  ASSUME IInv, OpenSlave
  PROVE  IInv'
<1> USE DEF IInv
<1>1. PICK fd \in Free : locals' = Append(locals, fd) /\ Opened(fd)
  BY DEF OpenSlave
<1>2. fd \in Fds /\ fd # -1 /\ files[fd] = None
  BY <1>1, SettingsConstants DEF Free, Fds
<1>3. ports = <<>> /\ ports' = <<>> /\ Len(ports) = 0 /\ Len(locals) = 1 /\ stage = "pair" /\ stage' = "move"
  BY DEF OpenSlave, Placed
<1>4. /\ locals' \in Seq(Fds \union {-1}) /\ Len(locals') = 2
      /\ locals'[1] = locals[1] /\ locals'[2] = fd
  <2> DEFINE S == Fds \union {-1}
  <2>1. locals \in Seq(S) /\ fd \in S
    BY <1>2, Zenon DEF Types
  <2> HIDE DEF S
  <2>2. /\ Append(locals, fd) \in Seq(S) /\ Len(Append(locals, fd)) = Len(locals) + 1
        /\ \A i \in 1 .. Len(locals) : Append(locals, fd)[i] = locals[i]
        /\ Append(locals, fd)[Len(locals) + 1] = fd
    BY <2>1, AppendProperties
  <2> QED
    BY <1>1, <1>3, <2>2 DEF S
<1>5. build = NoBuild /\ build' = NoBuild /\ NoBuild.fd = -1
  BY <1>3 DEF Types, Building, OpenSlave, NoBuild
<1>6. Types'
  BY <1>1, <1>2, <1>3, <1>4, <1>5, SettingsConstants
     DEF OpenSlave, Opened, Types, Building, Stages, Free, Fds
<1>7. locals[1] \in Fds /\ locals[1] # fd /\ files[locals[1]] # None
  <2>1. locals[1] # -1
    BY <1>3 DEF Passed, Moved, Coming, Building
  <2>2. locals[1] \in Fds \union {-1}
    BY <1>3, Numbers
  <2> QED
    BY <1>2, <1>3, <2>1, <2>2 DEF Held
<1>8. Held'
  <2>1. \A f \in Fds : files'[f] = IF f = fd THEN opens + 1 ELSE files[f]
    BY <1>1, <1>2 DEF Opened, Types
  <2>2. \A f \in Fds : files[f] # None => locals[1] = f
    BY <1>3, <1>5, SettingsConstants DEF Held, Owned, Fds, Types
  <2> QED
    BY <1>2, <1>3, <1>4, <1>5, <1>7, <2>1, <2>2, SettingsConstants
       DEF Types, Held, Owned, Building, Fds, None
<1>9. Alone'
  BY <1>2, <1>3, <1>4, <1>7 DEF Alone, Building, Fds
<1>10. Placed' /\ Passed'
  BY <1>2, <1>3, <1>4, <1>7, SettingsConstants DEF Placed, Passed, Moved, Coming, Building, Fds, Types
<1> QED
  BY <1>3, <1>6, <1>8, <1>9, <1>10 DEF OpenSlave, Saved, Asks, Configured, Coming, Building

LEMMA OpenSlaveFailsIInv ==
  ASSUME IInv, OpenSlaveFails
  PROVE  IInv'
<1> USE DEF IInv
<1>1. Types'
  BY DEF OpenSlaveFails, Types, Building, Stages
<1> QED
  BY <1>1 DEF OpenSlaveFails, Types, Placed, Passed, Moved, Held, Owned, Alone, Saved, Asks, Configured,
              Building, Coming

-----------------------------------------------------------------------------
(* The constructor.                                                        *)

LEMMA MoveIInv ==
  ASSUME IInv, Move
  PROVE  IInv'
<1> USE DEF IInv
<1> DEFINE n == Len(ports) + 1
           fd == locals[n]
<1>1. stage = "move" /\ stage' = "get" /\ n \in 1 .. Len(locals) /\ Len(locals) \in Nat /\ Len(ports) \in Nat
  BY DEF Move, Placed, Types
<1>2. fd \in Fds /\ fd # -1 /\ files[fd] # None
  BY <1>1 DEF Passed, Moved, Coming, Building, Types, Held
<1>3. locals' = [locals EXCEPT ![n] = -1] /\ ports' = ports /\ files' = files
  BY DEF Move, MovedFrom
<1>4. locals' \in Seq(Fds \union {-1}) /\ Len(locals') = Len(locals)
  BY <1>1, <1>3, ExceptSeq DEF Types
<1>5. \A k \in 1 .. Len(locals) : locals'[k] = IF k = n THEN -1 ELSE locals[k]
  BY <1>1, <1>3 DEF Types
<1>6. build'.fd = fd /\ build'.file = files[fd] /\ build' \in Builds /\ build.fd = -1
  <2>1. build' = [fd |-> fd, file |-> files[fd], settings |-> <<>>, backup |-> <<>>]
    BY DEF Move, NoBuild
  <2>2. files[fd] \in Nat /\ build = NoBuild
    BY <1>1, <1>2 DEF Types, Building
  <2> QED
    BY <1>2, <2>1, <2>2 DEF Builds, NoBuild
<1>7. Types'
  BY <1>1, <1>2, <1>3, <1>4, <1>6 DEF Move, Types, Building, Stages
<1>8. Placed' /\ Passed'
  BY <1>1, <1>2, <1>3, <1>4, <1>5 DEF Placed, Passed, Moved, Coming, Building
<1>9. Held'
  <2>1. \A f \in Fds : files[f] # None => Owned(f)'
    BY <1>1, <1>3, <1>4, <1>5, <1>6, SettingsConstants DEF Held, Owned, Fds
  <2> QED
    BY <1>1, <1>2, <1>3, <1>4, <1>5, <1>6, <2>1 DEF Held, Building
<1>10. Alone'
  <2>1. \A k \in 1 .. Len(locals) : locals'[k] # fd
    BY <1>1, <1>2, <1>5 DEF Alone
  <2> QED
    BY <1>1, <1>2, <1>3, <1>4, <1>5, <1>6, <2>1, Numbers DEF Alone, Building
<1> QED
  BY <1>1, <1>3, <1>7, <1>8, <1>9, <1>10 DEF Move, Saved, Asks, Configured, Coming, Building

LEMMA BackupIInv ==
  ASSUME IInv, Backup
  PROVE  IInv'
<1> USE DEF IInv
<1>1. /\ build'.fd = build.fd /\ build'.file = build.file /\ build' \in Builds
      /\ build'.settings = modifySettings(term, asked) /\ build'.backup = term
  BY ModifyType DEF Backup, Builds, Types
<1>2. modifySettings(term, asked) \in Config
  BY ModifyType DEF Backup, Types
<1>3. Types'
  BY <1>1, <1>2 DEF Backup, Types, Building, Stages
<1>4. stage' = "set" /\ UNCHANGED <<term, asked, locals, ports, files, opens, found, spoilt>>
  BY DEF Backup
<1>6. Placed' /\ Passed' /\ Alone'
  BY <1>1, <1>4 DEF Backup, Placed, Passed, Moved, Alone, Building, Coming
<1>7. Saved'
  BY <1>1, <1>4 DEF Backup, Saved, Coming, Building
<1>8. Asks' /\ Configured'
  BY <1>1, <1>4 DEF Asks, Configured
<1>5. Held'
  BY <1>1 DEF Backup, Held, Owned, Building
<1> QED
  BY <1>3, <1>5, <1>6, <1>7, <1>8

LEMMA SetAttrIInv ==
  ASSUME IInv, SetAttr
  PROVE  IInv'
<1> USE DEF IInv
<1>1. term' \in Config
  BY CarriedType DEF SetAttr, Types
<1>2. Types'
  BY <1>1 DEF SetAttr, Types, Building, Stages
<1> QED
  BY <1>2 DEF SetAttr, Types, Placed, Passed, Moved, Held, Owned, Alone, Saved, Asks, Configured,
              Building, Coming

LEMMA CheckIInv ==
  ASSUME IInv, Check
  PROVE  IInv'
<1> USE DEF IInv
<1>1. Types'
  BY DEF Check, Types, Building, Stages
<1> QED
  BY <1>1 DEF Check, Types, Placed, Passed, Moved, Held, Owned, Alone, Saved, Asks, Configured,
              Building, Coming

LEMMA ConstructedIInv ==
  ASSUME IInv, Constructed
  PROVE  IInv'
<1> USE DEF IInv
<1> DEFINE n == Len(ports) + 1
           port == [fd |-> build.fd, file |-> build.file, backup |-> build.backup]
<1>1. stage = "flush" /\ n <= Len(locals) /\ n \in Nat /\ Len(locals) \in Nat
  BY Numbers DEF Constructed, Placed, Building
<1>2. build.fd \in Fds /\ build.file \in Nat /\ build.backup \in Config /\ build.file # None
      /\ files[build.fd] = build.file
  BY <1>1 DEF Types, Builds, Building, Held
<1>3. port \in Ports
  BY <1>2 DEF Ports
<1>4. /\ ports' \in Seq(Ports) /\ Len(ports') = n /\ ports'[n] = port
      /\ \A k \in 1 .. Len(ports) : ports'[k] = ports[k]
  BY <1>3, AppendProperties DEF Constructed, Types
<1>5. build' = NoBuild /\ NoBuild.fd = -1 /\ NoBuild \in Builds
  BY DEF Constructed, NoBuild, Builds, None
<1>6. UNCHANGED <<term, asked, locals, opens, found, spoilt>> /\ stage' \in {"move", "up"}
      /\ (stage' = "move" => n < Len(locals))
  BY <1>1 DEF Constructed
<1>7. \A k \in 1 .. Len(locals) : locals[k] = -1 <=> k <= n
  BY <1>1 DEF Passed, Moved, Coming, Building
<1>8. files' = files
  <2>1. CASE n < Len(locals)
    BY <2>1 DEF Constructed
  <2>2. CASE ~(n < Len(locals))
    <3>1. \A k \in 1 .. Len(locals) : locals[k] = -1
      BY <1>1, <1>7, <2>2
    <3>2. \A f \in Fds : ~ \E k \in 1 .. Len(locals) : locals[k] = f
      BY <3>1, Numbers
    <3>3. files' = [f \in Fds |-> files[f]]
      BY <2>2, <3>2 DEF Constructed
    <3> QED
      BY <3>3 DEF Types
  <2> QED
    BY <2>1, <2>2
<1>9. Types'
  BY <1>1, <1>4, <1>5, <1>6, <1>8 DEF Types, Building, Stages
<1>10. Placed' /\ Passed'
  BY <1>1, <1>4, <1>5, <1>6, <1>7 DEF Placed, Passed, Moved, Coming, Building
<1>11. Held'
  <2>1. \A f \in Fds : files[f] # None => Owned(f)'
    <3> SUFFICES ASSUME NEW f \in Fds, files[f] # None PROVE Owned(f)'
      OBVIOUS
    <3>1. CASE build.fd = f
      <4>1. ports'[n].fd = f /\ n \in 1 .. Len(ports')
        BY <1>1, <1>4, <3>1, Numbers
      <4> QED
        BY <4>1 DEF Owned
    <3>2. CASE build.fd # f
      BY <1>1, <1>4, <1>6, <3>2 DEF Held, Owned
    <3> QED
      BY <3>1, <3>2
  <2>2. \A k \in 1 .. Len(ports') : files[ports'[k].fd] = ports'[k].file /\ ports'[k].file # None
    <3> SUFFICES ASSUME NEW k \in 1 .. Len(ports')
                 PROVE  files[ports'[k].fd] = ports'[k].file /\ ports'[k].file # None
      OBVIOUS
    <3>1. k \in 1 .. Len(ports) \/ k = n
      BY <1>1, <1>4, Numbers
    <3> QED
      BY <1>2, <1>4, <3>1 DEF Held
  <2> QED
    BY <1>1, <1>6, <1>8, <2>1, <2>2 DEF Held, Building
<1>12. Alone'
  <2>1. \A k \in 1 .. Len(ports') : k \in 1 .. Len(ports) \/ k = n
    BY <1>1, <1>4, Numbers
  <2> QED
    BY <1>1, <1>4, <1>6, <2>1 DEF Alone, Building
<1>13. Configured'
  <2>1. term = modifySettings(build.backup, asked)
    BY <1>1 DEF Asks
  <2>2. modifySettings(term, asked) = term
    BY <1>1, <1>2, <2>1, ModifyTwice
  <2> QED
    BY <1>6, <2>2 DEF Configured
<1>14. Saved'
  <2>1. CASE ports = <<>>
    <3>0. n = 1
      BY <2>1, EmptySeq
    <3>1. n = 1 /\ ports' # <<>>
      BY <1>4, <3>0, EmptySeq
    <3>2. build.backup = found
      BY <1>1, <2>1 DEF Saved
    <3>3. ports'[1].backup = found
      BY <1>4, <3>1, <3>2
    <3> QED
      BY <1>1, <1>6, <3>1, <3>3 DEF Saved, Coming, Building
  <2>2. CASE ports # <<>>
    <3>1. 1 \in 1 .. Len(ports)
      BY <2>2, EmptySeq DEF Types
    <3> QED
      BY <1>1, <1>4, <1>6, <2>2, <3>1 DEF Saved, Coming, Building
  <2> QED
    BY <2>1, <2>2
<1>15. Asks'
  BY <1>6 DEF Asks
<1> QED
  BY <1>9, <1>10, <1>11, <1>12, <1>13, <1>14, <1>15

LEMMA ConstructorThrowsIInv ==
  ASSUME IInv, ConstructorThrows
  PROVE  IInv'
<1> USE DEF IInv
<1>1. Building /\ stage' = "throw" /\ UNCHANGED <<term, asked, locals, ports, opens, found>>
  BY DEF ConstructorThrows, Building
<1>2. build.fd \in Fds /\ build' = NoBuild /\ NoBuild.fd = -1 /\ NoBuild \in Builds
  BY <1>1 DEF ConstructorThrows, NoBuild, Builds, None, Types
<1>3. files' \in [Fds -> 0 .. opens] /\ \A f \in Fds : files'[f] = IF f = build.fd THEN None ELSE files[f]
  BY <1>2, SettingsConstants DEF ConstructorThrows, Closed, None, Types
<1>4. spoilt' \in BOOLEAN
  BY Zenon DEF ConstructorThrows
<1>5. Types'
  BY <1>1, <1>2, <1>3, <1>4 DEF Types, Building, Stages
<1>6. Placed' /\ Passed'
  BY <1>1 DEF Placed, Passed, Building, Coming
<1>7. Held'
  <2>1. \A f \in Fds : files'[f] # None => Owned(f)'
    BY <1>1, <1>2, <1>3 DEF Held, Owned
  <2> QED
    BY <1>1, <1>2, <1>3, <2>1, Numbers DEF Held, Alone, Building
<1>8. Alone'
  BY <1>1 DEF Alone, Building
<1>9. Saved'
  <2>1. ports = <<>> /\ ~spoilt' => stage \notin {"check", "flush"} /\ ~spoilt
    BY Zenon DEF ConstructorThrows
  <2> QED
    BY <1>1, <2>1 DEF Saved, Coming, Building
<1> QED
  BY <1>1, <1>5, <1>6, <1>7, <1>8, <1>9 DEF Asks, Configured

-----------------------------------------------------------------------------
(* The end.                                                                *)

LEMMA DownIInv ==
  ASSUME IInv, Down
  PROVE  IInv'
<1> USE DEF IInv
<1>1. Types'
  BY DEF Down, Types, Building, Stages
<1> QED
  BY <1>1 DEF Down, Types, Placed, Passed, Moved, Held, Owned, Alone, Saved, Asks, Configured,
              Building, Coming

LEMMA DestroyIInv ==
  ASSUME IInv, Destroy
  PROVE  IInv'
<1> USE DEF IInv
<1> DEFINE n == Len(ports)
<1>1. stage \in {"down", "throw"} /\ UNCHANGED <<stage, asked, locals, build, opens, found>>
  BY DEF Destroy
<1>2. n \in Nat /\ 1 <= n /\ n <= 2 /\ n <= Len(locals) /\ Len(locals) \in Nat
  <2>1. ports # <<>>
    BY DEF Destroy
  <2>2. /\ ports \in Seq(Ports) /\ locals \in Seq(Fds \union {-1})
        /\ Len(ports) <= Len(locals) /\ Len(locals) <= 2
    BY Zenon DEF Types, IInv
  <2> QED
    BY <2>1, <2>2, EmptySeq
<1>3. Top \in Ports /\ Top.fd \in Fds /\ Top.backup \in Config /\ Top = ports[n]
  BY <1>2, Numbers DEF Top, Ports
<1>4. /\ ports' \in Seq(Ports) /\ Len(ports') = n - 1
      /\ \A k \in 1 .. n - 1 : ports'[k] = ports[k]
  <2>1. \A i \in 1 .. n - 1 : ports[i] \in Ports
    BY <1>2, Numbers
  <2> DEFINE m == n - 1
  <2>2. m \in Nat /\ (\A i \in 1 .. m : ports[i] \in Ports) /\ ports' = SubSeq(ports, 1, m)
    BY <1>2, <2>1 DEF Destroy
  <2> HIDE DEF m
  <2>3. /\ SubSeq(ports, 1, m) \in Seq(Ports)
        /\ Len(SubSeq(ports, 1, m)) = IF 1 <= m THEN m - 1 + 1 ELSE 0
        /\ \A i \in 1 .. m - 1 + 1 : SubSeq(ports, 1, m)[i] = ports[1 + i - 1]
    BY <2>2, SubSeqProperties
  <2>4. Len(ports') = m /\ \A k \in 1 .. m : ports'[k] = ports[k]
    BY <2>2, <2>3
  <2> QED
    BY <2>2, <2>3, <2>4 DEF m
<1>5. files' \in [Fds -> 0 .. opens] /\ \A f \in Fds : files'[f] = IF f = Top.fd THEN None ELSE files[f]
  BY <1>3, SettingsConstants DEF Destroy, Closed, None, Types
<1>6. term' \in Config
  BY <1>3, CarriedType DEF Destroy, Types
<1>7. spoilt' \in BOOLEAN
  BY Zenon DEF Destroy, Types, IInv
<1>8. Types'
  BY <1>1, <1>2, <1>4, <1>5, <1>6, <1>7 DEF Types, Building
<1>9. Placed' /\ Passed'
  BY <1>1 DEF Placed, Passed, Building, Coming
<1>10. Held'
  <2>1. \A f \in Fds : files'[f] # None => Owned(f)'
    <3> SUFFICES ASSUME NEW f \in Fds, files'[f] # None PROVE Owned(f)'
      OBVIOUS
    <3>1. f # ports[n].fd /\ Owned(f)
      BY <1>3, <1>5 DEF Held
    <3>2. ASSUME NEW k \in 1 .. n, ports[k].fd = f PROVE k \in 1 .. n - 1
      BY <1>2, <3>1, <3>2
    <3> QED
      BY <1>1, <1>4, <3>1, <3>2 DEF Owned
  <2>2. \A k \in 1 .. Len(locals) : locals[k] # Top.fd
    BY <1>2, <1>3 DEF Alone
  <2>3. \A k \in 1 .. n - 1 : ports[k].fd \in Fds /\ ports[k].fd # Top.fd
    BY <1>2, <1>3, Numbers DEF Alone
  <2>4. \A k \in 1 .. Len(locals) : locals[k] # -1 => locals[k] \in Fds
    BY Numbers
  <2>5. \A k \in 1 .. Len(locals) : locals[k] # -1 => files'[locals[k]] # None
    BY <1>5, <2>2, <2>4 DEF Held
  <2>6. \A k \in 1 .. n - 1 : files'[ports[k].fd] = ports[k].file /\ ports[k].file # None
    BY <1>2, <1>5, <2>3 DEF Held
  <2> QED
    BY <1>1, <1>2, <1>4, <2>1, <2>5, <2>6 DEF Held, Building
<1>11. Alone'
  BY <1>1, <1>2, <1>4 DEF Alone, Building
<1>12. Saved'
  <2>1. CASE n = 1
    <3>1. Top.backup = found /\ ports' = <<>>
      <4>1. ports # <<>> => ports[1].backup = found
        BY Zenon DEF Saved
      <4>2. ports # <<>> /\ Top = ports[1]
        BY <1>3, <2>1 DEF Destroy
      <4>3. ports' = <<>>
        BY <1>4, <2>1, EmptySeq
      <4> QED
        BY <4>1, <4>2, <4>3
    <3>2. ~spoilt' => term' = Top.backup
      BY <2>1, Zenon DEF Destroy
    <3> QED
      BY <1>1, <3>1, <3>2 DEF Saved, Coming, Building
  <2>2. CASE n # 1
    <3>1. ports' # <<>> /\ ports'[1] = ports[1] /\ ports # <<>>
      BY <1>2, <1>4, <2>2, EmptySeq DEF Types
    <3> QED
      BY <1>1, <3>1 DEF Saved, Coming, Building
  <2> QED
    BY <2>1, <2>2
<1> QED
  BY <1>1, <1>8, <1>9, <1>10, <1>11, <1>12 DEF Asks, Configured

LEMMA DestructorThrowsIInv ==
  ASSUME IInv, DestructorThrows
  PROVE  IInv'
<1> USE DEF IInv
<1>1. Types'
  BY DEF DestructorThrows, Types, Building, Stages
<1> QED
  BY <1>1 DEF DestructorThrows, Types, Placed, Passed, Moved, Held, Owned, Alone, Saved, Asks,
              Configured, Building, Coming

LEMMA EndIInv ==
  ASSUME IInv, End
  PROVE  IInv'
<1> USE DEF IInv
<1>1. stage \in {"down", "throw"} /\ stage' = "idle" /\ UNCHANGED <<term, asked, build, ports, opens, found, spoilt>>
  BY DEF End
<1>2. ports = <<>> /\ Len(ports) = 0 /\ locals' = <<>> /\ Len(locals') = 0 /\ locals' \in Seq(Fds \union {-1})
  BY EmptySeq DEF End
<1>3. build = NoBuild /\ NoBuild.fd = -1
  BY <1>1 DEF Types, Building, NoBuild
<1>4. files' \in [Fds -> 0 .. opens] /\ \A f \in Fds : files'[f] = None
  <2>1. \A f \in Fds : files[f] # None => \E k \in 1 .. Len(locals) : locals[k] = f
    BY <1>2, <1>3, Numbers DEF Held, Owned
  <2> QED
    BY <2>1, SettingsConstants DEF End, None, Types
<1>5. Types'
  BY <1>1, <1>2, <1>4 DEF Types, Building, Stages
<1>6. Held' /\ Alone'
  BY <1>1, <1>2, <1>4 DEF Held, Alone, Building
<1>7. Saved'
  BY <1>1, <1>2 DEF Saved, Coming, Building
<1> QED
  BY <1>1, <1>2, <1>5, <1>6, <1>7 DEF Placed, Passed, Building, Coming, Asks, Configured

-----------------------------------------------------------------------------
(* The theorems.                                                           *)

LEMMA StepIInv == IInv /\ [Next]_vars => IInv'
<1> SUFFICES ASSUME IInv, [Next]_vars PROVE IInv'
  OBVIOUS
<1>1. CASE UNCHANGED vars
  BY <1>1 DEF vars, IInv, Types, Placed, Passed, Moved, Held, Owned, Alone, Saved, Asks, Configured,
              Building, Coming
<1>2. CASE Next
  BY <1>2, OpenIInv, OpenSlaveIInv, OpenSlaveFailsIInv, MoveIInv, BackupIInv, SetAttrIInv, CheckIInv,
     ConstructedIInv, ConstructorThrowsIInv, DownIInv, DestroyIInv, DestructorThrowsIInv, EndIInv
     DEF Next
<1> QED
  BY <1>1, <1>2

\* The invariant that the properties follow from.
THEOREM Invariant == Spec => []IInv
<1> QED
  BY InitIInv, StepIInv, PTL DEF Spec

\* A port under construction and the ports that are up have the types of the
\* code's members; none is left when no port is in use.  (SerialPort, FdGuard.)
THEOREM TypeCorrect == Spec => []TypeOK
<1>1. IInv => TypeOK
  <2> SUFFICES ASSUME IInv PROVE TypeOK
    OBVIOUS
  <2>1. DOMAIN term = DOMAIN found
    BY DEF IInv, Types, Config
  <2>2. Building <=> build # NoBuild
    <3>1. NoBuild.fd = -1 /\ -1 \notin Fds
      BY Numbers DEF NoBuild, IInv
    <3> QED
      BY <3>1 DEF IInv, Types
  <2>3. \A k \in 1 .. Len(locals) : locals[k] \in Fds \union {-1}
    BY Numbers, Zenon DEF IInv
  <2>4. \A k \in 1 .. Len(ports) : ports[k].fd \in Fds
    BY Numbers, Zenon DEF IInv
  <2>5. build.fd \in Fds \union {-1}
    BY DEF IInv, Types, Builds
  <2> QED
    BY <2>1, <2>2, <2>3, <2>4, <2>5 DEF IInv, Types, Placed, TypeOK, Building
<1> QED
  BY <1>1, Invariant, PTL

\* For every rate and parity, ports in use have all the settings they were asked
\* for, whatever part of them a tcsetattr() applied.  (setSettings().)
THEOREM AllSettings == Spec => []Configured
<1>1. IInv => Configured
  BY DEF IInv
<1> QED
  BY <1>1, Invariant, PTL

\* A terminal is left as it was found over any number of openings, but for the three
\* ways to lose the settings that Restored names.  (settingsBackup_.)
THEOREM SettingsRestored == Spec => []Restored
<1>1. IInv => Restored
  BY DEF IInv, Saved, Placed, Restored
<1> QED
  BY <1>1, Invariant, PTL

\* Every open descriptor has one owner and is closed by it.  (FdGuard.)
THEOREM OneOwner == Spec => []Descriptors
<1>1. IInv => Descriptors
  <2> SUFFICES ASSUME IInv PROVE Descriptors
    OBVIOUS
  <2>1. build # NoBuild => files[build.fd] = build.file
    BY DEF IInv, Types, Held
  <2>2. stage = "idle" => Free = Fds
    <3> SUFFICES ASSUME stage = "idle" PROVE Free = Fds
      OBVIOUS
    <3>1. Len(locals) = 0 /\ Len(ports) = 0 /\ build.fd = -1
      BY EmptySeq DEF IInv, Placed, Types, Building, NoBuild
    <3>2. \A f \in Fds : files[f] = None
      BY <3>1, Numbers DEF IInv, Held, Owned
    <3> QED
      BY <3>2 DEF Free
  <2> QED
    BY <2>1, <2>2 DEF IInv, Held, Descriptors
<1> QED
  BY <1>1, Invariant, PTL

=============================================================================
