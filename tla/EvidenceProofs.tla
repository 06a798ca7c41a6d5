--------------------------- MODULE EvidenceProofs ---------------------------
(***************************************************************************)
(* The checks that gather evidence look by look, for any files, services,  *)
(* profiles and controls, and any number of changes between two looks.     *)
(***************************************************************************)
EXTENDS EvidenceScan, ListProofs

Types ==
    /\ check \in Checks
    /\ DOMAIN world = ObjectsOf(check) /\ DOMAIN ever = ObjectsOf(check)
    /\ \A o \in ObjectsOf(check) :
          world[o] \in ever[o] /\ ever[o] \subseteq Possible[check][o]
    /\ changes \in 0..MaxChanges[check]

(* A listing has what was there all along, and nothing that never was.     *)
GenuineListing(d, listing) ==
    /\ Content(d) \subseteq ObjectsOf(check)
    /\ \E value \in ever[d] : listing.kind = value.kind
    /\ listing.kind # "dir" => listing.entries = {}
    /\ listing.entries \subseteq Content(d)
    /\ \A e \in listing.entries : \E value \in ever[e] : value.kind # "absent"
    /\ listing.kind = "dir" =>
          \A e \in Content(d) : (\A value \in ever[e] : value.kind # "absent") => e \in listing.entries

(* An inventory that was obtained is that of one moment.                   *)
GenuineInventory(r, flag) ==
    r.returncode = 0 =>
        \E units \in ever["systemd"] : r.stdout = {s \in Service : units[s][flag]}

(* What systemd says of the services it was asked about: those of the two  *)
(* inventories, which have been taken before.                              *)
GenuineBlocks(r) ==
    /\ {Active, Enabled} \subseteq DOMAIN obs
    /\ r.returncode = 0 => r.stdout = Services(obs)
    /\ r.stdout \cap Service \subseteq Services(obs)
    /\ r.stdout \cap Service # {} \/ r.returncode = 0 => r.unit \in ever["systemd"]

(* What a look showed was so while the check ran.                          *)
GenuineLook(w) ==
    /\ w.at \in ObjectsOf(check)
    /\ w = Active => GenuineInventory(obs[w], "active")
    /\ w = Enabled => GenuineInventory(obs[w], "enabled")
    /\ w = Show => GenuineBlocks(obs[w])
    /\ w.call = "list" => GenuineListing(w.at, obs[w])
    /\ w.call = "run" /\ w \notin {Active, Enabled, Show} => obs[w] \in ever[w.at] \cup NotExecuted
    /\ w.call \notin {"run", "list"} => obs[w] \in ever[w.at]
    /\ w.call = "read" /\ check \in ReadAsAscii => obs[w].kind # "undecodable"

Genuine == \A w \in DOMAIN obs : GenuineLook(w)

(* Where the looks of a check are, by the call.                            *)
PolicyPlace(w) ==
    /\ check \in PolicyChecks /\ w.call \in {"lstat", "read"} => w.at \in PolicyFiles
    /\ check = "secure-path" /\ w.call = "lstat-dir" => w.at \in UNION {Chain[c] : c \in DOMAIN Chain}

ServicesPlace(w) ==
    /\ check = ServicesCheck /\ w.call = "resolve" => w.at \in Executable
    /\ check = ServicesCheck /\ w.call = "stat" => w.at \in ExecutionPath

BrowserPlace(w) ==
    /\ check \in BrowserChecks /\ w.call \in {"is_profile", "stat"} =>
          \E d \in ProfileRoot : w.at \in Profiles[d]
    /\ check = "profile-permissions" /\ w.call = "stat" => w.at \in ProfilesFor(check)
    /\ check \in FirefoxChecks /\ w.call = "read" => w.at \in ProfilesFor(check)
    /\ check = "extensions" /\ w.call = "read" => \E d \in DOMAIN Extension : w.at \in Extension[d]

ControlPlace(w) ==
    /\ check \in {"kernel", "network", "ip-forwarding", "security-modules"} => w.call = "read"
    /\ check = "secure-boot" /\ w.call = "read" => EfiList \in DOMAIN obs /\ w.at \in obs[EfiList].entries
    /\ check = "freshness" /\ w.call = "stat" => SyncList \in DOMAIN obs /\ w \in Stats(obs)

WellPlaced(w) == PolicyPlace(w) /\ ServicesPlace(w) /\ BrowserPlace(w) /\ ControlPlace(w)

InPlace == \A w \in DOMAIN obs : WellPlaced(w)

(* Findings are the verdict on the evidence of all looks, or the runner's. *)
Concluded == ~Running => findings = RunnerError \/ (findings = Verdict /\ Ready = {})

Inductive == Types /\ Genuine /\ InPlace /\ Concluded

-----------------------------------------------------------------------------
(* Every check is of one of four families, and only one.                   *)
LEMMA Families ==
    ASSUME NEW c \in Checks
    PROVE  /\ c \in SudoChecks \cup {ServicesCheck} \cup BrowserChecks \cup ControlChecks
           /\ c \in SudoChecks => c \notin {ServicesCheck} \cup BrowserChecks \cup ControlChecks
           /\ c = ServicesCheck => c \notin SudoChecks \cup BrowserChecks \cup ControlChecks
           /\ c \in BrowserChecks => c \notin SudoChecks \cup {ServicesCheck} \cup ControlChecks
           /\ c \in ControlChecks => c \notin SudoChecks \cup {ServicesCheck} \cup BrowserChecks
           /\ c \in SudoChecks <=> c \in PolicyChecks \/ c = "syntax"
           /\ c = "syntax" => c \notin PolicyChecks
BY EvidenceScanAssumption
   DEF AllChecks, SudoChecks, PolicyChecks, ServicesCheck, BrowserChecks, FirefoxChecks,
       ControlChecks, CommandControls

(* Where each family looks next, and what it makes of what it has seen.    *)
LEMMA ReadyOf ==
    ASSUME check \in Checks
    PROVE  /\ check \in SudoChecks => Ready = SudoReady(check, obs)
           /\ check = ServicesCheck => Ready = ServicesReady(obs)
           /\ check \in BrowserChecks => Ready = BrowserReady(check, obs)
           /\ check \in ControlChecks => Ready = ControlsReady(check, obs)
BY Families DEF Ready

LEMMA VerdictOf ==
    ASSUME check \in Checks
    PROVE  /\ check \in SudoChecks => Verdict = Single(SudoFinding(check, obs))
           /\ check = ServicesCheck => Verdict = Single(ServicesFinding(obs))
           /\ check \in BrowserChecks => Verdict = Single(BrowserFinding(check, obs))
           /\ check \in ControlChecks => Verdict = ControlsFindings(check, obs)
BY Families DEF Verdict

LEMMA ObjectsAre ==
    ASSUME NEW c \in Checks
    PROVE  /\ c \in PolicyChecks => {"sudoers", "sudoers.d"} \cup DropIn \cup Backup \subseteq ObjectsOf(c)
           /\ c = "secure-path" => \A p \in DOMAIN Chain : Chain[p] \subseteq ObjectsOf(c)
           /\ c = "syntax" => ObjectsOf(c) = {"sudoers", "visudo"}
           /\ c = ServicesCheck => ObjectsOf(c) = {"systemd"} \cup Executable \cup ExecutionPath
           /\ c \in BrowserChecks => /\ ProfileRoot \subseteq ObjectsOf(c)
                                     /\ \A d \in ProfileRoot : Profiles[d] \subseteq ObjectsOf(c)
           /\ c = "extensions" => \A d \in DOMAIN Extension : {d} \cup Extension[d] \subseteq ObjectsOf(c)
           /\ c \in ControlChecks => ObjectsOf(c) = ControlObjects(c)
<1>1. CASE c \in PolicyChecks
  <2>1. ObjectsOf(c) = {"sudoers", "sudoers.d"} \cup DropIn \cup Backup
                          \cup UNION {Chain[p] : p \in {q \in DOMAIN Chain : c = "secure-path"}}
    BY <1>1, Families DEF ObjectsOf
  <2>2. c = "secure-path" => \A p \in DOMAIN Chain : Chain[p] \subseteq ObjectsOf(c)
    BY <2>1
  <2>3. {"sudoers", "sudoers.d"} \cup DropIn \cup Backup \subseteq ObjectsOf(c)
    BY <2>1
  <2> QED BY <1>1, <2>2, <2>3, Families DEF SudoChecks, BrowserChecks, PolicyChecks, FirefoxChecks, ServicesCheck
<1>2. CASE c = "syntax"
  BY <1>2, Families DEF ObjectsOf, PolicyChecks, SudoChecks
<1>3. CASE c = ServicesCheck
  BY <1>3, Families DEF ObjectsOf, PolicyChecks, SudoChecks, ServicesCheck
<1>4. CASE c \in BrowserChecks
  <2> DEFINE opened == {e \in DOMAIN Extension : c = "extensions"}
             inside == UNION {{d} \cup Extension[d] : d \in opened}
  <2>1. ObjectsOf(c) = ProfileRoot \cup (UNION {Profiles[d] : d \in ProfileRoot}) \cup inside
    BY <1>4, Families DEF ObjectsOf
  <2>2. ASSUME c = "extensions", NEW d \in DOMAIN Extension
        PROVE  {d} \cup Extension[d] \subseteq ObjectsOf(c)
    <3>1. d \in opened
      BY <2>2
    <3>2. {d} \cup Extension[d] \subseteq inside
      <4> HIDE DEF opened
      <4> QED BY <3>1, Zenon
    <3> HIDE DEF inside
    <3> QED BY <2>1, <3>2
  <2>3. \A d \in ProfileRoot : Profiles[d] \subseteq ObjectsOf(c)
    BY <2>1
  <2> QED BY <1>4, <2>1, <2>2, <2>3, Families DEF PolicyChecks, SudoChecks, ServicesCheck
<1>5. CASE c \in ControlChecks
  <2>1. ObjectsOf(c) = ControlObjects(c)
    BY <1>5, Families DEF ObjectsOf
  <2>2. c \notin PolicyChecks /\ c \notin BrowserChecks
        /\ c # "syntax" /\ c # ServicesCheck /\ c # "secure-path" /\ c # "extensions"
    BY <1>5, Families DEF PolicyChecks, SudoChecks, ServicesCheck, BrowserChecks
  <2>3. c \notin PolicyChecks /\ c # "secure-path" /\ c # "syntax"
    BY <2>2
  <2>4. c # ServicesCheck /\ c \notin BrowserChecks /\ c # "extensions"
    BY <2>2
  <2> HIDE DEF ObjectsOf
  <2> QED BY <2>1, <2>3, <2>4
<1> QED BY <1>1, <1>2, <1>3, <1>4, <1>5, Families

-----------------------------------------------------------------------------
(* Looks that are pending have not been taken.                             *)
LEMMA FreshLooks ==
    ASSUME NEW first, NEW second, NEW o,
           first \cap DOMAIN o = {}, second \cap DOMAIN o = {}
    PROVE  InOrder(first, second) \cap DOMAIN o = {}
BY DEF InOrder

LEMMA PendingIsFresh == \A looks, o : Pending(looks, o) \cap DOMAIN o = {}
BY DEF Pending

LEMMA SudoIsFresh ==
    ASSUME NEW c, NEW o PROVE SudoReady(c, o) \cap DOMAIN o = {}
<1>1. FileLooks(o) \cap DOMAIN o = {}
  BY FreshLooks, PendingIsFresh DEF FileLooks
<1>2. (IF c = "secure-path" THEN DirectoryLooks(o) ELSE {}) \cap DOMAIN o = {}
  BY PendingIsFresh DEF DirectoryLooks
<1>3. PolicyReady(c, o) \cap DOMAIN o = {}
  <2>1. CASE Main \notin DOMAIN o
    BY <2>1 DEF PolicyReady
  <2>2. CASE Main \in DOMAIN o /\ Listing \notin DOMAIN o
    BY <2>2 DEF PolicyReady
  <2>3. CASE {Main, Listing} \subseteq DOMAIN o
    <3>1. PolicyReady(c, o) =
             InOrder(FileLooks(o), IF c = "secure-path" THEN DirectoryLooks(o) ELSE {})
      BY <2>3 DEF PolicyReady
    <3> QED BY <1>1, <1>2, <3>1, FreshLooks
  <2> QED BY <2>1, <2>2, <2>3
<1> QED BY <1>3, PendingIsFresh DEF SudoReady

LEMMA ServicesAreFresh == \A o : ServicesReady(o) \cap DOMAIN o = {}
<1> SUFFICES ASSUME NEW o PROVE ServicesReady(o) \cap DOMAIN o = {}
  OBVIOUS
<1>1. InOrder(Pending(Candidates(o), o), Pending(Resolutions(o), o)) \cap DOMAIN o = {}
  BY FreshLooks, PendingIsFresh
<1> QED BY <1>1 DEF ServicesReady

LEMMA BrowserIsFresh ==
    ASSUME NEW c \in BrowserChecks, NEW o PROVE BrowserReady(c, o) \cap DOMAIN o = {}
<1>1. DiscoveryLooks(o) \cap DOMAIN o = {}
  BY FreshLooks, PendingIsFresh DEF DiscoveryLooks
<1>2. ExtensionLooks(o) \cap DOMAIN o = {}
  BY FreshLooks, PendingIsFresh DEF ExtensionLooks
<1>3. ProfileLooks(c, o) \cap DOMAIN o = {}
  <2>1. CASE c = "profile-permissions"
    BY <2>1, PendingIsFresh DEF ProfileLooks, FirefoxChecks
  <2>2. CASE c \in FirefoxChecks
    BY <2>2, PendingIsFresh DEF ProfileLooks, FirefoxChecks
  <2>3. CASE c = "extensions"
    BY <2>3, <1>2 DEF ProfileLooks, FirefoxChecks
  <2> QED BY <2>1, <2>2, <2>3 DEF BrowserChecks
<1> QED BY <1>1, <1>3, FreshLooks DEF BrowserReady

LEMMA ControlsAreFresh ==
    ASSUME NEW c \in ControlChecks, NEW o PROVE ControlsReady(c, o) \cap DOMAIN o = {}
<1>1. ForwardingReady(o) \cap DOMAIN o = {}
  BY PendingIsFresh DEF ForwardingReady
<1>2. BootReady(o) \cap DOMAIN o = {}
  <2>1. CASE EfiTest \notin DOMAIN o
    BY <2>1 DEF BootReady
  <2>2. CASE EfiTest \in DOMAIN o /\ EfiList \notin DOMAIN o
    BY <2>2 DEF BootReady
  <2>3. CASE {EfiTest, EfiList} \subseteq DOMAIN o
    <3>1. BootReady(o) = {Read(v) : v \in {u \in o[EfiList].entries : Taken(o, "read") = {}}}
      BY <2>3 DEF BootReady
    <3>2. \A v : Taken(o, "read") = {} => Read(v) \notin DOMAIN o
      BY DEF Taken, Read, Look, LookFor
    <3> QED BY <3>1, <3>2
  <2> QED BY <2>1, <2>2, <2>3
<1>3. FreshnessReady(o) \cap DOMAIN o = {}
  <2>1. InOrder(Pending(Stats(o), o), Pending({Clock}, o)) \cap DOMAIN o = {}
    BY FreshLooks, PendingIsFresh
  <2> QED BY <2>1 DEF FreshnessReady
<1>4. InOrder(Pending({Read("lsm")}, o), Pending({Read("lockdown")}, o)) \cap DOMAIN o = {}
  BY FreshLooks, PendingIsFresh
<1>5. CASE c \in {"kernel", "network"}
  BY <1>5, PendingIsFresh DEF ControlsReady, CommandControls
<1>6. CASE c \in {"ip-forwarding", "secure-boot", "security-modules", "freshness"}
  BY <1>6, <1>1, <1>2, <1>3, <1>4 DEF ControlsReady, CommandControls
<1>7. CASE c \in CommandControls \cup {"uid-zero", "empty-passwords", "shared-mounts"}
  BY <1>7, PendingIsFresh DEF ControlsReady, CommandControls
<1> QED BY <1>5, <1>6, <1>7 DEF ControlChecks

(* No check takes a look twice.                                            *)
LEMMA ReadyIsFresh == check \in Checks => Ready \cap DOMAIN obs = {}
BY Families, ReadyOf, SudoIsFresh, ServicesAreFresh, BrowserIsFresh, ControlsAreFresh

-----------------------------------------------------------------------------
(* What each directory may list.                                           *)
LEMMA ContentOf ==
    /\ Content("sudoers.d") = DropIn \cup Backup
    /\ \A d \in ProfileRoot : Content(d) = Profiles[d]
    /\ \A d \in DOMAIN Extension : Content(d) = Extension[d]
    /\ Content("efivars") = BootVariable
    /\ Content("sync") = Database
<1>1. "sudoers.d" \notin ProfileRoot \cup DOMAIN Extension /\ "efivars" \notin ProfileRoot \cup DOMAIN Extension
      /\ "sync" \notin ProfileRoot \cup DOMAIN Extension
  BY WorldAssumption
<1>2. \A d \in ProfileRoot : d \notin DOMAIN Extension
  BY BrowserAssumption
<1> QED BY <1>1, <1>2 DEF Content

(* A look is at an object of the machine, at the place its call is for, and *)
(* what a listing may name is there to be looked at.                       *)
Placed(w) ==
    /\ w.at \in ObjectsOf(check) /\ WellPlaced(w)
    /\ w.call = "list" => Content(w.at) \subseteq ObjectsOf(check)
    /\ w = Show => {Active, Enabled} \subseteq DOMAIN obs

(* Only the check of service paths asks systemd.                           *)
LEMMA OnlyServicesAsk ==
    ASSUME Types, check # ServicesCheck, NEW w, w.at \in ObjectsOf(check)
    PROVE  w \notin {Active, Enabled, Show}
BY WorldAssumption DEF Types, Active, Enabled, Show, LookFor

(* A check is held to the places of its family.                            *)
LEMMA OwnPlace ==
    ASSUME check \in Checks, NEW w,
           \/ check \in SudoChecks /\ PolicyPlace(w)
           \/ check = ServicesCheck /\ ServicesPlace(w)
           \/ check \in BrowserChecks /\ BrowserPlace(w)
           \/ check \in ControlChecks /\ ControlPlace(w)
    PROVE  WellPlaced(w)
<1>1. check \in SudoChecks \/ PolicyPlace(w)
  BY DEF PolicyPlace, SudoChecks, PolicyChecks
<1>2. check = ServicesCheck \/ ServicesPlace(w)
  BY DEF ServicesPlace
<1>3. check \in BrowserChecks \/ BrowserPlace(w)
  BY DEF BrowserPlace, BrowserChecks
<1>4. check \in ControlChecks \/ ControlPlace(w)
  BY DEF ControlPlace, ControlChecks
<1> QED BY <1>1, <1>2, <1>3, <1>4, Families DEF WellPlaced

LEMMA SudoPlaced ==
    ASSUME Types, Genuine, InPlace, check \in SudoChecks, NEW w \in SudoReady(check, obs)
    PROVE  Placed(w)
<1>1. check # ServicesCheck /\ (check \in PolicyChecks \/ check = "syntax") /\ check \in Checks
  BY Families DEF Types
<1> SUFFICES /\ w.at \in ObjectsOf(check) /\ (w.call = "list" => Content(w.at) \subseteq ObjectsOf(check))
             /\ PolicyPlace(w)
  BY <1>1, OnlyServicesAsk, OwnPlace DEF Placed
<1>2. CASE check = "syntax"
  <2>1. w \in {SyntaxGate, Visudo}
    BY <1>2 DEF SudoReady, Pending
  <2>2. PolicyPlace(w)
    BY <1>2 DEF PolicyPlace, PolicyChecks
  <2> QED BY <1>1, <1>2, <2>1, <2>2, ObjectsAre DEF SyntaxGate, Visudo, Look, LookFor
<1>3. CASE check # "syntax"
  <2>1. check \in PolicyChecks /\ {"sudoers", "sudoers.d"} \cup DropIn \cup Backup \subseteq ObjectsOf(check)
    BY <1>1, <1>3, ObjectsAre
  <2>2. w \in PolicyReady(check, obs)
    BY <1>3 DEF SudoReady
  <2>3. CASE w \in {Main, Listing}
    BY <2>1, <2>3, ContentOf DEF Main, Listing, Look, LookFor, PolicyPlace
  <2>4. CASE w \in FileLooks(obs)
    <3>1. \/ \E v \in Taken(obs, "lstat") : w = Look("read", v.at)
          \/ \E f \in PolicyPaths(obs) : w = Look("lstat", f)
      BY <2>4 DEF FileLooks, InOrder, Pending
    <3>2. \A v \in Taken(obs, "lstat") : v.at \in ObjectsOf(check) /\ v.at \in PolicyFiles
      BY <2>1 DEF Taken, Genuine, GenuineLook, InPlace, WellPlaced, PolicyPlace
    <3>3. PolicyPaths(obs) \subseteq ObjectsOf(check) /\ PolicyPaths(obs) \subseteq PolicyFiles
      BY <2>1 DEF PolicyPaths, PolicyFiles
    <3>4. w.at \in ObjectsOf(check) /\ w.at \in PolicyFiles /\ w.call \in {"lstat", "read"}
      BY <3>1, <3>2, <3>3 DEF Look, LookFor
    <3> QED BY <3>4 DEF PolicyPlace
  <2>5. CASE check = "secure-path" /\ w \in DirectoryLooks(obs)
    <3>1. PICK c \in Values(obs) : \E d \in Chain[c] : w = Look("lstat-dir", d)
      BY <2>5 DEF DirectoryLooks, Pending
    <3>2. \A rule : Components(rule) \subseteq DOMAIN Chain
      BY SudoPolicyAssumption DEF Components
    <3>3. c \in DOMAIN Chain
      BY <3>2 DEF Values
    <3>4. w.at \in Chain[c] /\ w.call = "lstat-dir"
      BY <3>1 DEF Look, LookFor
    <3> QED BY <1>1, <2>5, <3>3, <3>4, ObjectsAre DEF PolicyPlace
  <2>6. w \in {Main, Listing} \cup FileLooks(obs)
        \/ (check = "secure-path" /\ w \in DirectoryLooks(obs))
    <3>1. CASE Main \notin DOMAIN obs
      BY <2>2, <3>1 DEF PolicyReady
    <3>2. CASE Main \in DOMAIN obs /\ Listing \notin DOMAIN obs
      BY <2>2, <3>2 DEF PolicyReady
    <3>3. CASE {Main, Listing} \subseteq DOMAIN obs
      BY <2>2, <3>3 DEF PolicyReady, InOrder
    <3> QED BY <3>1, <3>2, <3>3
  <2> QED BY <2>3, <2>4, <2>5, <2>6
<1> QED BY <1>2, <1>3

LEMMA ServicesPlaced ==
    ASSUME Types, Genuine, InPlace, check = ServicesCheck, NEW w \in ServicesReady(obs)
    PROVE  Placed(w)
<1>1. check \in Checks /\ ObjectsOf(check) = {"systemd"} \cup Executable \cup ExecutionPath
  BY ObjectsAre DEF Types
<1> SUFFICES /\ w.at \in ObjectsOf(check) /\ w.call # "list" /\ ServicesPlace(w)
             /\ w = Show => {Active, Enabled} \subseteq DOMAIN obs
  BY <1>1, OwnPlace DEF Placed
<1>2. CASE w \in {Active, Enabled}
  BY <1>1, <1>2 DEF Active, Enabled, Show, LookFor, ServicesPlace
<1>3. CASE w = Show /\ {Active, Enabled} \subseteq DOMAIN obs
  BY <1>1, <1>3 DEF Show, LookFor, ServicesPlace
<1>4. CASE w \in Resolutions(obs)
  <2>1. PICK se \in Service \X Executable : w = LookFor("resolve", se[2], se)
    BY <1>4 DEF Resolutions, Programs, Blocks
  <2>2. se[2] \in Executable
    OBVIOUS
  <2>3. w.at = se[2] /\ w.call = "resolve" /\ w # Show
    BY <2>1 DEF LookFor, Show
  <2> QED BY <1>1, <2>2, <2>3 DEF ServicesPlace
<1>5. CASE w \in Candidates(obs)
  <2>0. PICK v \in Resolved(obs) : \E p \in {obs[v].target} \cup obs[v].above : w = LookFor("stat", p, v.of)
    BY <1>5 DEF Candidates
  <2>1. PICK p \in {obs[v].target} \cup obs[v].above : w = LookFor("stat", p, v.of)
    BY <2>0
  <2>2. v \in DOMAIN obs /\ v.call = "resolve" /\ obs[v].kind = "resolved"
    BY DEF Resolved, Taken
  <2>3. v.at \in Executable
    BY <2>2 DEF InPlace, WellPlaced, ServicesPlace
  <2>4. obs[v] \in ever[v.at] /\ v.at \in ObjectsOf(check)
    BY <2>2 DEF Genuine, GenuineLook, Active, Enabled, Show, LookFor
  <2>5. obs[v] \in Possible[ServicesCheck][v.at]
    BY <2>4 DEF Types
  <2>6. p \in ExecutionPath
    BY <1>1, <2>1, <2>2, <2>3, <2>5, WorldAssumption
  <2>7. w.at = p /\ w.call = "stat" /\ w # Show
    BY <2>1 DEF LookFor, Show
  <2> QED BY <1>1, <2>6, <2>7 DEF ServicesPlace
<1>6. \/ w \in {Active, Enabled} \/ (w = Show /\ {Active, Enabled} \subseteq DOMAIN obs)
      \/ w \in Resolutions(obs) \/ w \in Candidates(obs)
  BY DEF ServicesReady, InOrder, Pending
<1> QED BY <1>2, <1>3, <1>4, <1>5, <1>6

LEMMA BrowserPlaced ==
    ASSUME Types, Genuine, InPlace, check \in BrowserChecks, NEW w \in BrowserReady(check, obs)
    PROVE  Placed(w)
<1>1. check # ServicesCheck /\ check \in Checks /\ ProfileRoot \subseteq ObjectsOf(check)
      /\ \A d \in ProfileRoot : Profiles[d] \subseteq ObjectsOf(check)
  BY Families, ObjectsAre DEF Types
<1>2. \A d : Look("list", d) \in DOMAIN obs => Entries(obs, d) \subseteq Content(d)
  BY DEF Genuine, GenuineLook, GenuineListing, Entries, Look, LookFor, Active, Enabled, Show
<1>3. FoundProfiles(obs) \subseteq {p \in ObjectsOf(check) : \E d \in ProfileRoot : p \in Profiles[d]}
  BY DEF FoundProfiles, Taken, InPlace, WellPlaced, BrowserPlace, Genuine, GenuineLook
<1> SUFFICES /\ w.at \in ObjectsOf(check)
             /\ w.call = "list" => Content(w.at) \subseteq ObjectsOf(check)
             /\ BrowserPlace(w)
  BY <1>1, OnlyServicesAsk, OwnPlace DEF Placed
<1> USE DEF BrowserPlace
<1>4. CASE w \in DiscoveryLooks(obs)
  <2>1. \/ \E d \in ProfileRoot : Look("list", d) \in DOMAIN obs /\ \E p \in Entries(obs, d) : w = Look("is_profile", p)
        \/ \E d \in ProfileRoot : w = Look("list", d)
        \/ \E d \in ProfileRoot : w = Look("is_dir", d)
    BY <1>4 DEF DiscoveryLooks, InOrder, Pending
  <2>2. CASE \E d \in ProfileRoot : Look("list", d) \in DOMAIN obs
                                    /\ \E q \in Entries(obs, d) : w = Look("is_profile", q)
    <3>1. PICK d \in ProfileRoot : \E q \in Content(d) : w = Look("is_profile", q)
      BY <1>2, <2>2
    <3>a. PICK q \in Content(d) : w = Look("is_profile", q)
      BY <3>1
    <3>2. q \in Profiles[d] /\ w.at = q /\ w.call = "is_profile"
      BY <3>a, ContentOf DEF Look, LookFor
    <3> QED BY <1>1, <3>2
  <2>3. CASE \E d \in ProfileRoot, call \in {"list", "is_dir"} : w = Look(call, d)
    <3>1. PICK d \in ProfileRoot, call \in {"list", "is_dir"} : w = Look(call, d)
      BY <2>3
    <3>2. w.at = d /\ w.call = call /\ Content(d) = Profiles[d]
      BY <3>1, ContentOf DEF Look, LookFor
    <3> QED BY <1>1, <3>2
  <2> QED BY <2>1, <2>2, <2>3
<1>5. CASE w \in ProfileLooks(check, obs) /\ check # "extensions"
  <2>1. \E p \in Relevant(check, obs), call \in {"stat", "read"} : w = Look(call, p)
    BY <1>5 DEF ProfileLooks, Pending, BrowserChecks
  <2>2. Relevant(check, obs) \subseteq FoundProfiles(obs) \cap ProfilesFor(check)
    BY DEF Relevant
  <2>3. PICK p \in Relevant(check, obs), call \in {"stat", "read"} : w = Look(call, p)
    BY <2>1
  <2>4. w.at = p /\ w.call = call
    BY <2>3 DEF Look, LookFor
  <2> QED BY <1>3, <1>5, <2>2, <2>4
<1>6. CASE w \in ProfileLooks(check, obs) /\ check = "extensions"
  <2> DEFINE dirs == {Extensions[p] : p \in FoundProfiles(obs)}
  <2>1. w \in ExtensionLooks(obs)
    BY <1>6 DEF ProfileLooks, FirefoxChecks
  <2>2. dirs \subseteq DOMAIN Extension
    BY <1>3, BrowserAssumption
  <2>3. \/ \E d \in dirs, call \in {"read", "glob"} :
              Look("list", d) \in DOMAIN obs /\ \E e \in Entries(obs, d) : w = Look(call, e)
        \/ \E d \in dirs, call \in {"list", "is_dir"} : w = Look(call, d)
    BY <2>1 DEF ExtensionLooks, InOrder, Pending
  <2>4. \A d \in DOMAIN Extension : d \in ObjectsOf(check) /\ Extension[d] \subseteq ObjectsOf(check)
    BY <1>1, <1>6, ObjectsAre
  <2> HIDE DEF dirs
  <2>5. CASE \E d \in dirs, call \in {"read", "glob"} :
               Look("list", d) \in DOMAIN obs /\ \E e \in Entries(obs, d) : w = Look(call, e)
    <3>1. PICK d \in dirs, call \in {"read", "glob"} : \E e \in Content(d) : w = Look(call, e)
      BY <1>2, <2>5
    <3>2. PICK e \in Content(d) : w = Look(call, e)
      BY <3>1
    <3>3. e \in Extension[d] /\ w.at = e /\ w.call = call
      BY <2>2, <3>2, ContentOf DEF Look, LookFor
    <3>4. BrowserPlace(w)
      BY <1>6, <2>2, <3>3 DEF FirefoxChecks
    <3>5. w.at \in ObjectsOf(check) /\ w.call # "list"
      BY <2>2, <2>4, <3>3
    <3> QED BY <3>4, <3>5
  <2>6. CASE \E d \in dirs, call \in {"list", "is_dir"} : w = Look(call, d)
    <3>1. PICK d \in dirs, call \in {"list", "is_dir"} : w = Look(call, d)
      BY <2>6
    <3>2. w.at = d /\ w.call = call /\ Content(d) = Extension[d]
      BY <2>2, <3>1, ContentOf DEF Look, LookFor
    <3> QED BY <1>6, <2>2, <2>4, <3>2
  <2> QED BY <2>3, <2>5, <2>6
<1> QED BY <1>4, <1>5, <1>6 DEF BrowserReady, InOrder

LEMMA ControlsPlaced ==
    ASSUME Types, Genuine, check \in ControlChecks, NEW w \in ControlsReady(check, obs)
    PROVE  Placed(w)
<1>1. check # ServicesCheck /\ ObjectsOf(check) = ControlObjects(check) /\ check \in Checks
  BY Families, ObjectsAre DEF Types
<1> SUFFICES /\ w.at \in ObjectsOf(check) /\ (w.call = "list" => Content(w.at) \subseteq ObjectsOf(check))
             /\ ControlPlace(w)
  BY <1>1, OnlyServicesAsk, OwnPlace DEF Placed
<1> USE DEF Read, Look, LookFor, ControlPlace
<1>2. CASE check \in {"kernel", "network"}
  BY <1>1, <1>2 DEF ControlsReady, ControlObjects, Pending, CommandControls
<1>3. CASE check = "ip-forwarding"
  BY <1>1, <1>3 DEF ControlsReady, ControlObjects, ForwardingReady, Pending, CommandControls
<1>4. CASE check = "secure-boot"
  <2>1. ObjectsOf(check) = {"efivars"} \cup BootVariable
    BY <1>1, <1>4 DEF ControlObjects
  <2>2. EfiList \in DOMAIN obs => obs[EfiList].entries \subseteq BootVariable
    BY ContentOf DEF Genuine, GenuineLook, GenuineListing, EfiList, Active, Enabled, Show
  <2>3. w \in BootReady(obs)
    BY <1>4 DEF ControlsReady, CommandControls
  <2>4. CASE w \in {EfiTest, EfiList}
    <3>1. w.at = "efivars" /\ w.call # "read"
      BY <2>4 DEF EfiTest, EfiList
    <3> QED BY <1>4, <2>1, <3>1, ContentOf
  <2>5. CASE EfiList \in DOMAIN obs /\ \E v \in obs[EfiList].entries : w = Read(v)
    BY <1>4, <2>1, <2>2, <2>5
  <2>6. w \in {EfiTest, EfiList} \/ (EfiList \in DOMAIN obs /\ \E v \in obs[EfiList].entries : w = Read(v))
    <3>1. CASE EfiTest \notin DOMAIN obs
      BY <2>3, <3>1 DEF BootReady
    <3>2. CASE EfiTest \in DOMAIN obs /\ EfiList \notin DOMAIN obs
      BY <2>3, <3>2 DEF BootReady
    <3>3. CASE {EfiTest, EfiList} \subseteq DOMAIN obs
      BY <2>3, <3>3 DEF BootReady
    <3> QED BY <3>1, <3>2, <3>3
  <2> QED BY <2>4, <2>5, <2>6
<1>5. CASE check = "security-modules"
  BY <1>1, <1>5 DEF ControlsReady, ControlObjects, InOrder, Pending, CommandControls
<1>6. CASE check = "freshness"
  <2>1. ObjectsOf(check) = {"sync", "clock"} \cup Database
    BY <1>1, <1>6 DEF ControlObjects
  <2>2. SyncList \in DOMAIN obs => obs[SyncList].entries \subseteq Database
    BY ContentOf DEF Genuine, GenuineLook, GenuineListing, SyncList, Active, Enabled, Show
  <2>3. w \in {SyncList, Clock} \/ (SyncList \in DOMAIN obs /\ w \in Stats(obs))
    BY <1>6 DEF ControlsReady, FreshnessReady, InOrder, Pending, CommandControls
  <2>4. CASE w \in {SyncList, Clock}
    <3>1. w.at \in {"sync", "clock"} /\ (w.call = "list" => w.at = "sync") /\ w.call # "stat"
      BY <2>4 DEF SyncList, Clock
    <3> QED BY <1>6, <2>1, <3>1, ContentOf
  <2>5. CASE SyncList \in DOMAIN obs /\ w \in Stats(obs)
    <3>1. w.at \in obs[SyncList].entries /\ w.call = "stat"
      BY <2>5 DEF Stats
    <3> QED BY <1>6, <2>1, <2>2, <2>5, <3>1
  <2> QED BY <2>3, <2>4, <2>5
<1>7. CASE check \in CommandControls \cup {"uid-zero", "empty-passwords", "shared-mounts"}
  BY <1>1, <1>7 DEF ControlsReady, ControlObjects, Pending, CommandControls
<1> QED BY <1>2, <1>3, <1>4, <1>5, <1>6, <1>7 DEF ControlChecks

LEMMA ReadyPlaced ==
    ASSUME Types, Genuine, InPlace, NEW w \in Ready PROVE Placed(w)
BY Families, ReadyOf, SudoPlaced, ServicesPlaced, BrowserPlaced, ControlsPlaced DEF Types

-----------------------------------------------------------------------------
LEMMA InitInductive == Init => Inductive
<1> SUFFICES ASSUME Init PROVE Inductive
  OBVIOUS
<1>1. Types
  <2>1. /\ DOMAIN world = ObjectsOf(check)
        /\ \A o \in DOMAIN world : world[o] \in Possible[check][o]
    BY EvidenceScanAssumption, WorldAssumption DEF Init
  <2>2. 0 \in 0..MaxChanges[check]
    BY EvidenceScanAssumption DEF Init
  <2> QED BY <2>1, <2>2 DEF Init, Types
<1>2. Genuine /\ InPlace
  BY DEF Init, Genuine, InPlace
<1>3. Concluded
  BY DEF Init, Concluded, Running
<1> QED BY <1>1, <1>2, <1>3 DEF Inductive

(* The services asked about are settled once both inventories are there.   *)
LEMMA ServicesSettled ==
    ASSUME {Active, Enabled} \subseteq DOMAIN obs, NEW w, NEW shown, w \notin DOMAIN obs
    PROVE  Services(Noted(obs, w, shown)) = Services(obs)
<1> DEFINE o == Noted(obs, w, shown)
<1>1. DOMAIN o = DOMAIN obs \cup {w} /\ \A v \in DOMAIN obs : o[v] = obs[v]
  BY DEF Noted
<1>2. Discovery \cap DOMAIN o = Discovery /\ Discovery \cap DOMAIN obs = Discovery
  BY <1>1 DEF Discovery
<1>3. \A v \in Discovery : o[v] = obs[v]
  BY <1>1 DEF Discovery
<1> HIDE DEF o
<1> QED BY <1>2, <1>3 DEF Services, o

(* Whatever a look shows is so at that moment.                             *)
LEMMA LooksAreGenuine ==
    ASSUME Types, Genuine, InPlace, NEW w, Take(w) PROVE GenuineLook(w)'
<1>1. PICK shown \in Outcomes(w) : obs' = Noted(obs, w, shown)
  BY DEF Take
<1>2. /\ DOMAIN obs' = DOMAIN obs \cup {w}
      /\ obs'[w] = shown
      /\ w \notin DOMAIN obs
  BY <1>1, ReadyIsFresh DEF Noted, Take, Types
<1>3. w \in Ready /\ UNCHANGED <<check, world, findings, changes, ever>>
  BY DEF Take
<1>4. Placed(w) /\ w.at \in ObjectsOf(check)
  BY <1>3, ReadyPlaced DEF Placed
<1>5. world[w.at] \in ever[w.at]
  BY <1>4 DEF Types
<1>6. ObjectsOf(check') = ObjectsOf(check)
  BY <1>3
<1>7. CASE w.call = "list"
  <2>1. shown = Listed(w.at)
    BY <1>1, <1>7 DEF Outcomes
  <2>2. Content(w.at) \subseteq ObjectsOf(check)
    BY <1>4, <1>7 DEF Placed
  <2>3. \A e \in Content(w.at) : world[e] \in ever[e]
    BY <2>2 DEF Types
  <2>4. GenuineListing(w.at, shown)
    BY <1>5, <2>1, <2>2, <2>3 DEF GenuineListing, Listed
  <2>5. GenuineListing(w.at, obs[w])'
    BY <1>2, <1>3, <1>6, <2>4 DEF GenuineListing, Content
  <2>6. w \notin {Active, Enabled, Show}
    BY <1>7 DEF Active, Enabled, Show, LookFor
  <2> QED BY <1>3, <1>4, <1>7, <2>5, <2>6 DEF GenuineLook
<1>8. CASE w.call = "run"
  <2>1. shown \in Answers(w)
    BY <1>1, <1>8 DEF Outcomes
  <2>2. Active # Enabled /\ Active # Show /\ Enabled # Show
    BY DEF Active, Enabled, Show, LookFor
  <2>3. \A r \in NotExecuted : r.returncode # 0
    BY DEF NotExecuted, Result
  <2>4. \A flag \in {"active", "enabled"} : \A r \in Inventory(flag) :
           r.returncode = 0 => r.stdout = {s \in Service : world["systemd"][s][flag]}
    BY <2>3 DEF Inventory, Executed, Result
  <2>5. CASE w \in {Active, Enabled}
    <3>1. w.at = "systemd"
      BY <2>5 DEF Active, Enabled, LookFor
    <3>2. ASSUME NEW flag \in {"active", "enabled"}, shown \in Inventory(flag)
          PROVE  GenuineInventory(shown, flag)
      BY <1>5, <2>4, <3>1, <3>2 DEF GenuineInventory
    <3>3. w = Active => GenuineInventory(shown, "active")
      BY <2>1, <2>2, <3>2 DEF Answers
    <3>4. w = Enabled => GenuineInventory(shown, "enabled")
      BY <2>1, <2>2, <3>2 DEF Answers
    <3>5. w \in {Active, Enabled} /\ w # Show /\ w.call # "list"
      BY <1>8, <2>2, <2>5
    <3>6. (w = Active => GenuineInventory(obs[w], "active")')
          /\ (w = Enabled => GenuineInventory(obs[w], "enabled")')
      BY <1>2, <1>3, <3>3, <3>4 DEF GenuineInventory
    <3> QED BY <1>3, <1>4, <1>8, <3>5, <3>6 DEF GenuineLook
  <2>6. CASE w = Show
    <3>1. {Active, Enabled} \subseteq DOMAIN obs /\ Services(obs') = Services(obs)
      BY <1>1, <1>2, <1>4, <2>6, ServicesSettled DEF Placed
    <3>2. shown \in Shown(Services(obs))
      BY <2>1, <2>2, <2>6 DEF Answers
    <3>3. /\ shown.returncode = 0 => shown.stdout = Services(obs)
          /\ shown.stdout \cap Service \subseteq Services(obs)
          /\ shown.stdout \cap Service # {} \/ shown.returncode = 0 => shown.unit = world["systemd"]
      <4>1. CASE shown \in NotExecuted
        <5>1. shown.stdout = Diagnostics
          BY <4>1 DEF NotExecuted, Result
        <5> QED BY <2>3, <4>1, <5>1, ServicePathsAssumption
      <4>2. CASE shown \notin NotExecuted
        <5>1. shown.unit = world["systemd"] /\ shown.stdout \subseteq Services(obs)
              /\ (shown.returncode = 0 => shown.stdout = Services(obs))
          BY <3>2, <4>2 DEF Shown
        <5> QED BY <5>1
      <4> QED BY <4>1, <4>2
    <3>4. w.at = "systemd" /\ w \notin {Active, Enabled} /\ w.call # "list"
      BY <1>8, <2>2, <2>6 DEF Show, LookFor
    <3>5. GenuineBlocks(obs[w])'
      BY <1>2, <1>3, <1>5, <3>1, <3>3, <3>4 DEF GenuineBlocks
    <3> QED BY <1>3, <1>4, <1>8, <2>6, <3>4, <3>5 DEF GenuineLook
  <2>7. CASE w \notin {Active, Enabled, Show}
    <3>1. shown = world[w.at] \/ shown \in NotExecuted
      BY <2>1, <2>7 DEF Answers, Executed
    <3> QED BY <1>2, <1>3, <1>4, <1>5, <1>8, <2>7, <3>1 DEF GenuineLook
  <2> QED BY <2>5, <2>6, <2>7
<1>9. CASE w.call \notin {"run", "list"}
  <2>1. shown = world[w.at]
    BY <1>1, <1>9 DEF Outcomes
  <2>2. w \notin {Active, Enabled, Show}
    BY <1>9 DEF Active, Enabled, Show, LookFor
  <2>3. w.call = "read" /\ check \in ReadAsAscii => world[w.at].kind # "undecodable"
    BY DEF Take, MustRaise
  <2> QED BY <1>2, <1>3, <1>4, <1>5, <1>9, <2>1, <2>2, <2>3 DEF GenuineLook, ReadAsAscii
<1> QED BY <1>7, <1>8, <1>9

(* A place does not depend on what is seen later.                          *)
LEMMA PlaceStands ==
    ASSUME NEW w, WellPlaced(w), check' = check, \A v \in DOMAIN obs : v \in DOMAIN obs' /\ obs'[v] = obs[v]
    PROVE  WellPlaced(w)'
<1>1. PolicyPlace(w)' /\ ServicesPlace(w)'
  BY DEF WellPlaced, PolicyPlace, ServicesPlace
<1>2. BrowserPlace(w)'
  BY DEF WellPlaced, BrowserPlace
<1>3. ControlPlace(w)'
  BY DEF WellPlaced, ControlPlace, Stats
<1> QED BY <1>1, <1>2, <1>3 DEF WellPlaced

(* A look adds what it showed, and leaves what was known.                  *)
LEMMA LookTaken ==
    ASSUME Inductive, NEW w, Take(w) PROVE Inductive'
<1> USE DEF Inductive
<1>1. PICK shown \in Outcomes(w) : obs' = Noted(obs, w, shown)
  BY DEF Take
<1>2. /\ DOMAIN obs' = DOMAIN obs \cup {w}
      /\ \A v \in DOMAIN obs : obs'[v] = obs[v]
      /\ w \notin DOMAIN obs
  BY <1>1, ReadyIsFresh DEF Noted, Take, Types
<1>3. w \in Ready /\ Running /\ UNCHANGED <<check, world, findings, changes, ever>>
  BY DEF Take
<1>4. Types'
  BY <1>3 DEF Types
<1>5. Genuine'
  <2> SUFFICES ASSUME NEW v \in DOMAIN obs, v # w PROVE GenuineLook(v)'
    BY <1>2, LooksAreGenuine DEF Genuine
  <2>1. GenuineLook(v) /\ obs'[v] = obs[v]
    BY <1>2 DEF Genuine
  <2>2. v = Show => GenuineBlocks(obs[v])'
    <3> SUFFICES ASSUME v = Show PROVE GenuineBlocks(obs[v])'
      OBVIOUS
    <3>1. GenuineBlocks(obs[v])
      BY <2>1 DEF GenuineLook
    <3>2. Services(obs') = Services(obs)
      BY <1>1, <1>2, <3>1, ServicesSettled DEF GenuineBlocks
    <3> QED BY <1>2, <1>3, <2>1, <3>1, <3>2 DEF GenuineBlocks
  <2>3. v.call = "list" => GenuineListing(v.at, obs[v])'
    BY <1>3, <2>1 DEF GenuineLook, GenuineListing, Content
  <2> QED BY <1>3, <2>1, <2>2, <2>3 DEF GenuineLook, GenuineInventory
<1>6. InPlace'
  <2>1. WellPlaced(w)
    BY <1>3, ReadyPlaced DEF Placed
  <2> QED BY <1>2, <1>3, <2>1, PlaceStands DEF InPlace
<1>7. Concluded'
  BY <1>3 DEF Concluded, Running
<1> QED BY <1>4, <1>5, <1>6, <1>7

(* A change adds to the history, and so keeps what was genuine so.         *)
LEMMA MachineChanged ==
    ASSUME Inductive, NEW o \in DOMAIN world, Change(o) PROVE Inductive'
<1> USE DEF Inductive
<1>1. PICK value \in Possible[check][o] :
         /\ world' = [world EXCEPT ![o] = value]
         /\ ever' = [ever EXCEPT ![o] = @ \cup {value}]
  BY DEF Change
<1>2. Running /\ UNCHANGED <<check, obs, findings>> /\ changes' = changes + 1 /\ changes < MaxChanges[check]
  BY DEF Change
<1>3. Types'
  <2>1. changes' \in 0..MaxChanges[check]
    BY <1>2, EvidenceScanAssumption DEF Types
  <2> QED BY <1>1, <1>2, <2>1 DEF Types
<1>4. DOMAIN ever' = DOMAIN ever /\ \A p \in ObjectsOf(check) : ever[p] \subseteq ever'[p]
  BY <1>1 DEF Types
<1>5. Genuine'
  <2> SUFFICES ASSUME NEW w \in DOMAIN obs PROVE GenuineLook(w)'
    BY <1>2 DEF Genuine
  <2>1. GenuineLook(w) /\ ever[w.at] \subseteq ever'[w.at]
    BY <1>4 DEF Genuine, GenuineLook
  <2>2. w.call = "list" => GenuineListing(w.at, obs[w])'
    <3> SUFFICES ASSUME w.call = "list" PROVE GenuineListing(w.at, obs[w])'
      OBVIOUS
    <3>1. GenuineListing(w.at, obs[w])
      BY <2>1 DEF GenuineLook
    <3>2. \A e \in Content(w.at) : ever[e] \subseteq ever'[e]
      BY <1>4, <3>1 DEF GenuineListing
    <3> QED BY <1>2, <2>1, <3>1, <3>2 DEF GenuineListing, Content
  <2>3. w \in {Active, Enabled, Show} => ever["systemd"] \subseteq ever'["systemd"]
    BY <2>1 DEF Active, Enabled, Show, LookFor
  <2>4. w = Show => GenuineBlocks(obs[w])'
    BY <1>2, <2>1, <2>3 DEF GenuineLook, GenuineBlocks
  <2> QED BY <1>2, <2>1, <2>2, <2>3, <2>4 DEF GenuineLook, GenuineInventory
<1>6. InPlace' /\ Concluded'
  BY <1>2, PlaceStands DEF InPlace, Concluded, Running
<1> QED BY <1>3, <1>5, <1>6

(* What depends on the check and its evidence only.                        *)
LEMMA SameEvidence ==
    ASSUME check' = check, obs' = obs
    PROVE  Verdict' = Verdict /\ RunnerError' = RunnerError /\ Ready' = Ready
BY DEF Verdict, RunnerError, Single, Ready

LEMMA EndedInductive ==
    ASSUME Inductive, UNCHANGED <<check, world, obs, changes, ever>>,
           ~Running' => findings' = RunnerError \/ (findings' = Verdict /\ Ready = {})
    PROVE  Inductive'
<1>1. Types'
  BY DEF Inductive, Types
<1>2. Genuine'
  <2>1. \A d, listing : GenuineListing(d, listing)' <=> GenuineListing(d, listing)
    BY DEF GenuineListing, Content
  <2>2. \A r, flag : GenuineInventory(r, flag)' <=> GenuineInventory(r, flag)
    BY DEF GenuineInventory
  <2>3. \A r : GenuineBlocks(r)' <=> GenuineBlocks(r)
    BY DEF GenuineBlocks
  <2>4. ASSUME NEW w \in DOMAIN obs PROVE GenuineLook(w)'
    <3>1. GenuineLook(w)
      BY DEF Inductive, Genuine
    <3> QED BY <2>1, <2>2, <2>3, <3>1 DEF GenuineLook
  <2> QED BY <2>4 DEF Genuine
<1>3. InPlace'
  BY PlaceStands DEF Inductive, InPlace
<1>4. Concluded'
  BY SameEvidence DEF Concluded
<1> QED BY <1>1, <1>2, <1>3, <1>4 DEF Inductive

LEMMA StepInductive == Inductive /\ [Next]_vars => Inductive'
<1> SUFFICES ASSUME Inductive, [Next]_vars PROVE Inductive'
  OBVIOUS
<1>1. ASSUME NEW w \in Ready, Take(w) PROVE Inductive'
  BY <1>1, LookTaken
<1>2. ASSUME NEW w \in Ready, LookRaises(w) PROVE Inductive'
  BY <1>2, EndedInductive DEF LookRaises
<1>3. CASE Conclude
  BY <1>3, EndedInductive DEF Conclude
<1>4. ASSUME NEW o \in DOMAIN world, Change(o) PROVE Inductive'
  BY <1>4, MachineChanged
<1>5. CASE UNCHANGED vars
  BY <1>5, EndedInductive DEF vars, Inductive, Concluded, Running
<1> QED BY <1>1, <1>2, <1>3, <1>4, <1>5 DEF Next, CheckStep

(* The invariant the theorems below rest on.                               *)
THEOREM MainInvariant == Spec => []Inductive
BY InitInductive, StepInductive, PTL DEF Spec

-----------------------------------------------------------------------------
(* What a check has seen it keeps: no look is taken twice, and none makes  *)
(* it forget or rewrite what an earlier one showed, so that its finding is *)
(* about one value of each look, whatever has become of the object since   *)
(* (sudo_policy.py:26-55, systemd_execution.py:198-236,                    *)
(* browser_profiles.py:20-45, kernel.py:42-70).                            *)
THEOREM ObservationsStand ==
    Spec => [][\A w \in DOMAIN obs : w \in DOMAIN obs' /\ obs'[w] = obs[w]]_vars
<1>1. Inductive /\ [Next]_vars
        => [\A w \in DOMAIN obs : w \in DOMAIN obs' /\ obs'[w] = obs[w]]_vars
  <2> SUFFICES ASSUME Inductive, Next, NEW w \in DOMAIN obs
               PROVE  w \in DOMAIN obs' /\ obs'[w] = obs[w]
    OBVIOUS
  <2>1. ASSUME NEW v \in Ready, Take(v) PROVE w \in DOMAIN obs' /\ obs'[w] = obs[w]
    <3>1. v \notin DOMAIN obs
      BY ReadyIsFresh DEF Inductive, Types
    <3> QED BY <2>1, <3>1 DEF Take, Noted
  <2>2. ASSUME NEW v \in Ready, LookRaises(v) PROVE obs' = obs
    BY <2>2 DEF LookRaises
  <2>3. CASE Conclude
    BY <2>3 DEF Conclude
  <2>4. ASSUME NEW o \in DOMAIN world, Change(o) PROVE obs' = obs
    BY <2>4 DEF Change
  <2> QED BY <2>1, <2>2, <2>3, <2>4 DEF Next, CheckStep
<1> QED BY MainInvariant, <1>1, PTL DEF Spec

(* Every look of a check shows what was so at some moment while the check  *)
(* ran, however often the machine changed in between: a value that the     *)
(* object has had, the inventory of one moment, a listing in which nothing *)
(* is missing that was there all along.                                    *)
THEOREM EvidenceIsGenuine == Spec => []Genuine
BY MainInvariant, PTL DEF Inductive

-----------------------------------------------------------------------------
(* What a finished check has to go by.                                     *)
LEMMA FinishedFacts ==
    ASSUME Inductive, Finished
    PROVE  findings = Verdict /\ Ready = {} /\ check \in Checks
BY DEF Inductive, Concluded, Finished, Types

(* An object that holds still has one value, which every look shows.       *)
LEMMA StillFacts ==
    ASSUME Inductive, NEW o \in Still
    PROVE  /\ o \in ObjectsOf(check) /\ ever[o] = {world[o]}
           /\ \A w \in DOMAIN obs : w.at = o /\ w.call \notin {"run", "list"} => obs[w] = world[o]
BY DEF Inductive, Types, Still, Genuine, GenuineLook

LEMMA BothEmpty == \A first, second : InOrder(first, second) = {} => first = {} /\ second = {}
BY DEF InOrder

LEMMA NonePending == \A looks, o : Pending(looks, o) = {} => looks \subseteq DOMAIN o
BY DEF Pending

LEMMA CommandLooks ==
    /\ Active # Enabled /\ Active # Show /\ Enabled # Show
    /\ \A w \in {Active, Enabled, Show} : w.call = "run" /\ w.at = "systemd"
BY DEF Active, Enabled, Show, LookFor

(* A service that is active or enabled all along is asked about when the   *)
(* commands succeed, and described as it is.                               *)
LEMMA ServiceDescribed ==
    ASSUME Inductive, Finished, check = ServicesCheck, "systemd" \in Still,
           \A w \in {Active, Enabled, Show} \cap DOMAIN obs : obs[w].returncode = 0,
           NEW s \in Service, world["systemd"][s].active \/ world["systemd"][s].enabled
    PROVE  /\ {Active, Enabled, Show} \subseteq DOMAIN obs /\ Missing127(obs) = {}
           /\ s \in Services(obs) /\ s \in Blocks(obs)
           /\ obs[Show].unit = world["systemd"]
           /\ InOrder(Pending(Candidates(obs), obs), Pending(Resolutions(obs), obs)) = {}
<1>1. ServicesReady(obs) = {}
  BY FinishedFacts, ReadyOf
<1>2. {Active, Enabled} \subseteq DOMAIN obs
  BY <1>1 DEF ServicesReady
<1>3. Missing127(obs) = {}
  BY DEF Missing127, Discovery
<1>4. ever["systemd"] = {world["systemd"]}
  BY StillFacts
<1>5. /\ obs[Active].stdout = {t \in Service : world["systemd"][t].active}
      /\ obs[Enabled].stdout = {t \in Service : world["systemd"][t].enabled}
  <2>1. obs[Active].returncode = 0 /\ obs[Enabled].returncode = 0
    BY <1>2
  <2>2. GenuineInventory(obs[Active], "active") /\ GenuineInventory(obs[Enabled], "enabled")
    BY <1>2 DEF Inductive, Genuine, GenuineLook
  <2> QED BY <1>4, <2>1, <2>2 DEF GenuineInventory
<1>6. s \in Services(obs)
  <2>1. \E w \in Discovery \cap DOMAIN obs : obs[w].returncode = 0 /\ s \in obs[w].stdout
    BY <1>2, <1>5 DEF Discovery
  <2> QED BY <2>1 DEF Services
<1>7. Show \in DOMAIN obs
  BY <1>1, <1>2, <1>3, <1>6 DEF ServicesReady
<1>8. obs[Show].stdout = Services(obs) /\ obs[Show].unit = world["systemd"]
  BY <1>4, <1>7 DEF Inductive, Genuine, GenuineLook, GenuineBlocks
<1>9. s \in Blocks(obs)
  BY <1>3, <1>6, <1>7, <1>8 DEF Blocks
<1>10. InOrder(Pending(Candidates(obs), obs), Pending(Resolutions(obs), obs)) = {}
  BY <1>1, <1>2, <1>3, <1>6, <1>7 DEF ServicesReady
<1> QED BY <1>2, <1>3, <1>6, <1>7, <1>8, <1>9, <1>10

(* So each program that it runs is resolved, and where a program leads all *)
(* along has been looked at.                                               *)
LEMMA ProgramInspected ==
    ASSUME Inductive, Finished, check = ServicesCheck,
           \A w \in {Active, Enabled, Show} \cap DOMAIN obs : obs[w].returncode = 0,
           NEW se \in Runs
    PROVE  LET at == LookFor("resolve", se[2], se)
           IN  /\ at \in Taken(obs, "resolve") /\ obs[at] \in ever[se[2]]
               /\ \A o \in PathsOf(se[2]) \cap Still :
                     /\ LookFor("stat", o, se) \in Taken(obs, "stat")
                     /\ obs[LookFor("stat", o, se)] = world[o]
                     /\ obs[at].target = world[se[2]].target
               /\ Show \in DOMAIN obs /\ Missing127(obs) = {} /\ Services(obs) # {}
               /\ se[1] \in Blocks(obs) /\ UnitOf(obs, se[1]) = world["systemd"][se[1]]
<1> DEFINE at == LookFor("resolve", se[2], se)
           unit == world["systemd"][se[1]]
<1>1. /\ "systemd" \in Still /\ se \in Service \X Executable
      /\ unit.active \/ unit.enabled
      /\ se[2] \in DOMAIN unit.exec
  BY DEF Runs
<1>2. se[1] \in Service /\ se[2] \in Executable
  BY <1>1
<1>3. /\ {Active, Enabled, Show} \subseteq DOMAIN obs /\ Missing127(obs) = {}
      /\ se[1] \in Services(obs) /\ se[1] \in Blocks(obs)
      /\ obs[Show].unit = world["systemd"]
      /\ InOrder(Pending(Candidates(obs), obs), Pending(Resolutions(obs), obs)) = {}
  BY <1>1, <1>2, ServiceDescribed
<1>4. UnitOf(obs, se[1]) = unit
  BY <1>3 DEF UnitOf
<1>5. Candidates(obs) \subseteq DOMAIN obs /\ Resolutions(obs) \subseteq DOMAIN obs
  BY <1>3, BothEmpty, NonePending
<1>6. at \in Resolutions(obs)
  <2>1. se \in Blocks(obs) \X Executable
    BY <1>1, <1>3
  <2>2. se \in Programs(obs)
    BY <1>1, <1>4, <2>1 DEF Programs
  <2> QED BY <2>2 DEF Resolutions
<1>7. at.call = "resolve" /\ at.at = se[2] /\ at.of = se
  BY DEF LookFor
<1> HIDE DEF at
<1>8. at \in Taken(obs, "resolve") /\ obs[at] \in ever[se[2]]
  <2>1. at \in DOMAIN obs
    BY <1>5, <1>6
  <2> QED BY <1>7, <2>1 DEF Taken, Inductive, Genuine, GenuineLook
<1>9. ASSUME NEW o \in PathsOf(se[2]), o \in Still
      PROVE  /\ LookFor("stat", o, se) \in Taken(obs, "stat")
             /\ obs[LookFor("stat", o, se)] = world[o]
             /\ obs[at].target = world[se[2]].target
  <2> DEFINE stat == LookFor("stat", o, se)
  <2>1. se[2] \in Still /\ world[se[2]].kind = "resolved"
        /\ o \in {world[se[2]].target} \cup world[se[2]].above
    BY <1>9 DEF PathsOf, Stays
  <2>2. obs[at] = world[se[2]]
    BY <1>8, <2>1, StillFacts
  <2>3. stat \in Candidates(obs)
    <3>1. at \in Resolved(obs)
      BY <1>8, <2>1, <2>2 DEF Resolved
    <3>2. stat \in {LookFor("stat", p, at.of) : p \in {obs[at].target} \cup obs[at].above}
      BY <1>7, <2>1, <2>2
    <3> QED BY <3>1, <3>2 DEF Candidates
  <2>4. stat.call = "stat" /\ stat.at = o
    BY DEF LookFor
  <2> HIDE DEF stat
  <2>5. stat \in Taken(obs, "stat")
    BY <1>5, <2>3, <2>4 DEF Taken
  <2>6. obs[stat] = world[o]
    BY <1>9, <2>4, <2>5, StillFacts DEF Taken
  <2> QED BY <2>2, <2>5, <2>6 DEF stat
<1> QED BY <1>3, <1>4, <1>8, <1>9 DEF at

(* A check with one finding speaks of all its objects in it.               *)
LEMMA SpokenOf ==
    ASSUME NEW f, findings = Single(f) PROVE \A o : About(o) = f
BY DEF Single, About

(* The finding of a check, family by family.                               *)
LEMMA FinishedWith ==
    ASSUME Inductive, Finished
    PROVE  /\ check \in SudoChecks => findings = Single(SudoFinding(check, obs))
           /\ check = ServicesCheck => findings = Single(ServicesFinding(obs))
           /\ check \in BrowserChecks => findings = Single(BrowserFinding(check, obs))
           /\ check \in ControlChecks => findings = ControlsFindings(check, obs)
BY FinishedFacts, VerdictOf

(* What counts as a violation, family by family.                           *)
LEMMA ViolatesOf ==
    ASSUME check \in Checks
    PROVE  \A o, value :
              /\ check \in SudoChecks => (Violates(o, value) <=> SudoViolates(o, value))
              /\ check = ServicesCheck =>
                    (Violates(o, value) <=> /\ o \in ExecutionPath /\ value.kind \notin StatFails
                                            /\ value.unsafe = TRUE)
              /\ check \in BrowserChecks => (Violates(o, value) <=> BrowserViolates(o, value))
              /\ check \in ControlChecks => (Violates(o, value) <=> ControlViolates(o, value))
BY Families DEF Violates

(* Evidence found decides, whatever errors there were.                     *)
LEMMA FoundDecides ==
    ASSUME NEW found, NEW errors, NEW status, NEW severity, NEW otherwise
    PROVE  /\ found # {} => Collected(found, errors, status, severity, otherwise).status = status
           /\ found = {} /\ errors # {} => Collected(found, errors, status, severity, otherwise) = Unknown
           /\ found = {} /\ errors = {} => Collected(found, errors, status, severity, otherwise) = otherwise
           /\ found # {} /\ errors # {} =>
                Collected(found, errors, status, severity, otherwise).confidence = "medium"
BY DEF Collected, Finding

-----------------------------------------------------------------------------
LEMMA CommandsSucceeded ==
    ASSUME Answered PROVE \A w \in {Active, Enabled, Show} \cap DOMAIN obs : obs[w].returncode = 0
BY CommandLooks DEF Answered, Taken

(* An exposed path of a service that runs is among those found.            *)
LEMMA ExposedPathFound ==
    ASSUME Inductive, Finished, Answered, check = ServicesCheck,
           NEW se \in Runs, NEW o \in PathsOf(se[2]), o \in Exposures
    PROVE  /\ LookFor("stat", o, se) \in UnsafePaths(obs)
           /\ UnitOf(obs, se[1]) = world["systemd"][se[1]]
           /\ Missing127(obs) = {} /\ Services(obs) # {} /\ ~ShowFailed(obs)
<1> DEFINE stat == LookFor("stat", o, se)
<1>1. o \in Still /\ Judgeable(o) /\ Violates(o, world[o])
  BY DEF Exposures, InReach
<1>2. /\ stat \in Taken(obs, "stat") /\ obs[stat] = world[o]
      /\ obs[LookFor("resolve", se[2], se)].target = world[se[2]].target
      /\ Show \in DOMAIN obs /\ Missing127(obs) = {} /\ Services(obs) # {}
      /\ UnitOf(obs, se[1]) = world["systemd"][se[1]]
  BY <1>1, CommandsSucceeded, ProgramInspected
<1>3. ~ShowFailed(obs)
  BY <1>2, CommandsSucceeded DEF ShowFailed
<1>4. world[o].kind \notin StatFails /\ world[o].unsafe = TRUE
  BY <1>1, ViolatesOf DEF Inductive, Types
<1>5. o = world[se[2]].target => world[o].kind = "file"
  <2>1. check \in Checks /\ check \notin PolicyChecks
    BY Families DEF Inductive, Types, SudoChecks
  <2>2. \A run \in Runs : o \in PathsOf(run[2]) /\ o = world[run[2]].target => world[o].kind = "file"
    BY <1>1, <2>1 DEF Judgeable
  <2> QED BY <2>2
<1>6. IsTarget(obs, stat) => obs[stat].kind = "file"
  BY <1>2, <1>5 DEF IsTarget, LookFor
<1>7. stat \in UnsafePaths(obs)
  <2> HIDE DEF stat
  <2> QED BY <1>2, <1>4, <1>6 DEF UnsafePaths, Judged
<1> QED BY <1>2, <1>3, <1>7

(* A service that runs with privileges, or a command of it that does, and  *)
(* whose path is unsafe all along makes the check fail.                    *)
LEMMA PrivilegeFails ==
    ASSUME Inductive, Finished, Answered, check = ServicesCheck, NEW se \in Runs,
           PathsOf(se[2]) \cap Exposures # {}, RunsPrivileged(world["systemd"][se[1]], se[2])
    PROVE  findings[check].status = "fail"
<1>1. PICK o \in PathsOf(se[2]) : o \in Exposures
  OBVIOUS
<1>2. /\ LookFor("stat", o, se) \in UnsafePaths(obs)
      /\ UnitOf(obs, se[1]) = world["systemd"][se[1]]
      /\ Missing127(obs) = {} /\ Services(obs) # {} /\ ~ShowFailed(obs)
  BY <1>1, ExposedPathFound
<1>3. Privileged(obs, se)
  BY <1>2 DEF Privileged, RunsPrivileged
<1>4. LookFor("stat", o, se).of = se
  BY DEF LookFor
<1>5. PrivilegedUnsafe(obs) # {}
  BY <1>2, <1>3, <1>4 DEF PrivilegedUnsafe
<1>6. ServicesFinding(obs).status = "fail"
  BY <1>2, <1>5, FoundDecides DEF ServicesFinding
<1> QED BY <1>6, FinishedWith DEF Single

(* No positive finding is one of these.                                    *)
LEMMA NotPositive ==
    \A f : f \in {Unknown, Unfinished, Protected, RunnerError[check]} \cup
                 {Nothing(c) : c \in {"high", "medium", "low"}} => f.status \notin Positive
BY DEF Unknown, Unfinished, Protected, Nothing, RunnerError, Single, Finding, Positive

(* A look that showed a violation tells of one that was there.             *)
LEMMA SeenWasThere ==
    ASSUME Inductive, NEW w \in DOMAIN obs, w.call \notin {"run", "list"}, Violates(w.at, obs[w])
    PROVE  \E o \in DOMAIN world : \E value \in ever[o] : Violates(o, value)
BY DEF Inductive, Types, Genuine, GenuineLook

(* The findings of the check of service paths are positive for a reason.   *)
LEMMA ServicesForAReason ==
    ASSUME ServicesFinding(obs).status \in Positive
    PROVE  \E w \in Judged(obs) : obs[w].unsafe = TRUE
<1>1. CASE PrivilegedUnsafe(obs) # {}
  BY <1>1 DEF PrivilegedUnsafe, UnsafePaths
<1>2. CASE PrivilegedUnsafe(obs) = {}
  <2>1. ServicesFinding(obs) \in
           {Unknown, Nothing("high"), Collected(UnsafePaths(obs), ExecutionErrors(obs), "review", "medium", Protected)}
    BY <1>2 DEF ServicesFinding
  <2>2. UnsafePaths(obs) = {} =>
           Collected(UnsafePaths(obs), ExecutionErrors(obs), "review", "medium", Protected)
              \in {Unknown, Protected}
    BY FoundDecides
  <2>3. UnsafePaths(obs) # {}
    BY <2>1, <2>2, NotPositive
  <2> QED BY <2>3 DEF UnsafePaths
<1> QED BY <1>1, <1>2

LEMMA ServicesReal ==
    ASSUME Inductive, check = ServicesCheck, ServicesFinding(obs).status \in Positive
    PROVE  \E o \in DOMAIN world : \E value \in ever[o] : Violates(o, value)
<1>1. PICK w \in Judged(obs) : obs[w].unsafe = TRUE
  BY ServicesForAReason
<1>2. w \in DOMAIN obs /\ w.call = "stat" /\ obs[w].kind \notin StatFails
  BY DEF Judged, Taken
<1>3. w.at \in ExecutionPath
  BY <1>2 DEF Inductive, InPlace, WellPlaced, ServicesPlace
<1>4. Violates(w.at, obs[w])
  BY <1>1, <1>2, <1>3, ViolatesOf DEF Inductive, Types
<1> QED BY <1>2, <1>4, SeenWasThere

(* An exposed path is found, with or without privileges.                   *)
LEMMA ServicesReported ==
    ASSUME Inductive, Finished, Answered, check = ServicesCheck, NEW o \in Exposures
    PROVE  ServicesFinding(obs).status \in Positive
<1>1. o \in InReach /\ Violates(o, world[o])
  BY DEF Exposures
<1>2. o \in ExecutionPath
  BY <1>1, ViolatesOf DEF Inductive, Types
<1>3. o \in {se[2] : se \in Runs} \cup UNION {PathsOf(se[2]) : se \in Runs}
  BY <1>1, Families DEF InReach, Inductive, Types, ServicesCheck, SudoChecks, PolicyChecks
<1>4. \A se \in Runs : se[2] \in Executable
  BY DEF Runs
<1>5. PICK se \in Runs : o \in PathsOf(se[2])
  BY <1>2, <1>3, <1>4, ServicePathsAssumption
<1>6. /\ UnsafePaths(obs) # {}
      /\ Missing127(obs) = {} /\ Services(obs) # {} /\ ~ShowFailed(obs)
  BY <1>5, ExposedPathFound
<1>7. ServicesFinding(obs).status \in {"fail", "review"}
  BY <1>6, FoundDecides DEF ServicesFinding
<1> QED BY <1>7 DEF Positive

(* What a finding must not be where something could not be seen.           *)
Guarded(f) == f.status \notin {"pass", "not_applicable"} /\ f.confidence # "high"

LEMMA UnknownIsGuarded == Guarded(Unknown) /\ Unfinished.status \notin {"pass", "not_applicable"}
BY DEF Guarded, Unknown, Unfinished, Finding

LEMMA ErrorsGuard ==
    ASSUME NEW found, NEW errors, NEW status \in Positive, NEW severity, NEW otherwise, errors # {}
    PROVE  Guarded(Collected(found, errors, status, severity, otherwise))
BY UnknownIsGuarded DEF Collected, Finding, Guarded, Positive

(* With errors the check of service paths claims nothing.                  *)
LEMMA ServicesErrorsGuard ==
    ASSUME ExecutionErrors(obs) # {}, Services(obs) = {} => DiscoveryErrors(obs) # {}
    PROVE  Guarded(ServicesFinding(obs))
<1>1. \A found, severity : \A status \in {"fail", "review"} :
         Guarded(Collected(found, ExecutionErrors(obs), status, severity, Protected))
  BY ErrorsGuard DEF Positive
<1>2. ServicesFinding(obs) \in
         {Unknown, Collected(PrivilegedUnsafe(obs), ExecutionErrors(obs), "fail", "high", Protected),
          Collected(UnsafePaths(obs), ExecutionErrors(obs), "review", "medium", Protected)}
  BY DEF ServicesFinding
<1> QED BY <1>1, <1>2, UnknownIsGuarded

(* Without errors of the inventories a service that is active or enabled   *)
(* all along is known.                                                     *)
LEMMA ServiceKnown ==
    ASSUME Inductive, Finished, check = ServicesCheck, "systemd" \in Still, DiscoveryErrors(obs) = {},
           NEW s \in Service, world["systemd"][s].active \/ world["systemd"][s].enabled
    PROVE  /\ s \in Services(obs) /\ Show \in DOMAIN obs
           /\ \A w \in {Active, Enabled} : obs[w].returncode = 0
<1>1. ServicesReady(obs) = {}
  BY FinishedFacts, ReadyOf
<1>2. {Active, Enabled} \subseteq DOMAIN obs
  BY <1>1 DEF ServicesReady
<1>3. obs[Active].returncode = 0 /\ obs[Enabled].returncode = 0
  BY DEF DiscoveryErrors, Discovery
<1>4. /\ obs[Active].stdout = {t \in Service : world["systemd"][t].active}
      /\ obs[Enabled].stdout = {t \in Service : world["systemd"][t].enabled}
  BY <1>2, <1>3, StillFacts DEF Inductive, Genuine, GenuineLook, GenuineInventory
<1>5. s \in Services(obs)
  <2>1. \E w \in Discovery \cap DOMAIN obs : obs[w].returncode = 0 /\ s \in obs[w].stdout
    BY <1>2, <1>3, <1>4 DEF Discovery
  <2> QED BY <2>1 DEF Services
<1>6. Missing127(obs) = {} \/ Show \in DOMAIN obs
  BY <1>3 DEF Missing127, Discovery
<1>7. Show \in DOMAIN obs
  BY <1>1, <1>2, <1>5, <1>6 DEF ServicesReady
<1> QED BY <1>3, <1>5, <1>7

(* What is in the reach of the check of service paths hangs on systemd.    *)
LEMMA ServicesBlindSpot ==
    ASSUME Inductive, check = ServicesCheck, NEW o \in BlindSpots
    PROVE  /\ "systemd" \in Still
           /\ \/ \E s \in Service :
                    /\ world["systemd"][s].active \/ world["systemd"][s].enabled
                    /\ world["systemd"][s].user = "unreported" \/ DOMAIN world["systemd"][s].exec = {}
              \/ \E se \in Runs :
                    \/ o = se[2] /\ o \in Still /\ world[o].kind # "resolved"
                    \/ o \in PathsOf(se[2]) /\ o \in Still /\ world[o].kind \in StatFails
<1>1. check \in Checks /\ check \notin SudoChecks /\ check \notin PolicyChecks /\ check \notin BrowserChecks
      /\ check \notin ControlChecks /\ check # "secure-path" /\ check # "syntax" /\ check \notin FirefoxChecks
      /\ check # "extensions" /\ check \notin CommandControls
  BY Families DEF Inductive, Types, SudoChecks, PolicyChecks, BrowserChecks, ControlChecks, CommandControls
<1>2. "sudoers.d" \notin Still
  BY <1>1, WorldAssumption, StillFacts DEF Inductive
<1>3. CASE o \in {s \in {"systemd"} \cap Still : \E t \in Service :
                /\ world[s][t].active \/ world[s][t].enabled
                /\ world[s][t].user = "unreported" \/ DOMAIN world[s][t].exec = {}}
  BY <1>3
<1>4. CASE o \in InReach /\ Hidden(o)
  <2>1. o \in Still /\ o \in {se[2] : se \in Runs} \cup UNION {PathsOf(se[2]) : se \in Runs}
    BY <1>1, <1>4 DEF InReach, ServicesCheck, PolicyChecks
  <2>2. \/ o \in Executable /\ world[o].kind # "resolved"
        \/ o \notin Executable /\ world[o].kind \in StatFails
    BY <1>1, <1>4 DEF Hidden
  <2>3. PICK se \in Runs : o = se[2] \/ o \in PathsOf(se[2])
    BY <2>1
  <2>4. "systemd" \in Still /\ se[2] \in Executable
    BY DEF Runs
  <2>5. o \in PathsOf(se[2]) => o \in ExecutionPath
    <3> SUFFICES ASSUME o \in PathsOf(se[2]) PROVE o \in ExecutionPath
      OBVIOUS
    <3>1. se[2] \in Still /\ world[se[2]].kind = "resolved"
          /\ o \in {world[se[2]].target} \cup world[se[2]].above
      BY DEF PathsOf, Stays
    <3>2. world[se[2]] \in Possible[ServicesCheck][se[2]] /\ ServicesCheck \in Checks
      BY <3>1, StillFacts DEF Inductive, Types
    <3> QED BY <2>4, <3>1, <3>2, WorldAssumption
  <2>6. o = se[2] => world[o].kind # "resolved"
    BY <2>2, <2>4
  <2>7. o \in PathsOf(se[2]) => world[o].kind \in StatFails
    BY <2>2, <2>5, ServicePathsAssumption
  <2> QED BY <2>1, <2>3, <2>4, <2>6, <2>7
<1> QED BY <1>2, <1>3, <1>4 DEF BlindSpots

LEMMA ServicesBlind ==
    ASSUME Inductive, Finished, check = ServicesCheck, NEW o \in BlindSpots
    PROVE  Guarded(ServicesFinding(obs))
<1>1. "systemd" \in Still
  BY ServicesBlindSpot
<1>2. PICK s \in Service : world["systemd"][s].active \/ world["systemd"][s].enabled
  <2>1. CASE \E se \in Runs : TRUE
    <3>1. PICK se \in Runs : TRUE
      BY <2>1
    <3>2. se[1] \in Service /\ (world["systemd"][se[1]].active \/ world["systemd"][se[1]].enabled)
      BY <1>1 DEF Runs
    <3> QED BY <3>2
  <2> QED BY <2>1, ServicesBlindSpot
<1>3. CASE DiscoveryErrors(obs) # {}
  BY <1>3, ServicesErrorsGuard DEF ExecutionErrors
<1>4. CASE DiscoveryErrors(obs) = {} /\ obs[Show].returncode # 0
  <2>1. Services(obs) # {}
    BY <1>1, <1>2, <1>4, ServiceKnown
  <2>2. Show \in ExecutionErrors(obs)
    BY <1>4 DEF ExecutionErrors
  <2> QED BY <2>1, <2>2, ServicesErrorsGuard
<1>5. CASE DiscoveryErrors(obs) = {} /\ obs[Show].returncode = 0
  <2>1. Services(obs) # {} /\ \A w \in {Active, Enabled, Show} : obs[w].returncode = 0
    BY <1>1, <1>2, <1>5, ServiceKnown
  <2>2. CASE \E t \in Service :
                /\ world["systemd"][t].active \/ world["systemd"][t].enabled
                /\ world["systemd"][t].user = "unreported" \/ DOMAIN world["systemd"][t].exec = {}
    <3>1. PICK t \in Service :
                /\ world["systemd"][t].active \/ world["systemd"][t].enabled
                /\ world["systemd"][t].user = "unreported" \/ DOMAIN world["systemd"][t].exec = {}
      BY <2>2
    <3>2. t \in Services(obs) /\ obs[Show].unit = world["systemd"]
      BY <1>1, <2>1, <3>1, ServiceDescribed
    <3>3. Incomplete(obs, t)
      BY <3>1, <3>2 DEF Incomplete, UnitOf
    <3>4. Look("service", t) \in ExecutionErrors(obs)
      BY <3>2, <3>3 DEF ExecutionErrors
    <3> QED BY <2>1, <3>4, ServicesErrorsGuard
  <2>3. ASSUME NEW se \in Runs, o = se[2], o \in Still, world[o].kind # "resolved"
        PROVE  Guarded(ServicesFinding(obs))
    <3>1. /\ LookFor("resolve", se[2], se) \in Taken(obs, "resolve")
          /\ obs[LookFor("resolve", se[2], se)] \in ever[se[2]]
      BY <2>1, ProgramInspected
    <3>2. obs[LookFor("resolve", se[2], se)] = world[o]
      BY <2>3, <3>1, StillFacts
    <3>3. LookFor("resolve", se[2], se) \in PathErrorsOf(obs)
      BY <2>3, <3>1, <3>2 DEF PathErrorsOf, Resolved
    <3> QED BY <2>1, <3>3, ServicesErrorsGuard DEF ExecutionErrors
  <2>4. ASSUME NEW se \in Runs, o \in PathsOf(se[2]), o \in Still, world[o].kind \in StatFails
        PROVE  Guarded(ServicesFinding(obs))
    <3>1. /\ LookFor("stat", o, se) \in Taken(obs, "stat")
          /\ obs[LookFor("stat", o, se)] = world[o]
      BY <2>1, <2>4, ProgramInspected
    <3>2. LookFor("stat", o, se) \in PathErrorsOf(obs)
      BY <2>4, <3>1 DEF PathErrorsOf, Judged
    <3> QED BY <2>1, <3>2, ServicesErrorsGuard DEF ExecutionErrors
  <2> QED BY <2>2, <2>3, <2>4, ServicesBlindSpot
<1> QED BY <1>3, <1>4, <1>5

-----------------------------------------------------------------------------
(* A directory that is there all along is listed when it is looked for,    *)
(* and what is in it all along is in the listing.                          *)
LEMMA ListedAllAlong ==
    ASSUME Inductive, NEW d, Stays(d, {"dir"}), Look("list", d) \in DOMAIN obs
    PROVE  /\ obs[Look("list", d)].kind = "dir"
           /\ \A e \in Content(d) : e \in Still /\ world[e].kind # "absent" =>
                 e \in obs[Look("list", d)].entries
           /\ \A e \in Content(d) : e \in Still /\ world[e].kind = "absent" =>
                 e \notin obs[Look("list", d)].entries
           /\ obs[Look("list", d)].entries \subseteq Content(d)
<1> DEFINE w == Look("list", d)
<1>1. w.call = "list" /\ w.at = d
  BY DEF Look, LookFor
<1> HIDE DEF w
<1>2. GenuineListing(d, obs[w])
  BY <1>1 DEF w, Inductive, Genuine, GenuineLook
<1>3. d \in Still /\ world[d].kind = "dir"
  BY DEF Stays
<1>4. obs[w].kind = "dir"
  BY <1>2, <1>3, StillFacts DEF GenuineListing
<1>5. \A e \in Still : ever[e] = {world[e]}
  BY StillFacts
<1> QED BY <1>2, <1>4, <1>5 DEF GenuineListing, w

(* A profile that is there all along, in a directory that is, is found.    *)
LEMMA ProfileFound ==
    ASSUME Inductive, Finished, check \in BrowserChecks, NEW p \in ProfilesInReach
    PROVE  /\ p \in Relevant(check, obs) /\ p \in Still /\ world[p].kind = "profile"
           /\ ProfileLooks(check, obs) = {}
<1>1. BrowserReady(check, obs) = {}
  BY FinishedFacts, ReadyOf
<1>2. DiscoveryLooks(obs) = {} /\ ProfileLooks(check, obs) = {}
  BY <1>1, BothEmpty DEF BrowserReady
<1>3. /\ p \in ProfilesFor(check) /\ p \in Still /\ world[p].kind = "profile"
      /\ \A d \in ProfileRoot : p \in Profiles[d] => Stays(d, {"dir"})
  BY DEF ProfilesInReach, Stays
<1>4. PICK d \in ProfileRoot : p \in Profiles[d]
  BY <1>3 DEF ProfilesFor
<1> DEFINE dirs   == Directories(obs) \cap ProfileRoot
           listed == {e \in dirs : Look("list", e) \in DOMAIN obs}
           entered == {Look("is_profile", q) : q \in UNION {Entries(obs, e) : e \in listed}}
<1>5. /\ entered \subseteq DOMAIN obs
      /\ {Look("list", e) : e \in dirs} \subseteq DOMAIN obs
      /\ {Look("is_dir", e) : e \in ProfileRoot} \subseteq DOMAIN obs
  <2>1. DiscoveryLooks(obs) = InOrder(Pending(entered, obs),
           InOrder(Pending({Look("list", e) : e \in dirs}, obs),
                   Pending({Look("is_dir", e) : e \in ProfileRoot}, obs)))
    BY DEF DiscoveryLooks
  <2> HIDE DEF entered, dirs
  <2> QED BY <1>2, <2>1, BothEmpty, NonePending
<1>6. d \in dirs
  <2> DEFINE test == Look("is_dir", d)
  <2>1. test.call = "is_dir" /\ test.at = d /\ test \in DOMAIN obs
    BY <1>5 DEF Look, LookFor
  <2> HIDE DEF test
  <2>2. obs[test].kind = "dir"
    BY <1>3, <1>4, <2>1, StillFacts DEF Stays
  <2>3. test \in {v \in Taken(obs, "is_dir") : obs[v].kind \in {"dir", "unlistable"}}
    BY <2>1, <2>2 DEF Taken
  <2> QED BY <1>4, <2>1, <2>3 DEF Directories
<1>7. d \in listed
  BY <1>5, <1>6
<1>8. p \in Entries(obs, d)
  BY <1>3, <1>4, <1>7, ContentOf, ListedAllAlong DEF Entries
<1>9. p \in UNION {Entries(obs, e) : e \in listed}
  BY <1>7, <1>8
<1>10. Look("is_profile", p) \in DOMAIN obs
  BY <1>5, <1>9
<1>11. p \in FoundProfiles(obs)
  <2> DEFINE test == Look("is_profile", p)
  <2>1. test.call = "is_profile" /\ test.at = p /\ test \in DOMAIN obs
    BY <1>10 DEF Look, LookFor
  <2> HIDE DEF test
  <2>2. obs[test] = world[p]
    BY <1>3, <2>1, StillFacts
  <2> QED BY <1>3, <2>1, <2>2 DEF FoundProfiles, Taken
<1> QED BY <1>2, <1>3, <1>11 DEF Relevant

(* What a check reads in a profile that is there all along.                *)
LEMMA ProfileRead ==
    ASSUME Inductive, Finished, check \in BrowserChecks, NEW p \in ProfilesInReach
    PROVE  /\ check = "profile-permissions" =>
                 Look("stat", p) \in Taken(obs, "stat") /\ obs[Look("stat", p)] = world[p]
           /\ check \in FirefoxChecks =>
                 Look("read", p) \in Taken(obs, "read") /\ obs[Look("read", p)] = world[p]
<1>1. p \in Relevant(check, obs) /\ p \in Still /\ ProfileLooks(check, obs) = {}
  BY ProfileFound
<1>2. ASSUME NEW call \in {"stat", "read"}, Look(call, p) \in DOMAIN obs
      PROVE  Look(call, p) \in Taken(obs, call) /\ obs[Look(call, p)] = world[p]
  <2> DEFINE w == Look(call, p)
  <2>1. w.call = call /\ w.at = p
    BY DEF Look, LookFor
  <2> HIDE DEF w
  <2>2. w \in DOMAIN obs
    BY <1>2 DEF w
  <2>3. w \in Taken(obs, call) /\ obs[w] = world[p]
    BY <1>1, <2>1, <2>2, StillFacts DEF Taken
  <2> QED BY <2>3 DEF w
<1>3. CASE check = "profile-permissions"
  <2>1. {Look("stat", q) : q \in Relevant(check, obs)} \subseteq DOMAIN obs
    <3>1. Pending({Look("stat", q) : q \in Relevant(check, obs)}, obs) = {}
      BY <1>1, <1>3 DEF ProfileLooks, FirefoxChecks
    <3> QED BY <3>1, NonePending
  <2> QED BY <1>1, <1>2, <1>3, <2>1 DEF FirefoxChecks
<1>4. CASE check \in FirefoxChecks
  <2>1. {Look("read", q) : q \in Relevant(check, obs)} \subseteq DOMAIN obs
    BY <1>1, <1>4, NonePending DEF ProfileLooks, FirefoxChecks
  <2> QED BY <1>1, <1>2, <1>4, <2>1 DEF FirefoxChecks
<1> QED BY <1>3, <1>4

-----------------------------------------------------------------------------
(* The last line about a preference decides, wherever it is.               *)
LEMMA LastCounts ==
    ASSUME NEW text \in Seq(STRING \X STRING), NEW key, NEW setting
    PROVE  /\ LastSays(text, key, setting) => Preference(text, key) = setting
           /\ setting # "unset" /\ Preference(text, key) = setting => LastSays(text, key, setting)
<1> DEFINE at == {i \in DOMAIN text : text[i][1] = key}
           last == CHOOSE i \in at : \A j \in at : j <= i
<1>1. Len(text) \in Nat /\ DOMAIN text = 1..Len(text) /\ \A i \in DOMAIN text : text[i] \in STRING \X STRING
  BY ElementOfSeq, LenProperties
<1>2. Preference(text, key) = IF at = {} THEN "unset" ELSE text[last][2]
  BY DEF Preference
<1>3. ASSUME LastSays(text, key, setting) PROVE Preference(text, key) = setting
  <2>1. PICK i \in DOMAIN text : /\ text[i] = <<key, setting>>
                                /\ \A j \in (i + 1)..Len(text) : text[j][1] # key
    BY <1>3 DEF LastSays
  <2>2. i \in at /\ \A j \in at : j <= i
    BY <1>1, <2>1
  <2>3. last = i
    BY <1>1, <2>2
  <2> QED BY <1>2, <2>1, <2>2, <2>3
<1>4. ASSUME setting # "unset", Preference(text, key) = setting PROVE LastSays(text, key, setting)
  <2>1. at # {}
    BY <1>2, <1>4
  <2>2. IsFiniteSet(at)
    <3>1. IsFiniteSet(DOMAIN text)
      BY <1>1, FS_Interval
    <3>2. at \in SUBSET DOMAIN text
      OBVIOUS
    <3> HIDE DEF at
    <3> QED BY <3>1, <3>2, FS_Subset
  <2>3. [i \in at |-> i] \in [at -> Int]
    BY <1>1
  <2>4. \E i \in at : \A j \in at : j <= i
    <3> DEFINE f == [i \in at |-> i]
    <3>1. PICK i \in at : \A j \in at : f[j] <= f[i]
      <4> HIDE DEF at, f
      <4>1. f \in [at -> Int]
        BY <2>3 DEF f
      <4> QED BY <2>1, <2>2, <4>1, GreatestOf
    <3> QED BY <3>1
  <2>5. last \in at /\ \A j \in at : j <= last
    BY <2>4
  <2> HIDE DEF last
  <2>6. text[last] = <<key, setting>>
    <3>1. text[last] \in STRING \X STRING /\ text[last][1] = key /\ text[last][2] = setting
      BY <1>1, <1>2, <1>4, <2>1, <2>5
    <3> QED BY <3>1
  <2>7. \A j \in (last + 1)..Len(text) : text[j][1] # key
    BY <1>1, <2>5, SMTT(30)
  <2> QED BY <2>5, <2>6, <2>7 DEF LastSays
<1> QED BY <1>3, <1>4

LEMMA BrowserReach ==
    ASSUME Inductive, check \in BrowserChecks, NEW o \in InReach
    PROVE  /\ o \in Still
           /\ check = "extensions" => o \in ExtensionsInReach
           /\ check # "extensions" => o \in ProfilesInReach
<1>1. check \notin SudoChecks /\ check \notin PolicyChecks /\ check # ServicesCheck /\ check \notin ControlChecks
      /\ check # "syntax" /\ check \notin {"secure-path", "passwordless", "broad"}
  BY Families DEF Inductive, Types, SudoChecks, PolicyChecks
<1>2. CASE check = "extensions"
  BY <1>1, <1>2 DEF InReach
<1>3. CASE check # "extensions"
  BY <1>1, <1>3 DEF InReach
<1> QED BY <1>2, <1>3

(* A manifest that is there all along is read.                             *)
LEMMA ManifestRead ==
    ASSUME Inductive, Finished, check = "extensions", NEW o \in ExtensionsInReach, o \in Still,
           world[o].kind \in {"manifest", "broken"}
    PROVE  /\ Look("read", o) \in Taken(obs, "read") /\ obs[Look("read", o)] = world[o]
           /\ Relevant(check, obs) # {}
<1>1. PICK p \in ProfilesInReach : Stays(Extensions[p], {"dir"}) /\ o \in Extension[Extensions[p]]
  BY DEF ExtensionsInReach
<1>2. check \in BrowserChecks /\ "extensions" \notin FirefoxChecks
  BY DEF BrowserChecks, FirefoxChecks
<1>3. p \in Relevant(check, obs) /\ p \in ProfilesFor(check) /\ ProfileLooks(check, obs) = {}
  BY <1>1, <1>2, ProfileFound DEF Relevant
<1>4. p \in FoundProfiles(obs)
  BY <1>3 DEF Relevant
<1> DEFINE d      == Extensions[p]
           dirs   == {Extensions[q] : q \in FoundProfiles(obs)}
           opened == Directories(obs) \cap dirs
           listed == {e \in opened : Look("list", e) \in DOMAIN obs}
           found  == UNION {Entries(obs, e) : e \in listed}
           manifests == {e \in found : /\ Look("glob", e) \in DOMAIN obs
                                       /\ obs[Look("glob", e)].kind \in {"manifest", "broken"}}
<1>5. /\ {Look("read", e) : e \in manifests} \subseteq DOMAIN obs
      /\ {Look("glob", e) : e \in found} \subseteq DOMAIN obs
      /\ {Look("list", e) : e \in opened} \subseteq DOMAIN obs
      /\ {Look("is_dir", e) : e \in dirs} \subseteq DOMAIN obs
  <2>1. ExtensionLooks(obs) = InOrder(Pending({Look("read", e) : e \in manifests}, obs),
           InOrder(Pending({Look("glob", e) : e \in found}, obs),
           InOrder(Pending({Look("list", e) : e \in opened}, obs),
                   Pending({Look("is_dir", e) : e \in dirs}, obs))))
    BY DEF ExtensionLooks
  <2>2. ExtensionLooks(obs) = {}
    BY <1>3 DEF ProfileLooks, FirefoxChecks
  <2> HIDE DEF manifests, found, opened, dirs
  <2> QED BY <2>1, <2>2, BothEmpty, NonePending
<1>6. d \in DOMAIN Extension /\ Content(d) = Extension[d]
  <2>1. PICK r \in ProfileRoot : p \in Profiles[r]
    BY <1>3 DEF ProfilesFor
  <2> QED BY <2>1, BrowserAssumption, ContentOf
<1>7. d \in opened
  <2> DEFINE test == Look("is_dir", d)
  <2>1. d \in dirs
    BY <1>4
  <2>2. test.call = "is_dir" /\ test.at = d /\ test \in DOMAIN obs
    BY <1>5, <2>1 DEF Look, LookFor
  <2> HIDE DEF test, d
  <2>3. obs[test].kind = "dir"
    BY <1>1, <2>2, StillFacts DEF Stays, d
  <2>4. test \in {v \in Taken(obs, "is_dir") : obs[v].kind \in {"dir", "unlistable"}}
    BY <2>2, <2>3 DEF Taken
  <2> QED BY <2>1, <2>2, <2>4 DEF Directories
<1>8. d \in listed
  BY <1>5, <1>7
<1>9. o \in Entries(obs, d)
  BY <1>1, <1>6, <1>8, ListedAllAlong DEF Entries
<1>10. o \in found
  BY <1>8, <1>9
<1>11. o \in manifests
  <2> DEFINE glob == Look("glob", o)
  <2>1. glob.call = "glob" /\ glob.at = o /\ glob \in DOMAIN obs
    BY <1>5, <1>10 DEF Look, LookFor
  <2> HIDE DEF glob
  <2>2. obs[glob] = world[o]
    BY <2>1, StillFacts
  <2> HIDE DEF found
  <2> QED BY <1>10, <2>1, <2>2 DEF glob
<1>12. Look("read", o) \in DOMAIN obs
  BY <1>5, <1>11
<1> HIDE DEF manifests, found, opened, dirs, listed, d
<1> DEFINE w == Look("read", o)
<1>13. w.call = "read" /\ w.at = o
  BY DEF Look, LookFor
<1> HIDE DEF w
<1>14. w \in Taken(obs, "read") /\ obs[w] = world[o]
  BY <1>12, <1>13, StillFacts DEF Taken, w
<1> QED BY <1>3, <1>14 DEF w

(* Exposed profiles and powerful extensions are found.                     *)
LEMMA BrowserReported ==
    ASSUME Inductive, Finished, check \in BrowserChecks, NEW o \in Exposures
    PROVE  BrowserFinding(check, obs).status \in Positive
<1>1. o \in InReach /\ Judgeable(o) /\ BrowserViolates(o, world[o])
  BY ViolatesOf DEF Exposures, Inductive, Types
<1>2. CASE check = "profile-permissions"
  <2>1. o \in ProfilesInReach /\ Relevant(check, obs) # {}
    BY <1>1, <1>2, BrowserReach, ProfileFound
  <2>2. world[o].kind # "absent" /\ world[o].exposed
    BY <1>1, <1>2 DEF BrowserViolates, FirefoxChecks
  <2>3. Look("stat", o) \in Taken(obs, "stat") /\ obs[Look("stat", o)] = world[o]
    BY <1>2, <2>1, ProfileRead
  <2>4. PermissionsFinding(obs) = Finding("fail", "high", "high")
    BY <2>2, <2>3 DEF PermissionsFinding
  <2> QED BY <1>2, <2>1, <2>4 DEF BrowserFinding, Finding, Positive
<1>3. CASE check \in FirefoxChecks
  <2>1. o \in ProfilesInReach /\ Relevant(check, obs) # {} /\ o \in Still
    BY <1>1, <1>3, BrowserReach, ProfileFound DEF FirefoxChecks
  <2>2. /\ Readable(world[o])
        /\ check = "https-only" => LastSays(world[o].text, "https", "false")
        /\ check # "https-only" =>
              LastSays(world[o].text, "tls.min", "1") \/ LastSays(world[o].text, "roots", "true")
    BY <1>1, <1>3 DEF BrowserViolates, FirefoxChecks
  <2>3. Look("read", o) \in Taken(obs, "read") /\ obs[Look("read", o)] = world[o]
    BY <1>3, <2>1, ProfileRead
  <2>4. world[o].text \in Seq(STRING \X STRING)
    <3>1. world[o] \in Possible[check][o] /\ check \in Checks /\ o \in ProfilesFor(check)
      BY <2>1, StillFacts DEF Inductive, Types, ProfilesInReach
    <3> QED BY <1>3, <2>2, <3>1, WorldAssumption DEF Readable
  <2>5. Look("read", o) \in ReadTexts(obs)
    BY <2>2, <2>3 DEF ReadTexts
  <2>6. CASE check = "https-only"
    <3>1. Preference(obs[Look("read", o)].text, "https") = "false"
      BY <2>2, <2>3, <2>4, <2>6, LastCounts
    <3>2. HttpsOnlyFinding(obs).status = "fail"
      BY <2>5, <3>1 DEF HttpsOnlyFinding, Finding
    <3> QED BY <2>1, <2>6, <3>2 DEF BrowserFinding, Positive
  <2>7. CASE check = "preferences"
    <3>1. \/ Preference(obs[Look("read", o)].text, "tls.min") = "1"
          \/ Preference(obs[Look("read", o)].text, "roots") = "true"
      BY <2>2, <2>3, <2>4, <2>7, LastCounts
    <3>2. LegacyTls(obs) # {} \/ EnterpriseRoots(obs) # {}
      BY <2>5, <3>1 DEF LegacyTls, EnterpriseRoots
    <3>3. PreferencesFinding(obs).status \in {"fail", "review"}
      <4>1. CASE LegacyTls(obs) # {}
        BY <4>1 DEF PreferencesFinding, Finding
      <4>2. CASE LegacyTls(obs) = {} /\ EnterpriseRoots(obs) # {}
        BY <4>2 DEF PreferencesFinding, Finding
      <4> QED BY <3>2, <4>1, <4>2
    <3> QED BY <2>1, <2>7, <3>3 DEF BrowserFinding, Positive
  <2> QED BY <1>3, <2>6, <2>7 DEF FirefoxChecks
<1>4. CASE check = "extensions"
  <2>1. o \in ExtensionsInReach /\ o \in Still
    BY <1>1, <1>4, BrowserReach
  <2>2. world[o].kind = "manifest" /\ world[o].powers # {}
    BY <1>1, <1>4 DEF BrowserViolates, FirefoxChecks
  <2>3. /\ Look("read", o) \in Taken(obs, "read") /\ obs[Look("read", o)] = world[o]
        /\ Relevant(check, obs) # {}
    BY <1>4, <2>1, <2>2, ManifestRead
  <2>4. Look("read", o) \in Manifests(obs)
    BY <2>2, <2>3 DEF Manifests
  <2>5. UNION {obs[w].powers : w \in Manifests(obs)} # {}
    BY <2>2, <2>3, <2>4
  <2>6. ExtensionsFinding(obs).status = "review"
    BY <2>5, FoundDecides DEF ExtensionsFinding
  <2> QED BY <1>4, <2>3, <2>6 DEF BrowserFinding, Positive
<1> QED BY <1>2, <1>3, <1>4 DEF BrowserChecks

(* What they report was there.                                             *)
LEMMA PermissionsForAReason ==
    ASSUME BrowserFinding("profile-permissions", obs).status \in Positive
    PROVE  \E w \in Taken(obs, "stat") : obs[w].kind # "absent" /\ obs[w].exposed
<1> DEFINE looked  == Taken(obs, "stat")
           exposed == {w \in looked : obs[w].kind # "absent" /\ obs[w].exposed}
           errors  == {w \in looked : obs[w].kind = "absent"}
<1>1. BrowserFinding("profile-permissions", obs) \in {Nothing("high"), PermissionsFinding(obs)}
  BY DEF BrowserFinding
<1>2. exposed = {} => PermissionsFinding(obs) \in {Finding("unknown", "info", "high"), Protected}
  BY DEF PermissionsFinding
<1>3. \A f \in {Nothing("high"), Finding("unknown", "info", "high"), Protected} : f.status \notin Positive
  BY DEF Nothing, Protected, Finding, Positive
<1> QED BY <1>1, <1>2, <1>3

LEMMA PreferencesForAReason ==
    ASSUME BrowserFinding("preferences", obs).status \in Positive
    PROVE  LegacyTls(obs) # {} \/ EnterpriseRoots(obs) # {}
<1>1. BrowserFinding("preferences", obs) \in {Nothing("high"), PreferencesFinding(obs)}
  BY DEF BrowserFinding, FirefoxChecks
<1>2. LegacyTls(obs) = {} /\ EnterpriseRoots(obs) = {}
         => PreferencesFinding(obs) \in {Unknown, Finding("pass", "info", "medium")}
  BY DEF PreferencesFinding
<1>3. \A f \in {Nothing("high"), Unknown, Finding("pass", "info", "medium")} : f.status \notin Positive
  BY DEF Nothing, Unknown, Finding, Positive
<1> QED BY <1>1, <1>2, <1>3

LEMMA HttpsForAReason ==
    ASSUME BrowserFinding("https-only", obs).status \in Positive
    PROVE  \E w \in ReadTexts(obs) : Preference(obs[w].text, "https") = "false"
<1> DEFINE set(value) == {w \in ReadTexts(obs) : Preference(obs[w].text, "https") = value}
<1>1. BrowserFinding("https-only", obs) \in {Nothing("high"), HttpsOnlyFinding(obs)}
  BY DEF BrowserFinding, FirefoxChecks
<1>2. set("false") = {} => HttpsOnlyFinding(obs) \in {Protected, Unknown}
  BY DEF HttpsOnlyFinding
<1>3. \A f \in {Nothing("high"), Unknown, Protected} : f.status \notin Positive
  BY DEF Nothing, Unknown, Protected, Finding, Positive
<1> QED BY <1>1, <1>2, <1>3

LEMMA ExtensionsForAReason ==
    ASSUME BrowserFinding("extensions", obs).status \in Positive
    PROVE  \E w \in Manifests(obs) : obs[w].powers # {}
<1> DEFINE powers == UNION {obs[w].powers : w \in Manifests(obs)}
<1>1. BrowserFinding("extensions", obs) \in {Nothing("high"), ExtensionsFinding(obs)}
  BY DEF BrowserFinding, FirefoxChecks
<1>2. powers = {} => ExtensionsFinding(obs) \in {Protected, Unknown}
  BY FoundDecides DEF ExtensionsFinding
<1>3. \A f \in {Nothing("high"), Unknown, Protected} : f.status \notin Positive
  BY DEF Nothing, Unknown, Protected, Finding, Positive
<1>4. powers # {}
  BY <1>1, <1>2, <1>3
<1> QED BY <1>4

LEMMA BrowserReal ==
    ASSUME Inductive, check \in BrowserChecks, BrowserFinding(check, obs).status \in Positive
    PROVE  \E o \in DOMAIN world : \E value \in ever[o] : Violates(o, value)
<1>1. \A w \in DOMAIN obs : w.call \notin {"run", "list"} /\ BrowserViolates(w.at, obs[w])
         => \E o \in DOMAIN world : \E value \in ever[o] : Violates(o, value)
  BY SeenWasThere, ViolatesOf DEF Inductive, Types
<1>2. \A w \in DOMAIN obs : BrowserPlace(w)
  BY DEF Inductive, InPlace, WellPlaced
<1>3. CASE check = "profile-permissions"
  <2>1. PICK w \in Taken(obs, "stat") : obs[w].kind # "absent" /\ obs[w].exposed
    BY <1>3, PermissionsForAReason
  <2>2. w \in DOMAIN obs /\ w.call = "stat"
    BY DEF Taken
  <2>3. w.at \in ProfilesFor(check)
    BY <1>2, <1>3, <2>2 DEF BrowserPlace
  <2>4. BrowserViolates(w.at, obs[w])
    BY <1>3, <2>1, <2>3 DEF BrowserViolates
  <2> QED BY <1>1, <2>2, <2>4
<1>4. ASSUME check \in FirefoxChecks, NEW w \in ReadTexts(obs), NEW key, NEW setting,
             setting # "unset", Preference(obs[w].text, key) = setting
      PROVE  /\ w \in DOMAIN obs /\ w.call = "read" /\ w.at \in ProfilesFor(check)
             /\ Readable(obs[w]) /\ LastSays(obs[w].text, key, setting)
  <2>1. w \in DOMAIN obs /\ w.call = "read" /\ Readable(obs[w])
    BY DEF ReadTexts, Taken
  <2>2. w.at \in ProfilesFor(check)
    BY <1>2, <1>4, <2>1 DEF BrowserPlace
  <2>3. obs[w] \in Possible[check][w.at] /\ check \in Checks
    BY <2>1 DEF Inductive, Types, Genuine, GenuineLook
  <2>4. obs[w].text \in Seq(STRING \X STRING)
    BY <1>4, <2>1, <2>2, <2>3, WorldAssumption DEF Readable
  <2> QED BY <1>4, <2>1, <2>2, <2>4, LastCounts
<1>5. CASE check = "preferences"
  <2>1. \E w \in ReadTexts(obs) : \/ Preference(obs[w].text, "tls.min") = "1"
                                  \/ Preference(obs[w].text, "roots") = "true"
    BY <1>5, PreferencesForAReason DEF LegacyTls, EnterpriseRoots
  <2>2. PICK w \in ReadTexts(obs) : \/ Preference(obs[w].text, "tls.min") = "1"
                                    \/ Preference(obs[w].text, "roots") = "true"
    BY <2>1
  <2>3. /\ w \in DOMAIN obs /\ w.call = "read" /\ w.at \in ProfilesFor(check) /\ Readable(obs[w])
        /\ LastSays(obs[w].text, "tls.min", "1") \/ LastSays(obs[w].text, "roots", "true")
    BY <1>4, <1>5, <2>2 DEF FirefoxChecks
  <2>4. BrowserViolates(w.at, obs[w])
    BY <1>5, <2>3 DEF BrowserViolates, FirefoxChecks
  <2> QED BY <1>1, <2>3, <2>4
<1>6. CASE check = "https-only"
  <2>1. PICK w \in ReadTexts(obs) : Preference(obs[w].text, "https") = "false"
    BY <1>6, HttpsForAReason
  <2>2. /\ w \in DOMAIN obs /\ w.call = "read" /\ w.at \in ProfilesFor(check) /\ Readable(obs[w])
        /\ LastSays(obs[w].text, "https", "false")
    BY <1>4, <1>6, <2>1 DEF FirefoxChecks
  <2>3. BrowserViolates(w.at, obs[w])
    BY <1>6, <2>2 DEF BrowserViolates, FirefoxChecks
  <2> QED BY <1>1, <2>2, <2>3
<1>7. CASE check = "extensions"
  <2>1. PICK w \in Manifests(obs) : obs[w].powers # {}
    BY <1>7, ExtensionsForAReason
  <2>2. w \in DOMAIN obs /\ w.call = "read" /\ obs[w].kind = "manifest"
    BY DEF Manifests, Taken
  <2>3. PICK d \in DOMAIN Extension : w.at \in Extension[d]
    BY <1>2, <1>7, <2>2 DEF BrowserPlace
  <2>4. w.at \notin ProfilesFor(check)
    BY <2>3, BrowserAssumption DEF ProfilesFor
  <2>5. BrowserViolates(w.at, obs[w])
    BY <1>7, <2>1, <2>2, <2>4 DEF BrowserViolates
  <2> QED BY <1>1, <2>2, <2>5
<1> QED BY <1>3, <1>5, <1>6, <1>7 DEF BrowserChecks, FirefoxChecks

(* A profile or manifest that cannot be read leaves no clean result.       *)
LEMMA BrowserBlind ==
    ASSUME Inductive, Finished, check \in BrowserChecks, NEW o \in BlindSpots
    PROVE  Guarded(BrowserFinding(check, obs))
<1>1. check \in Checks /\ check \notin SudoChecks /\ check \notin PolicyChecks /\ check # ServicesCheck
      /\ check \notin ControlChecks /\ check # "secure-path" /\ check # "syntax"
      /\ check \notin CommandControls
  BY Families DEF Inductive, Types, SudoChecks, PolicyChecks, ControlChecks, CommandControls
<1>2. "sudoers.d" \notin Still /\ "systemd" \notin Still
  BY <1>1, WorldAssumption, StillFacts DEF Inductive
<1>3. o \in InReach /\ Hidden(o)
  BY <1>2 DEF BlindSpots
<1>4. \/ check \in FirefoxChecks /\ ~world[o].readable
      \/ check = "extensions" /\ world[o].kind = "broken"
  BY <1>1, <1>3 DEF Hidden
<1>5. CASE check \in FirefoxChecks
  <2>1. o \in ProfilesInReach /\ Relevant(check, obs) # {} /\ o \in Still
    BY <1>3, <1>5, BrowserReach, ProfileFound DEF FirefoxChecks
  <2>2. ~world[o].readable
    BY <1>4, <1>5 DEF FirefoxChecks
  <2>3. Look("read", o) \in Taken(obs, "read") /\ obs[Look("read", o)] = world[o]
    BY <1>5, <2>1, ProfileRead
  <2>4. Look("read", o) \in Unread(obs)
    BY <2>2, <2>3 DEF Unread, ReadTexts, Readable
  <2>5. CASE check = "https-only"
    <3> DEFINE set(value) == {w \in ReadTexts(obs) : Preference(obs[w].text, "https") = value}
               unknown    == Taken(obs, "read") \ (set("true") \cup set("false"))
    <3>1. unknown # {}
      BY <2>4 DEF Unread
    <3>2. HttpsOnlyFinding(obs) \in {Unknown, Finding("fail", "low", "medium")}
      <4>1. CASE set("false") # {}
        BY <3>1, <4>1 DEF HttpsOnlyFinding
      <4>2. CASE set("false") = {}
        BY <3>1, <4>2 DEF HttpsOnlyFinding
      <4> QED BY <4>1, <4>2
    <3> QED BY <2>1, <2>5, <3>2, UnknownIsGuarded DEF BrowserFinding, FirefoxChecks, Guarded, Finding
  <2>6. CASE check = "preferences"
    <3>1. PreferencesFinding(obs) \in
             {Unknown, Finding("fail", "high", "medium"), Finding("review", "medium", "medium")}
      <4>1. CASE LegacyTls(obs) # {}
        BY <4>1 DEF PreferencesFinding
      <4>2. CASE LegacyTls(obs) = {} /\ EnterpriseRoots(obs) # {}
        BY <4>2 DEF PreferencesFinding
      <4>3. CASE LegacyTls(obs) = {} /\ EnterpriseRoots(obs) = {}
        BY <2>4, <4>3 DEF PreferencesFinding
      <4> QED BY <4>1, <4>2, <4>3
    <3> QED BY <2>1, <2>6, <3>1, UnknownIsGuarded DEF BrowserFinding, FirefoxChecks, Guarded, Finding
  <2> QED BY <1>5, <2>5, <2>6 DEF FirefoxChecks
<1>6. CASE check = "extensions"
  <2>1. o \in ExtensionsInReach /\ o \in Still /\ world[o].kind = "broken"
    BY <1>3, <1>4, <1>6, BrowserReach DEF FirefoxChecks
  <2>2. /\ Look("read", o) \in Taken(obs, "read") /\ obs[Look("read", o)] = world[o]
        /\ Relevant(check, obs) # {}
    BY <1>6, <2>1, ManifestRead
  <2>3. Taken(obs, "read") \ Manifests(obs) # {}
    BY <2>1, <2>2 DEF Manifests
  <2>4. Guarded(ExtensionsFinding(obs))
    BY <2>3, ErrorsGuard DEF ExtensionsFinding, Positive
  <2> QED BY <1>6, <2>2, <2>4 DEF BrowserFinding, FirefoxChecks
<1> QED BY <1>4, <1>5, <1>6

-----------------------------------------------------------------------------
(* What a finding looks like: only a violation has a severity.             *)
WellFormed(f) ==
    /\ f.status \in {"pass", "fail", "review", "unknown", "error", "not_applicable"}
    /\ f.severity \in {"info", "low", "medium", "high", "critical"}
    /\ f.confidence \in {"high", "medium", "low"}
    /\ f.severity = "info" <=> f.status \notin {"fail", "review"}

Clean == {"pass", "not_applicable"}

LEMMA PlainFindings ==
    /\ \A f \in {Unknown, Unfinished, Protected, Nothing("high"), Nothing("medium"),
                 Finding("pass", "info", "medium"), Finding("error", "info", "high"),
                 Finding("unknown", "info", "high")} :
          WellFormed(f) /\ f.status \notin Positive
    /\ Unknown.status \notin Clean /\ Unfinished.status \notin Clean
    /\ \A status \in Positive, severity \in {"low", "medium", "high", "critical"},
          confidence \in {"high", "medium", "low"} :
             LET f == Finding(status, severity, confidence)
             IN  WellFormed(f) /\ f.status \in Positive /\ f.status \notin Clean
BY DEF Unknown, Unfinished, Protected, Nothing, Finding, WellFormed, Positive, Clean

(* A finding is well formed, positive exactly for a violation, and no      *)
(* clean result where nothing could be seen.                               *)
Decides(f, violates, blind) ==
    /\ WellFormed(f)
    /\ f.status \in Positive <=> violates
    /\ blind => f.status \notin Clean

LEMMA SysctlDecides ==
    ASSUME NEW value, value.kind \in {"absent", "refused", "garbage", "number"},
           NEW meets \in BOOLEAN, NEW status \in Positive, NEW severity \in {"low", "medium", "high"}
    PROVE  Decides(Sysctl(value, meets, Finding(status, severity, "high")),
                   value.kind = "number" /\ ~meets, value.kind \in {"refused", "garbage"})
<1> DEFINE f == Sysctl(value, meets, Finding(status, severity, "high"))
<1>1. CASE value.kind = "absent"
  <2>1. f = Nothing("medium")
    BY <1>1 DEF Sysctl
  <2> QED BY <1>1, <2>1, PlainFindings DEF Decides
<1>2. CASE value.kind = "refused"
  <2>1. f = Unknown
    BY <1>2 DEF Sysctl
  <2> QED BY <1>2, <2>1, PlainFindings DEF Decides
<1>3. CASE value.kind = "garbage"
  <2>1. f = Unfinished
    BY <1>3 DEF Sysctl
  <2> QED BY <1>3, <2>1, PlainFindings DEF Decides
<1>4. CASE value.kind = "number"
  <2>1. f = IF meets THEN Protected ELSE Finding(status, severity, "high")
    BY <1>4 DEF Sysctl
  <2>2. CASE meets
    BY <1>4, <2>1, <2>2, PlainFindings DEF Decides
  <2>3. CASE ~meets
    BY <1>4, <2>1, <2>3, PlainFindings DEF Decides
  <2> QED BY <2>2, <2>3
<1> QED BY <1>1, <1>2, <1>3, <1>4

LEMMA KernelDecides ==
    ASSUME NEW k \in KernelControl, NEW value, ShowsControl("kernel", k, value), value.kind # "undecodable"
    PROVE  Decides(KernelFinding(k, value), value.kind = "number" /\ value.number < Minimum[k],
                   value.kind \in {"refused", "garbage"})
<1>1. value.kind \in {"absent", "refused", "garbage", "number"}
  BY DEF ShowsControl, KindsOf
<1>2. SeverityOf[k] \in {"low", "medium", "high"} /\ Minimum[k] \in Nat
  BY ControlsAssumption DEF KernelControl
<1>3. value.kind = "number" => (value.number < Minimum[k] <=> ~(value.number >= Minimum[k]))
  BY <1>2 DEF ShowsControl
<1> DEFINE meets == value.number >= Minimum[k]
<1>4. Decides(Sysctl(value, meets, Finding("fail", SeverityOf[k], "high")),
              value.kind = "number" /\ ~meets, value.kind \in {"refused", "garbage"})
  <2>1. meets \in BOOLEAN /\ "fail" \in Positive
    BY DEF Positive
  <2> HIDE DEF meets
  <2> QED BY <1>1, <1>2, <2>1, SysctlDecides
<1> QED BY <1>3, <1>4 DEF KernelFinding, Decides

LEMMA NetworkDecides ==
    ASSUME NEW k \in NetworkControl, NEW value, ShowsControl("network", k, value), value.kind # "undecodable"
    PROVE  Decides(NetworkFinding(k, value),
                   value.kind = "number" /\
                      IF Expected[k] = 0 THEN value.number # 0 ELSE value.number < Expected[k],
                   value.kind \in {"refused", "garbage"})
<1>1. value.kind \in {"absent", "refused", "garbage", "number"}
  BY DEF ShowsControl, KindsOf
<1>2. Expected[k] \in Nat
  BY ControlsAssumption DEF NetworkControl
<1> DEFINE meets == IF Expected[k] = 0 THEN value.number = 0 ELSE value.number >= Expected[k]
           lower == IF Expected[k] = 0 THEN value.number # 0 ELSE value.number < Expected[k]
<1>3. value.kind = "number" => (lower <=> ~meets)
  BY <1>2 DEF ShowsControl
<1>4. Decides(Sysctl(value, meets, Finding("review", "low", "high")),
              value.kind = "number" /\ ~meets, value.kind \in {"refused", "garbage"})
  <2>1. meets \in BOOLEAN
    <3>1. CASE Expected[k] = 0
      BY <3>1, Zenon
    <3>2. CASE Expected[k] # 0
      <4>1. meets = (value.number >= Expected[k])
        BY <3>2
      <4>2. (value.number >= Expected[k]) \in BOOLEAN
        OBVIOUS
      <4> QED BY <4>1, <4>2
    <3> QED BY <3>1, <3>2
  <2>2. "review" \in Positive
    BY DEF Positive
  <2> HIDE DEF meets
  <2> QED BY <1>1, <2>1, <2>2, SysctlDecides
<1> QED BY <1>3, <1>4 DEF NetworkFinding, Decides

LEMMA ModulesDecides ==
    ASSUME NEW value, value.kind \in {"absent", "refused", "modules"}
    PROVE  Decides(ModulesFinding(value),
                   value.kind = "modules" /\ value.names \cap MandatoryAccessControl = {},
                   value.kind = "refused")
<1>1. CASE value.kind \in {"absent", "refused"}
  <2>1. ModulesFinding(value) = Unknown
    BY <1>1 DEF ModulesFinding
  <2> QED BY <1>1, <2>1, PlainFindings DEF Decides
<1>2. CASE value.kind = "modules" /\ value.names \cap MandatoryAccessControl # {}
  <2>1. ModulesFinding(value) = Protected
    BY <1>2 DEF ModulesFinding
  <2> QED BY <1>2, <2>1, PlainFindings DEF Decides
<1>3. CASE value.kind = "modules" /\ value.names \cap MandatoryAccessControl = {}
  <2>1. ModulesFinding(value) = Finding("fail", "low", "high") /\ "fail" \in Positive
    BY <1>3 DEF ModulesFinding, Positive
  <2> QED BY <1>3, <2>1, PlainFindings DEF Decides
<1> QED BY <1>1, <1>2, <1>3

LEMMA LockdownDecides ==
    ASSUME NEW value, value.kind \in {"absent", "refused", "unmarked", "none", "integrity", "other"}
    PROVE  Decides(LockdownFinding(value), value.kind = "none",
                   value.kind \in {"refused", "other", "unmarked"})
<1>1. CASE value.kind = "absent"
  <2>1. LockdownFinding(value) = Nothing("medium")
    BY <1>1 DEF LockdownFinding
  <2> QED BY <1>1, <2>1, PlainFindings DEF Decides
<1>2. CASE value.kind \in {"refused", "other"}
  <2>1. LockdownFinding(value) = Unknown
    BY <1>2 DEF LockdownFinding
  <2> QED BY <1>2, <2>1, PlainFindings DEF Decides
<1>3. CASE value.kind = "unmarked"
  <2>1. LockdownFinding(value) = Unfinished
    BY <1>3 DEF LockdownFinding
  <2> QED BY <1>3, <2>1, PlainFindings DEF Decides
<1>4. CASE value.kind = "none"
  <2>1. LockdownFinding(value) = Finding("fail", "low", "high") /\ "fail" \in Positive
    BY <1>4 DEF LockdownFinding, Positive
  <2> QED BY <1>4, <2>1, PlainFindings DEF Decides
<1>5. CASE value.kind = "integrity"
  <2>1. LockdownFinding(value) = Protected
    BY <1>5 DEF LockdownFinding
  <2> QED BY <1>5, <2>1, PlainFindings DEF Decides
<1> QED BY <1>1, <1>2, <1>3, <1>4, <1>5

LEMMA UidZeroDecides ==
    ASSUME NEW value
    PROVE  Decides(UidZeroFinding(value), value.kind = "text" /\ "toor uid=0" \in value.lines,
                   value.kind # "text" \/ "malformed" \in value.lines)
<1>1. CASE value.kind = "text" /\ "toor uid=0" \in value.lines
  <2>1. UidZeroFinding(value) = Finding("fail", "critical", "high") /\ "fail" \in Positive
    BY <1>1 DEF UidZeroFinding, Positive
  <2> QED BY <1>1, <2>1, PlainFindings DEF Decides
<1>2. CASE ~(value.kind = "text" /\ "toor uid=0" \in value.lines)
  <2>1. /\ UidZeroFinding(value) \in {Unknown, Protected}
        /\ value.kind # "text" \/ "malformed" \in value.lines => UidZeroFinding(value) = Unknown
    BY <1>2 DEF UidZeroFinding
  <2> QED BY <1>2, <2>1, PlainFindings DEF Decides
<1> QED BY <1>1, <1>2

(* What a control shows that leaves the check in the dark.                 *)
Dark(value) ==
    \/ value.kind \in {"refused", "garbage", "io-error", "other", "short", "unmarked"}
    \/ value.kind = "text" /\ "malformed" \in value.lines

LEMMA EmptyPasswordsDecides ==
    ASSUME NEW value, ShowsControl("empty-passwords", "empty-passwords", value)
    PROVE  Decides(EmptyPasswordsFinding(value), value.kind = "text" /\ "empty password" \in value.lines,
                   Dark(value))
<1>0. value.kind \in {"absent", "refused", "io-error", "text"}
  BY DEF ShowsControl, KindsOf
<1>1. CASE value.kind \in {"absent", "refused"}
  <2>1. EmptyPasswordsFinding(value) = Unknown
    BY <1>1 DEF EmptyPasswordsFinding
  <2> QED BY <1>1, <2>1, PlainFindings DEF Decides, Dark
<1>2. CASE value.kind = "io-error"
  <2>1. EmptyPasswordsFinding(value) = Unfinished
    BY <1>2 DEF EmptyPasswordsFinding
  <2> QED BY <1>2, <2>1, PlainFindings DEF Decides, Dark
<1>3. CASE value.kind = "text" /\ "empty password" \in value.lines
  <2>1. EmptyPasswordsFinding(value) = Finding("fail", "critical", "high") /\ "fail" \in Positive
    BY <1>3 DEF EmptyPasswordsFinding, Positive
  <2> QED BY <1>3, <2>1, PlainFindings DEF Decides, Dark
<1>4. CASE value.kind = "text" /\ "empty password" \notin value.lines
  <2>1. EmptyPasswordsFinding(value) = IF "malformed" \in value.lines THEN Unknown ELSE Protected
    BY <1>4 DEF EmptyPasswordsFinding
  <2> QED BY <1>4, <2>1, PlainFindings DEF Decides, Dark
<1> QED BY <1>0, <1>1, <1>2, <1>3, <1>4

LEMMA MountsDecides ==
    ASSUME NEW value
    PROVE  Decides(MountsFinding(value),
                   value.kind = "text" /\ "malformed" \notin value.lines /\ "shared" \in value.lines,
                   value.kind # "text" \/ "malformed" \in value.lines)
<1>1. CASE value.kind = "text" /\ "malformed" \notin value.lines /\ "shared" \in value.lines
  <2>1. MountsFinding(value) = Finding("review", "low", "high") /\ "review" \in Positive
    BY <1>1 DEF MountsFinding, Positive
  <2> QED BY <1>1, <2>1, PlainFindings DEF Decides
<1>2. CASE ~(value.kind = "text" /\ "malformed" \notin value.lines /\ "shared" \in value.lines)
  <2>1. /\ MountsFinding(value) \in {Unknown, Unfinished, Protected, Nothing("high")}
        /\ value.kind # "text" \/ "malformed" \in value.lines => MountsFinding(value) \in {Unknown, Unfinished}
    BY <1>2 DEF MountsFinding
  <2> QED BY <1>2, <2>1, PlainFindings DEF Decides
<1> QED BY <1>1, <1>2

(* Whether a path to the root file system passes no encrypted device.      *)
Bare(d) ==
    \E path \in Devices[d].roots : \A k \in DOMAIN path : path[k] \notin Devices[d].crypt

LEMMA EncryptionDecides ==
    ASSUME NEW r, \A d, e \in r.stdout \cap DOMAIN Devices : d = e
    PROVE  Decides(EncryptionFinding(r),
                   r.returncode = 0 /\ \E d \in r.stdout \cap DOMAIN Devices : Bare(d), r.returncode # 0)
<1>1. CASE r.returncode # 0
  <2>1. EncryptionFinding(r) \in {Unknown, Unfinished}
    BY <1>1 DEF EncryptionFinding, Unavailable
  <2> QED BY <1>1, <2>1, PlainFindings DEF Decides
<1>2. CASE r.returncode = 0 /\ r.stdout \cap DOMAIN Devices = {}
  <2>1. EncryptionFinding(r) = Unfinished
    BY <1>2 DEF EncryptionFinding
  <2> QED BY <1>2, <2>1, PlainFindings DEF Decides
<1>3. CASE r.returncode = 0 /\ r.stdout \cap DOMAIN Devices # {}
  <2> DEFINE d == CHOOSE e \in r.stdout : e \in DOMAIN Devices
  <2>1. d \in r.stdout \cap DOMAIN Devices /\ \A e \in r.stdout \cap DOMAIN Devices : e = d
    BY <1>3
  <2>2. EncryptionFinding(r) =
           IF Devices[d].roots = {} THEN Unknown
           ELSE IF \A path \in Devices[d].roots : \E k \in DOMAIN path : path[k] \in Devices[d].crypt
           THEN Finding("pass", "info", "medium") ELSE Finding("fail", "medium", "medium")
    BY <1>3 DEF EncryptionFinding
  <2> HIDE DEF d
  <2>3. CASE Bare(d)
    <3>1. EncryptionFinding(r) = Finding("fail", "medium", "medium") /\ "fail" \in Positive
      BY <2>2, <2>3 DEF Bare, Positive
    <3> QED BY <1>3, <2>1, <2>3, <3>1, PlainFindings DEF Decides
  <2>4. CASE ~Bare(d)
    <3>1. EncryptionFinding(r) \in {Unknown, Finding("pass", "info", "medium")}
      BY <2>2, <2>4 DEF Bare
    <3> QED BY <1>3, <2>1, <2>4, <3>1, PlainFindings DEF Decides
  <2> QED BY <2>3, <2>4
<1> QED BY <1>1, <1>2, <1>3

LEMMA ProcessesDecides ==
    ASSUME NEW r
    PROVE  Decides(ProcessesFinding(r),
                   r.returncode = 0 /\
                      \E line \in r.stdout \cap DOMAIN BrowserProcesses : BrowserProcesses[line] # "info",
                   r.returncode # 0)
<1> DEFINE flagged(severity) == \E line \in r.stdout \cap DOMAIN BrowserProcesses :
                                   BrowserProcesses[line] = severity
<1>1. \A line \in DOMAIN BrowserProcesses : BrowserProcesses[line] \in {"info", "critical", "medium"}
  BY DEF BrowserProcesses
<1>2. ProcessesFinding(r) =
         IF r.returncode # 0 THEN Unavailable(r)
         ELSE IF flagged("critical") THEN Finding("fail", "critical", "high")
         ELSE IF flagged("medium") THEN Finding("fail", "medium", "high")
         ELSE IF flagged("info") THEN Protected ELSE Nothing("high")
  BY DEF ProcessesFinding
<1>3. (\E line \in r.stdout \cap DOMAIN BrowserProcesses : BrowserProcesses[line] # "info")
         <=> flagged("critical") \/ flagged("medium")
  BY <1>1
<1> HIDE DEF flagged
<1>4. CASE r.returncode # 0
  <2>1. ProcessesFinding(r) \in {Unknown, Unfinished}
    BY <1>2, <1>4 DEF Unavailable
  <2> QED BY <1>4, <2>1, PlainFindings DEF Decides
<1>5. CASE r.returncode = 0 /\ (flagged("critical") \/ flagged("medium"))
  <2>1. ProcessesFinding(r) \in {Finding("fail", "critical", "high"), Finding("fail", "medium", "high")}
        /\ "fail" \in Positive
    BY <1>2, <1>5 DEF Positive
  <2> QED BY <1>3, <1>5, <2>1, PlainFindings DEF Decides
<1>6. CASE r.returncode = 0 /\ ~flagged("critical") /\ ~flagged("medium")
  <2>1. ProcessesFinding(r) \in {Protected, Nothing("high")}
    BY <1>2, <1>6
  <2> QED BY <1>3, <1>6, <2>1, PlainFindings DEF Decides
<1> QED BY <1>4, <1>5, <1>6

-----------------------------------------------------------------------------
LEMMA ControlHidden ==
    ASSUME check \in ControlChecks, NEW o
    PROVE  /\ check \notin CommandControls => (Hidden(o) <=> Dark(world[o]))
           /\ check \in CommandControls => (Hidden(o) <=> world[o].returncode # 0)
BY DEF Hidden, Dark, ControlChecks, CommandControls, PolicyChecks, ServicesCheck, FirefoxChecks

(* What a file of a control may have shown.                                *)
LEMMA ControlShown ==
    ASSUME Inductive, check \in ControlChecks \ CommandControls, NEW w \in DOMAIN obs,
           w.call \notin {"run", "list"}
    PROVE  /\ w.at \in ObjectsOf(check) /\ w.at \in DOMAIN world /\ obs[w] \in ever[w.at]
           /\ ShowsControl(check, w.at, obs[w])
           /\ w.at \in Still => obs[w] = world[w.at]
<1>1. w.at \in ObjectsOf(check) /\ obs[w] \in ever[w.at]
  BY DEF Inductive, Genuine, GenuineLook
<1>2. check \in Checks \cap ControlChecks /\ check \notin CommandControls /\ w.at \in DOMAIN world
  BY <1>1 DEF Inductive, Types
<1>3. obs[w] \in Possible[check][w.at]
  BY <1>1 DEF Inductive, Types
<1>4. ShowsControl(check, w.at, obs[w])
  BY <1>1, <1>2, <1>3, WorldAssumption
<1>5. w.at \in Still => obs[w] = world[w.at]
  BY StillFacts
<1> QED BY <1>1, <1>2, <1>4, <1>5

LEMMA ControlRead ==
    ASSUME Inductive, check \in ControlChecks \ CommandControls, NEW o, Read(o) \in DOMAIN obs
    PROVE  /\ o \in ObjectsOf(check) /\ obs[Read(o)] \in ever[o]
           /\ ShowsControl(check, o, obs[Read(o)])
           /\ check \in ReadAsAscii => obs[Read(o)].kind # "undecodable"
           /\ o \in Still => obs[Read(o)] = world[o]
<1>1. Read(o).call = "read" /\ Read(o).at = o
  BY DEF Read, Look, LookFor
<1>2. check \in ReadAsAscii => obs[Read(o)].kind # "undecodable"
  BY <1>1 DEF Inductive, Genuine, GenuineLook
<1> QED BY <1>1, <1>2, ControlShown

(* Each control that is judged on its own.                                 *)
Separate == {"kernel", "network", "security-modules", "uid-zero", "empty-passwords", "shared-mounts"}

LEMMA ControlsFinished ==
    ASSUME Inductive, Finished, check \in ControlChecks
    PROVE  /\ ControlsReady(check, obs) = {} /\ findings = ControlsFindings(check, obs)
           /\ DOMAIN world = ControlObjects(check) /\ check \in Checks
           /\ check \in Separate => /\ Identifiers(check) = ControlObjects(check)
                                    /\ \A o \in ControlObjects(check) : Read(o) \in DOMAIN obs
           /\ check \notin Separate => Identifiers(check) = {check}
           /\ check \in CommandControls => Look("run", check) \in DOMAIN obs
<1>1. ControlsReady(check, obs) = {} /\ check \in Checks
  BY FinishedFacts, ReadyOf
<1>2. findings = ControlsFindings(check, obs)
  BY FinishedWith
<1>3. DOMAIN world = ControlObjects(check)
  BY <1>1, ObjectsAre DEF Inductive, Types
<1>4. check \in Separate => Identifiers(check) = ControlObjects(check)
  BY DEF Separate, Identifiers, ControlObjects
<1>5. check \notin Separate => Identifiers(check) = {check}
  BY DEF Separate, Identifiers
<1>6. ASSUME check \in Separate, NEW o \in ControlObjects(check) PROVE Read(o) \in DOMAIN obs
  <2>1. CASE check \in {"kernel", "network"}
    <3>1. ControlsReady(check, obs) = Pending({Read(k) : k \in ControlObjects(check)}, obs)
      BY <2>1 DEF ControlsReady, ControlObjects, CommandControls
    <3> QED BY <1>1, <1>6, <3>1, NonePending
  <2>2. CASE check = "security-modules"
    <3>1. ControlsReady(check, obs) = InOrder(Pending({Read("lsm")}, obs), Pending({Read("lockdown")}, obs))
          /\ o \in {"lsm", "lockdown"}
      BY <1>6, <2>2 DEF ControlsReady, ControlObjects, CommandControls
    <3> QED BY <1>1, <3>1, BothEmpty, NonePending
  <2>3. CASE check \in {"uid-zero", "empty-passwords", "shared-mounts"}
    <3>1. ControlsReady(check, obs) = Pending({Read(check)}, obs) /\ o = check
      BY <1>6, <2>3 DEF ControlsReady, ControlObjects, CommandControls
    <3> QED BY <1>1, <3>1, NonePending
  <2> QED BY <1>6, <2>1, <2>2, <2>3 DEF Separate
<1>7. ASSUME check \in CommandControls PROVE Look("run", check) \in DOMAIN obs
  <2>1. ControlsReady(check, obs) = Pending({Look("run", check)}, obs)
    BY <1>7 DEF ControlsReady, CommandControls
  <2> QED BY <1>1, <2>1, NonePending
<1> QED BY <1>1, <1>2, <1>3, <1>4, <1>5, <1>6, <1>7

(* A control that is judged on its own is judged by what was read.         *)
LEMMA SeparateDecides ==
    ASSUME Inductive, Finished, check \in Separate, NEW o \in ControlObjects(check)
    PROVE  /\ findings[o] = ControlFinding(check, o, obs)
           /\ check # "shared-mounts" =>
                 Decides(findings[o], ControlViolates(o, obs[Read(o)]), Dark(obs[Read(o)]))
           /\ check = "shared-mounts" =>
                 Decides(findings[o],
                         /\ obs[Read(o)].kind = "text" /\ "malformed" \notin obs[Read(o)].lines
                         /\ "shared" \in obs[Read(o)].lines,
                         Dark(obs[Read(o)]))
<1>1. check \in ControlChecks \ CommandControls
  BY DEF Separate, ControlChecks, CommandControls
<1>2. findings[o] = ControlFinding(check, o, obs)
  BY <1>1, ControlsFinished DEF ControlsFindings
<1>3. /\ Read(o) \in DOMAIN obs /\ ShowsControl(check, o, obs[Read(o)])
      /\ check \in ReadAsAscii => obs[Read(o)].kind # "undecodable"
  BY <1>1, ControlsFinished, ControlRead
<1> DEFINE value == obs[Read(o)]
           Right == Decides(findings[o], ControlViolates(o, value), Dark(value))
<1>4. CASE check = "kernel"
  <2>1. o \in KernelControl /\ value.kind # "undecodable" /\ ShowsControl("kernel", o, value)
    BY <1>3, <1>4 DEF ControlObjects, ReadAsAscii
  <2>2. Decides(KernelFinding(o, value), value.kind = "number" /\ value.number < Minimum[o],
                value.kind \in {"refused", "garbage"})
    BY <2>1, KernelDecides
  <2>3. findings[o] = KernelFinding(o, value)
    BY <1>2, <1>4 DEF ControlFinding
  <2>4. value.kind \in {"absent", "refused", "undecodable", "garbage", "number"}
    BY <2>1 DEF ShowsControl, KindsOf
  <2>5. ControlViolates(o, value) <=> value.kind = "number" /\ value.number < Minimum[o]
    BY <1>4 DEF ControlViolates
  <2>6. Dark(value) => value.kind \in {"refused", "garbage"}
    BY <2>4 DEF Dark
  <2>7. Right
    <3> HIDE DEF value
    <3> QED BY <2>2, <2>3, <2>5, <2>6 DEF Decides
  <2> QED BY <1>2, <1>4, <2>7
<1>5. CASE check = "network"
  <2>1. o \in NetworkControl /\ value.kind # "undecodable" /\ ShowsControl("network", o, value)
    BY <1>3, <1>5 DEF ControlObjects, ReadAsAscii
  <2>2. Decides(NetworkFinding(o, value),
                value.kind = "number" /\
                   IF Expected[o] = 0 THEN value.number # 0 ELSE value.number < Expected[o],
                value.kind \in {"refused", "garbage"})
    BY <2>1, NetworkDecides
  <2>3. findings[o] = NetworkFinding(o, value)
    BY <1>2, <1>5 DEF ControlFinding
  <2>4. value.kind \in {"absent", "refused", "undecodable", "garbage", "number"}
    BY <2>1 DEF ShowsControl, KindsOf
  <2>5. ControlViolates(o, value) <=> value.kind = "number" /\
            IF Expected[o] = 0 THEN value.number # 0 ELSE value.number < Expected[o]
    BY <1>5 DEF ControlViolates
  <2>6. Dark(value) => value.kind \in {"refused", "garbage"}
    BY <2>4 DEF Dark
  <2>7. Right
    <3> HIDE DEF value
    <3> QED BY <2>2, <2>3, <2>5, <2>6 DEF Decides
  <2> QED BY <1>2, <1>5, <2>7
<1>6. CASE check = "security-modules"
  <2>1. o \in {"lsm", "lockdown"} /\ value.kind # "undecodable" /\ value.kind \in KindsOf(check, o)
    BY <1>3, <1>6 DEF ControlObjects, ReadAsAscii, ShowsControl
  <2> SUFFICES Right
    BY <1>2, <1>6
  <2>2. CASE o = "lsm"
    <3>1. value.kind \in {"absent", "refused", "modules"}
      BY <1>6, <2>1, <2>2 DEF KindsOf
    <3>2. findings[o] = ModulesFinding(value)
      BY <1>2, <1>6, <2>2 DEF ControlFinding
    <3>3. Decides(findings[o], value.kind = "modules" /\ value.names \cap MandatoryAccessControl = {},
                  value.kind = "refused")
      BY <3>1, <3>2, ModulesDecides
    <3>4. ControlViolates(o, value) <=>
             value.kind = "modules" /\ value.names \cap MandatoryAccessControl = {}
      BY <1>6, <2>2 DEF ControlViolates
    <3>5. Dark(value) => value.kind = "refused"
      BY <3>1 DEF Dark
    <3> HIDE DEF value
    <3> QED BY <3>3, <3>4, <3>5 DEF Decides
  <2>3. CASE o = "lockdown"
    <3>1. value.kind \in {"absent", "refused", "unmarked", "none", "integrity", "other"}
      BY <1>6, <2>1, <2>3 DEF KindsOf
    <3>2. findings[o] = LockdownFinding(value)
      BY <1>2, <1>6, <2>3 DEF ControlFinding
    <3>3. Decides(findings[o], value.kind = "none", value.kind \in {"refused", "other", "unmarked"})
      BY <3>1, <3>2, LockdownDecides
    <3>4. ControlViolates(o, value) <=> value.kind = "none"
      BY <1>6, <2>3 DEF ControlViolates
    <3>5. Dark(value) => value.kind \in {"refused", "other", "unmarked"}
      BY <3>1 DEF Dark
    <3> HIDE DEF value
    <3> QED BY <3>3, <3>4, <3>5 DEF Decides
  <2> QED BY <2>1, <2>2, <2>3
<1>7. CASE check = "uid-zero"
  <2>1. findings[o] = UidZeroFinding(value)
    BY <1>2, <1>7 DEF ControlFinding, ControlObjects
  <2>2. Decides(findings[o], value.kind = "text" /\ "toor uid=0" \in value.lines,
                value.kind # "text" \/ "malformed" \in value.lines)
    BY <2>1, UidZeroDecides
  <2>3. ControlViolates(o, value) <=> value.kind = "text" /\ "toor uid=0" \in value.lines
    BY <1>7 DEF ControlViolates
  <2>4. Dark(value) => value.kind # "text" \/ "malformed" \in value.lines
    BY DEF Dark
  <2>5. Right
    <3> HIDE DEF value
    <3> QED BY <2>2, <2>3, <2>4 DEF Decides
  <2> QED BY <1>2, <1>7, <2>5
<1>8. CASE check = "empty-passwords"
  <2>1. findings[o] = EmptyPasswordsFinding(value)
    BY <1>2, <1>8 DEF ControlFinding, ControlObjects
  <2>2. ShowsControl("empty-passwords", "empty-passwords", value)
    BY <1>3, <1>8 DEF ControlObjects
  <2>3. Decides(findings[o], value.kind = "text" /\ "empty password" \in value.lines, Dark(value))
    BY <2>1, <2>2, EmptyPasswordsDecides
  <2>4. ControlViolates(o, value) <=> value.kind = "text" /\ "empty password" \in value.lines
    BY <1>8 DEF ControlViolates
  <2>5. Right
    <3> HIDE DEF value
    <3> QED BY <2>3, <2>4 DEF Decides
  <2> QED BY <1>2, <1>8, <2>5
<1>9. CASE check = "shared-mounts"
  <2>1. findings[o] = MountsFinding(value)
    BY <1>2, <1>9 DEF ControlFinding, ControlObjects
  <2> QED BY <1>2, <1>9, <2>1, MountsDecides DEF Decides, Dark
<1> QED BY <1>2, <1>4, <1>5, <1>6, <1>7, <1>8, <1>9 DEF Separate


(* The checks of controls that have one finding for all they looked at.    *)
LEMMA WholeFinding ==
    ASSUME Inductive, Finished, check \in ControlChecks, check \notin Separate
    PROVE  /\ findings = Single(ControlFinding(check, check, obs))
           /\ findings[check] = ControlFinding(check, check, obs)
           /\ DOMAIN findings = {check}
           /\ \A o : About(o) = findings[check]
<1>1. findings = ControlsFindings(check, obs) /\ Identifiers(check) = {check}
  BY ControlsFinished
<1>2. findings = Single(ControlFinding(check, check, obs))
  BY <1>1 DEF ControlsFindings, Single
<1>3. findings[check] = ControlFinding(check, check, obs) /\ DOMAIN findings = {check}
  BY <1>2 DEF Single
<1>4. \A o : About(o) = ControlFinding(check, check, obs)
  BY <1>2, SpokenOf
<1> QED BY <1>2, <1>3, <1>4

(* What must hold of the finding on what a control is about.               *)
Sound(f, names) ==
    /\ WellFormed(f)
    /\ f.status \in Positive =>
          \E o \in names : \E value \in ever[o] : ControlViolates(o, value)

Told(o) ==
    /\ Answered /\ o \in Exposures => About(o).status \in Positive
    /\ o \in InReach /\ Hidden(o) => About(o).status \notin Clean

(* A command has the result of one moment, or it was not executed.         *)
LEMMA CommandResult ==
    ASSUME Inductive, Finished, check \in CommandControls
    PROVE  LET w == Look("run", check)
           IN  /\ obs[w] \in ever[check] \cup NotExecuted
               /\ obs[w] \in Possible[check][check] \cup NotExecuted
               /\ Answered => obs[w] \in ever[check]
               /\ check \in DOMAIN world /\ DOMAIN world = {check}
<1> DEFINE w == Look("run", check)
<1>1. w \in DOMAIN obs /\ check \in ControlChecks /\ check # ServicesCheck /\ check \in Checks
  BY ControlsFinished, Families DEF ControlChecks, Inductive, Types
<1>2. w.call = "run" /\ w.at = check /\ w \notin {Active, Enabled, Show}
  <2>1. w.call = "run" /\ w.at = check
    BY DEF Look, LookFor
  <2>2. w.at \in ObjectsOf(check)
    BY <1>1 DEF Inductive, Genuine, GenuineLook
  <2> QED BY <1>1, <2>1, <2>2, OnlyServicesAsk DEF Inductive
<1> HIDE DEF w
<1>3. obs[w] \in ever[check] \cup NotExecuted /\ check \in ObjectsOf(check)
  BY <1>1, <1>2 DEF Inductive, Genuine, GenuineLook
<1>4. obs[w] \in Possible[check][check] \cup NotExecuted /\ check \in DOMAIN world
  BY <1>3 DEF Inductive, Types
<1>5. Answered => obs[w] \in ever[check]
  BY <1>1, <1>2, <1>3 DEF Answered, Taken
<1>6. DOMAIN world = {check}
  BY <1>1, ControlsFinished DEF ControlObjects, CommandControls
<1> QED BY <1>3, <1>4, <1>5, <1>6 DEF w

(* Such a result decides, whatever the command is.                         *)
LEMMA CommandDecides ==
    ASSUME Inductive, Finished, check \in CommandControls
    PROVE  LET r == obs[Look("run", check)]
           IN  Decides(findings[check], ControlViolates(check, r), r.returncode # 0)
<1> DEFINE r == obs[Look("run", check)]
<1>0. check \in ControlChecks /\ check \notin Separate
  BY DEF ControlChecks, CommandControls, Separate
<1>1. findings[check] = ControlFinding(check, check, obs)
  BY <1>0, WholeFinding
<1>2. r \in Possible[check][check] \cup NotExecuted
  BY CommandResult
<1>3. CASE check = "root-encryption"
  <2>1. findings[check] = EncryptionFinding(r)
    BY <1>1, <1>3 DEF ControlFinding
  <2>2. \A d, e \in r.stdout \cap DOMAIN Devices : d = e
    <3>1. CASE r \in NotExecuted
      BY <3>1 DEF NotExecuted, Result, Diagnostics
    <3>2. CASE r \in Possible[check][check]
      BY <1>3, <3>2, WorldAssumption DEF Inductive, Types
    <3> QED BY <1>2, <3>1, <3>2
  <2>3. ControlViolates(check, r) <=> r.returncode = 0 /\ \E d \in r.stdout \cap DOMAIN Devices : Bare(d)
    BY <1>3 DEF ControlViolates, Bare
  <2> HIDE DEF r
  <2>4. Decides(EncryptionFinding(r),
                r.returncode = 0 /\ \E d \in r.stdout \cap DOMAIN Devices : Bare(d), r.returncode # 0)
    BY <2>2, EncryptionDecides
  <2> QED BY <2>1, <2>3, <2>4 DEF Decides, r
<1>4. CASE check = "processes"
  <2>1. findings[check] = ProcessesFinding(r)
    BY <1>1, <1>4 DEF ControlFinding
  <2>3. ControlViolates(check, r) <=> r.returncode = 0 /\
           \E line \in r.stdout \cap DOMAIN BrowserProcesses : BrowserProcesses[line] # "info"
    BY <1>4 DEF ControlViolates
  <2> HIDE DEF r
  <2> QED BY <2>1, <2>3, ProcessesDecides DEF Decides, r
<1> QED BY <1>3, <1>4 DEF CommandControls

LEMMA CommandControlSound ==
    ASSUME Inductive, Finished, check \in CommandControls
    PROVE  Sound(findings[check], DOMAIN world) /\ \A o : Told(o)
<1> DEFINE r == obs[Look("run", check)]
<1>0. check \in ControlChecks /\ check \notin Separate
  BY DEF ControlChecks, CommandControls, Separate
<1>1. /\ r \in ever[check] \cup NotExecuted /\ (Answered => r \in ever[check])
      /\ DOMAIN world = {check}
  BY CommandResult
<1>2. Decides(findings[check], ControlViolates(check, r), r.returncode # 0)
  BY CommandDecides
<1>3. \A o : About(o) = findings[check]
  BY <1>0, WholeFinding
<1> HIDE DEF r
<1>4. r \in NotExecuted => r.returncode # 0
  BY DEF NotExecuted, Result
<1>5. ~(r \in NotExecuted /\ ControlViolates(check, r))
  BY <1>4 DEF ControlViolates, CommandControls
<1>6. Sound(findings[check], DOMAIN world)
  BY <1>1, <1>2, <1>5 DEF Sound, Decides
<1>7. ASSUME NEW o PROVE Told(o)
  <2>1. o \in InReach => o = check /\ ever[check] = {world[check]}
    BY <1>1, StillFacts DEF InReach, Still
  <2>2. o \in Exposures => o = check /\ ever[check] = {world[check]} /\ ControlViolates(check, world[check])
    BY <1>0, <2>1, ViolatesOf DEF Exposures, Inductive, Types
  <2>3. Answered /\ o \in Exposures => findings[check].status \in Positive
    BY <1>1, <1>2, <2>2 DEF Decides
  <2>4. Hidden(o) <=> world[o].returncode # 0
    BY <1>0, ControlHidden
  <2>5. o \in InReach /\ Hidden(o) => findings[check].status \notin Clean
    BY <1>1, <1>2, <1>4, <2>1, <2>4 DEF Decides
  <2> QED BY <1>3, <2>3, <2>5 DEF Told
<1> QED BY <1>6, <1>7

(* The controls that are judged one by one.                                *)
LEMMA SeparateSound ==
    ASSUME Inductive, Finished, check \in Separate
    PROVE  /\ DOMAIN findings = ControlObjects(check) /\ DOMAIN world = ControlObjects(check)
           /\ \A o \in DOMAIN findings : Sound(findings[o], {o})
           /\ \A o : Told(o)
<1>1. check \in ControlChecks \ CommandControls
  BY DEF Separate, ControlChecks, CommandControls
<1>2. /\ findings = ControlsFindings(check, obs) /\ Identifiers(check) = ControlObjects(check)
      /\ DOMAIN world = ControlObjects(check) /\ check \in Checks
      /\ \A o \in ControlObjects(check) : Read(o) \in DOMAIN obs
  BY <1>1, ControlsFinished
<1>3. DOMAIN findings = ControlObjects(check)
  BY <1>2 DEF ControlsFindings
<1>4. ASSUME NEW o \in ControlObjects(check)
      PROVE  Sound(findings[o], {o})
  <2> DEFINE value == obs[Read(o)]
  <2>1. value \in ever[o]
    BY <1>1, <1>2, ControlRead
  <2> HIDE DEF value
  <2>2. CASE check # "shared-mounts"
    <3>1. Decides(findings[o], ControlViolates(o, value), Dark(value))
      BY <2>2, SeparateDecides DEF value
    <3> QED BY <2>1, <3>1 DEF Decides, Sound
  <2>3. CASE check = "shared-mounts"
    <3>1. Decides(findings[o],
                  value.kind = "text" /\ "malformed" \notin value.lines /\ "shared" \in value.lines,
                  Dark(value))
      BY <2>3, SeparateDecides DEF value
    <3>2. value.kind = "text" /\ "malformed" \notin value.lines /\ "shared" \in value.lines
             => ControlViolates(o, value)
      BY <2>3 DEF ControlViolates
    <3> QED BY <2>1, <3>1, <3>2 DEF Decides, Sound
  <2> QED BY <2>2, <2>3
<1>5. ASSUME NEW o PROVE Told(o)
  <2> SUFFICES ASSUME o \in InReach PROVE Told(o)
    BY DEF Told, Exposures
  <2>1. o \in ControlObjects(check) /\ o \in Still
    BY <1>2 DEF InReach, Still
  <2>2. About(o) = findings[o]
    BY <1>3, <2>1 DEF About
  <2>3. obs[Read(o)] = world[o]
    BY <1>1, <1>2, <2>1, ControlRead
  <2>4. Hidden(o) <=> Dark(world[o])
    BY <1>1, ControlHidden
  <2>5. o \in Exposures => Judgeable(o) /\ ControlViolates(o, world[o])
    BY <1>1, <1>2, ViolatesOf DEF Exposures
  <2>6. CASE check # "shared-mounts"
    <3>1. Decides(findings[o], ControlViolates(o, world[o]), Dark(world[o]))
      BY <2>1, <2>3, <2>6, SeparateDecides
    <3> QED BY <2>2, <2>4, <2>5, <3>1 DEF Decides, Told
  <2>7. CASE check = "shared-mounts"
    <3>1. Decides(findings[o],
                  /\ world[o].kind = "text" /\ "malformed" \notin world[o].lines
                  /\ "shared" \in world[o].lines,
                  Dark(world[o]))
      BY <2>1, <2>3, <2>7, SeparateDecides
    <3>2. ControlViolates(o, world[o]) => world[o].kind = "text" /\ "shared" \in world[o].lines
      BY <2>7 DEF ControlViolates
    <3>3. Judgeable(o) => world[o].kind = "text" /\ "malformed" \notin world[o].lines
      BY <2>7 DEF Judgeable
    <3> QED BY <2>2, <2>4, <2>5, <3>1, <3>2, <3>3 DEF Decides, Told
  <2> QED BY <2>6, <2>7
<1> QED BY <1>2, <1>3, <1>4, <1>5

-----------------------------------------------------------------------------
(* Forwarding: the first file that may not be read ends the check.         *)
LEMMA ForwardingRead ==
    ASSUME Inductive, Finished, check = "ip-forwarding"
    PROVE  /\ DOMAIN world = {"ipv4", "ipv6"}
           /\ \A w \in DOMAIN obs : /\ w.call = "read" /\ w.at \in DOMAIN world /\ obs[w] \in ever[w.at]
                                    /\ obs[w].kind \in {"absent", "refused", "garbage", "on", "off"}
                                    /\ w.at \in Still => obs[w] = world[w.at]
           /\ Read("ipv4") \in DOMAIN obs
           /\ obs[Read("ipv4")].kind = "refused" \/ Read("ipv6") \in DOMAIN obs
<1>1. check \in ControlChecks \ CommandControls /\ check \in ReadAsAscii
  BY DEF ControlChecks, CommandControls, ReadAsAscii
<1>2. ControlsReady(check, obs) = {} /\ DOMAIN world = {"ipv4", "ipv6"}
  BY <1>1, ControlsFinished DEF ControlObjects
<1>3. ASSUME NEW w \in DOMAIN obs
      PROVE  /\ w.call = "read" /\ w.at \in DOMAIN world /\ obs[w] \in ever[w.at]
             /\ obs[w].kind \in {"absent", "refused", "garbage", "on", "off"}
             /\ w.at \in Still => obs[w] = world[w.at]
  <2>1. w.call = "read"
    BY DEF Inductive, InPlace, WellPlaced, ControlPlace
  <2>2. ShowsControl(check, w.at, obs[w]) /\ w.at \in DOMAIN world /\ obs[w] \in ever[w.at]
        /\ (w.at \in Still => obs[w] = world[w.at])
    BY <1>1, <2>1, ControlShown
  <2>3. obs[w].kind \in {"absent", "refused", "undecodable", "garbage", "on", "off"}
    BY <2>2 DEF ShowsControl, KindsOf
  <2>4. obs[w].kind # "undecodable"
    BY <1>1, <2>1 DEF Inductive, Genuine, GenuineLook
  <2> QED BY <2>1, <2>2, <2>3, <2>4
<1>4. ForwardingReady(obs) = {}
  BY <1>2 DEF ControlsReady, CommandControls
<1>5. Read("ipv4") \in DOMAIN obs
  BY <1>4 DEF ForwardingReady
<1>6. ASSUME obs[Read("ipv4")].kind # "refused" PROVE Read("ipv6") \in DOMAIN obs
  <2>1. Pending({Read("ipv6") : w \in {v \in {Read("ipv4")} : obs[v].kind # "refused"}}, obs) = {}
    BY <1>4, <1>5 DEF ForwardingReady
  <2>2. {Read("ipv6") : w \in {v \in {Read("ipv4")} : obs[v].kind # "refused"}} \subseteq DOMAIN obs
    BY <2>1, NonePending
  <2> QED BY <1>6, <2>2
<1> QED BY <1>2, <1>3, <1>5, <1>6

LEMMA ForwardingSound ==
    ASSUME Inductive, Finished, check = "ip-forwarding"
    PROVE  Sound(findings[check], DOMAIN world) /\ \A o : Told(o)
<1> DEFINE shown(kind) == {w \in DOMAIN obs : obs[w].kind = kind}
           f == findings[check]
<1>0. check \in ControlChecks \ CommandControls /\ check \notin Separate
  BY DEF ControlChecks, CommandControls, Separate
<1>1. f = IF shown("refused") # {} THEN Unknown
          ELSE IF shown("garbage") # {} THEN Unfinished
          ELSE IF shown("on") # {} THEN Finding("review", "low", "high")
          ELSE IF shown("off") # {} THEN Protected
          ELSE Nothing("medium")
  BY <1>0, WholeFinding DEF ControlFinding, ForwardingFinding
<1>2. \A kind : shown(kind) # {} <=> \E w \in DOMAIN obs : obs[w].kind = kind
  OBVIOUS
<1> HIDE DEF shown, f
<1>3. /\ shown("refused") # {} \/ shown("garbage") # {} => f \in {Unknown, Unfinished}
      /\ shown("refused") = {} /\ shown("garbage") = {} /\ shown("on") # {} =>
            f = Finding("review", "low", "high")
      /\ shown("on") = {} => f \in {Unknown, Unfinished, Protected, Nothing("medium")}
      /\ f \in {Unknown, Unfinished, Protected, Nothing("medium"), Finding("review", "low", "high")}
  BY <1>1
<1>4. "review" \in Positive
  BY DEF Positive
<1>5. WellFormed(f) /\ (f.status \in Positive => shown("on") # {})
  BY <1>3, <1>4, PlainFindings
<1>6. Sound(f, DOMAIN world)
  <2>1. ASSUME NEW w \in DOMAIN obs, obs[w].kind = "on"
        PROVE  \E o \in DOMAIN world : \E value \in ever[o] : ControlViolates(o, value)
    <3>1. w.at \in DOMAIN world /\ obs[w] \in ever[w.at]
      BY ForwardingRead
    <3>2. ControlViolates(w.at, obs[w])
      BY <2>1 DEF ControlViolates
    <3> QED BY <3>1, <3>2
  <2> QED BY <1>2, <1>5, <2>1 DEF Sound
<1>7. ASSUME NEW o \in InReach PROVE Told(o)
  <2>1. o \in {"ipv4", "ipv6"} /\ o \in Still
    BY ForwardingRead DEF InReach, Still
  <2>2. Read("ipv4").at = "ipv4" /\ Read("ipv6").at = "ipv6"
    BY DEF Read, Look, LookFor
  <2>3. o \in Exposures => f.status \in Positive
    <3> SUFFICES ASSUME o \in Exposures PROVE f.status \in Positive
      OBVIOUS
    <3>1. ControlViolates(o, world[o]) /\ Judgeable(o)
      BY <1>0, ViolatesOf DEF Exposures, Inductive, Types
    <3>2. world[o].kind = "on"
      BY <3>1 DEF ControlViolates
    <3>3. \A p \in DOMAIN world : p \in Still /\ world[p].kind \in {"on", "off", "absent"}
      BY <3>1 DEF Judgeable, Stays
    <3>4. \A w \in DOMAIN obs : obs[w] = world[w.at] /\ obs[w].kind \in {"on", "off", "absent"}
      BY <3>3, ForwardingRead
    <3>5. Read(o) \in DOMAIN obs
      BY <2>1, <3>4, ForwardingRead
    <3>6. obs[Read(o)].kind = "on"
      BY <2>1, <2>2, <3>2, <3>4, <3>5
    <3>7. shown("on") # {} /\ shown("refused") = {} /\ shown("garbage") = {}
      BY <1>2, <3>4, <3>5, <3>6
    <3> QED BY <1>3, <1>4, <3>7, PlainFindings
  <2>4. Hidden(o) => f.status \notin Clean
    <3> SUFFICES ASSUME Hidden(o) PROVE f \in {Unknown, Unfinished}
      BY PlainFindings
    <3>1. Dark(world[o])
      BY <1>0, ControlHidden
    <3>2. CASE Read(o) \in DOMAIN obs
      <4>1. obs[Read(o)] = world[o] /\ obs[Read(o)].kind \in {"absent", "refused", "garbage", "on", "off"}
        BY <2>1, <2>2, <3>2, ForwardingRead
      <4>2. obs[Read(o)].kind \in {"refused", "garbage"}
        BY <3>1, <4>1 DEF Dark
      <4> QED BY <1>2, <1>3, <3>2, <4>2
    <3>3. CASE Read(o) \notin DOMAIN obs
      <4>1. Read("ipv4") \in DOMAIN obs /\ obs[Read("ipv4")].kind = "refused"
        BY <2>1, <3>3, ForwardingRead
      <4> QED BY <1>2, <1>3, <4>1
    <3> QED BY <3>2, <3>3
  <2> QED BY <1>0, <2>3, <2>4, WholeFinding DEF Told, f
<1>8. \A o : Told(o)
  BY <1>7 DEF Told, Exposures
<1> QED BY <1>6, <1>8 DEF f

(* Secure Boot: the first of the variables in the listing decides.         *)
LEMMA BootReads ==
    ASSUME Inductive, Finished, check = "secure-boot"
    PROVE  \A w \in Taken(obs, "read") :
              /\ EfiList \in DOMAIN obs /\ w.at \in obs[EfiList].entries /\ w.at \in BootVariable
              /\ w.at \in DOMAIN world /\ obs[w] \in ever[w.at]
              /\ obs[w].kind \in {"absent", "refused", "short", "enabled", "disabled", "other"}
              /\ w.at \in Still => obs[w] = world[w.at]
<1> SUFFICES ASSUME NEW w \in Taken(obs, "read")
             PROVE  /\ EfiList \in DOMAIN obs /\ w.at \in obs[EfiList].entries /\ w.at \in BootVariable
                    /\ w.at \in DOMAIN world /\ obs[w] \in ever[w.at]
                    /\ obs[w].kind \in {"absent", "refused", "short", "enabled", "disabled", "other"}
                    /\ w.at \in Still => obs[w] = world[w.at]
  OBVIOUS
<1>1. check \in ControlChecks \ CommandControls
  BY DEF ControlChecks, CommandControls
<1>2. w \in DOMAIN obs /\ w.call = "read"
  BY DEF Taken
<1>3. EfiList \in DOMAIN obs /\ w.at \in obs[EfiList].entries
  BY <1>2 DEF Inductive, InPlace, WellPlaced, ControlPlace
<1>4. GenuineListing("efivars", obs[EfiList])
  BY <1>3 DEF Inductive, Genuine, GenuineLook, EfiList, Look, LookFor
<1>5. w.at \in BootVariable
  BY <1>3, <1>4, ContentOf DEF GenuineListing
<1>6. w.at \in DOMAIN world /\ obs[w] \in ever[w.at] /\ ShowsControl(check, w.at, obs[w])
      /\ (w.at \in Still => obs[w] = world[w.at])
  BY <1>1, <1>2, ControlShown
<1>7. obs[w].kind \in {"absent", "refused", "short", "enabled", "disabled", "other"}
  BY <1>5, <1>6 DEF ShowsControl, KindsOf
<1> QED BY <1>3, <1>5, <1>6, <1>7

(* The only variable there all along is the one that is read.              *)
LEMMA BootVariableRead ==
    ASSUME Inductive, Finished, check = "secure-boot", NEW o \in InReach, world[o].kind # "absent"
    PROVE  Taken(obs, "read") # {} /\ \A w \in Taken(obs, "read") : obs[w] = world[o]
<1>1. check \in ControlChecks /\ BootReady(obs) = {}
  <2>1. check \in ControlChecks
    BY DEF ControlChecks
  <2> QED BY <2>1, ControlsFinished DEF ControlsReady, CommandControls
<1>2. /\ o \in BootVariable /\ o \in Still /\ Stays("efivars", {"dir"})
      /\ \A u \in BootVariable \ {o} : Stays(u, {"absent"})
  <2>1. o \in Still /\ o \in ControlsInReach
    BY <1>1, Families
       DEF InReach, Inductive, Types, SudoChecks, PolicyChecks, BrowserChecks, FirefoxChecks, ServicesCheck
  <2> QED BY <2>1 DEF ControlsInReach
<1>3. "efivars" \in Still /\ world["efivars"].kind = "dir"
  BY <1>2 DEF Stays
<1>4. EfiTest \in DOMAIN obs /\ EfiList \in DOMAIN obs
  <2>1. EfiTest \in DOMAIN obs
    BY <1>1 DEF BootReady
  <2>2. obs[EfiTest] = world["efivars"]
    BY <1>3, <2>1, StillFacts DEF EfiTest, Look, LookFor
  <2>3. ASSUME EfiList \notin DOMAIN obs PROVE FALSE
    <3>1. BootReady(obs) = {w \in {EfiList} : obs[EfiTest].kind \in {"dir", "unlistable"}}
      BY <2>1, <2>3 DEF BootReady
    <3> QED BY <1>1, <1>3, <2>2, <3>1
  <2> QED BY <2>1, <2>3
<1>5. o \in obs[EfiList].entries /\ \A u \in obs[EfiList].entries : u = o
  <2>1. Look("list", "efivars") \in DOMAIN obs /\ EfiList = Look("list", "efivars")
    BY <1>4 DEF EfiList
  <2>2. /\ \A e \in BootVariable : e \in Still /\ world[e].kind # "absent" => e \in obs[EfiList].entries
        /\ \A e \in BootVariable : e \in Still /\ world[e].kind = "absent" => e \notin obs[EfiList].entries
        /\ obs[EfiList].entries \subseteq BootVariable
    BY <1>2, <2>1, ListedAllAlong, ContentOf
  <2> QED BY <1>2, <2>2 DEF Stays
<1>6. Taken(obs, "read") # {}
  <2>1. BootReady(obs) = {Read(v) : v \in {u \in obs[EfiList].entries : Taken(obs, "read") = {}}}
    BY <1>4 DEF BootReady
  <2> QED BY <1>1, <1>5, <2>1
<1>7. \A w \in Taken(obs, "read") : w.at = o
  BY <1>5, BootReads
<1> QED BY <1>2, <1>6, <1>7, BootReads

LEMMA BootDecides ==
    ASSUME NEW o, Taken(o, "read") # {},
           \A w \in Taken(o, "read") : o[w].kind \in {"absent", "refused", "short", "enabled", "disabled", "other"}
    PROVE  \E w \in Taken(o, "read") : Decides(BootFinding(o), o[w].kind = "disabled", Dark(o[w]))
<1> DEFINE c == CHOOSE w \in Taken(o, "read") : TRUE
           value == o[c]
<1>1. c \in Taken(o, "read")
  OBVIOUS
<1>2. value.kind \in {"absent", "refused", "short", "enabled", "disabled", "other"}
  BY <1>1
<1>3. BootFinding(o) =
         CASE value.kind \in {"absent", "refused", "other"} -> Unknown
           [] value.kind = "short"    -> Unfinished
           [] value.kind = "enabled"  -> Protected
           [] value.kind = "disabled" -> Finding("fail", "medium", "high")
  BY DEF BootFinding
<1> HIDE DEF value
<1>4. Decides(BootFinding(o), value.kind = "disabled", Dark(value))
  <2>1. CASE value.kind \in {"absent", "refused", "other"}
    <3>1. BootFinding(o) = Unknown
      BY <1>3, <2>1
    <3> QED BY <2>1, <3>1, PlainFindings DEF Decides
  <2>2. CASE value.kind = "short"
    <3>1. BootFinding(o) = Unfinished
      BY <1>3, <2>2
    <3> QED BY <2>2, <3>1, PlainFindings DEF Decides
  <2>3. CASE value.kind = "enabled"
    <3>1. BootFinding(o) = Protected
      BY <1>3, <2>3
    <3> QED BY <2>3, <3>1, PlainFindings DEF Decides, Dark
  <2>4. CASE value.kind = "disabled"
    <3>1. BootFinding(o) = Finding("fail", "medium", "high") /\ "fail" \in Positive
      BY <1>3, <2>4 DEF Positive
    <3> QED BY <2>4, <3>1, PlainFindings DEF Decides
  <2> QED BY <1>2, <2>1, <2>2, <2>3, <2>4
<1> QED BY <1>1, <1>4 DEF value

LEMMA BootSound ==
    ASSUME Inductive, Finished, check = "secure-boot"
    PROVE  Sound(findings[check], DOMAIN world) /\ \A o : Told(o)
<1> DEFINE f == findings[check]
<1>0. check \in ControlChecks \ CommandControls /\ check \notin Separate
  BY DEF ControlChecks, CommandControls, Separate
<1>1. f = BootFinding(obs) /\ \A o : About(o) = f
  BY <1>0, WholeFinding DEF ControlFinding
<1> HIDE DEF f
<1>2. CASE Taken(obs, "read") = {}
  <2>1. f = Unknown
    BY <1>1, <1>2 DEF BootFinding
  <2>2. \A o \in InReach : world[o].kind = "absent"
    BY <1>2, BootVariableRead
  <2>3. \A o : ~(o \in Exposures)
    <3> SUFFICES ASSUME NEW o \in Exposures PROVE FALSE
      OBVIOUS
    <3>1. o \in InReach /\ ControlViolates(o, world[o])
      BY <1>0, ViolatesOf DEF Exposures, Inductive, Types
    <3>2. world[o].kind = "disabled"
      BY <3>1 DEF ControlViolates
    <3> QED BY <2>2, <3>1, <3>2
  <2> QED BY <1>1, <2>1, <2>3, PlainFindings DEF Sound, Told, f
<1>3. CASE Taken(obs, "read") # {}
  <2>1. PICK w \in Taken(obs, "read") : Decides(f, obs[w].kind = "disabled", Dark(obs[w]))
    BY <1>1, <1>3, BootDecides, BootReads
  <2>2. ControlViolates(w.at, obs[w]) <=> obs[w].kind = "disabled"
    BY DEF ControlViolates
  <2>3. Sound(f, DOMAIN world)
    BY <2>1, <2>2, BootReads DEF Sound, Decides
  <2>4. ASSUME NEW o \in InReach PROVE Told(o)
    <3>1. ControlViolates(o, world[o]) => world[o].kind = "disabled"
      BY DEF ControlViolates
    <3>2. o \in Exposures => ControlViolates(o, world[o])
      BY <1>0, ViolatesOf DEF Exposures, Inductive, Types
    <3>3. Hidden(o) => Dark(world[o]) /\ world[o].kind # "absent"
      BY <1>0, ControlHidden DEF Dark
    <3>4. world[o].kind # "absent" => obs[w] = world[o]
      BY BootVariableRead
    <3> QED BY <1>1, <2>1, <3>1, <3>2, <3>3, <3>4 DEF Told, Decides
  <2>5. \A o : Told(o)
    BY <2>4 DEF Told, Exposures
  <2> QED BY <2>3, <2>5 DEF f
<1> QED BY <1>2, <1>3

(* The package databases: what was listed, looked at and timed.            *)
LEMMA DatabasesLooked ==
    ASSUME Inductive, Finished, check = "freshness"
    PROVE  /\ SyncList \in DOMAIN obs /\ obs[SyncList].entries \subseteq Database
           /\ Taken(obs, "stat") \subseteq Stats(obs)
           /\ \A w \in Taken(obs, "stat") :
                 /\ w.at \in Database /\ w.at \in DOMAIN world /\ obs[w] \in ever[w.at]
                 /\ obs[w].kind = "database" => obs[w].mtime \in Int
                 /\ w.at \in Still => obs[w] = world[w.at]
           /\ ~StatFailed(obs) /\ Stats(obs) # {} =>
                 /\ Taken(obs, "stat") = Stats(obs)
                 /\ Clock \in DOMAIN obs /\ obs[Clock] \in ever["clock"] /\ obs[Clock].now \in Int
<1>1. check \in ControlChecks \ CommandControls
  BY DEF ControlChecks, CommandControls
<1>2. FreshnessReady(obs) = {}
  BY <1>1, ControlsFinished DEF ControlsReady, CommandControls
<1>3. SyncList \in DOMAIN obs
  BY <1>2 DEF FreshnessReady
<1>4. obs[SyncList].entries \subseteq Database
  <2>1. GenuineListing("sync", obs[SyncList])
    BY <1>3 DEF Inductive, Genuine, GenuineLook, SyncList, Look, LookFor
  <2> QED BY <2>1, ContentOf DEF GenuineListing
<1>5. Taken(obs, "stat") \subseteq Stats(obs)
  BY DEF Taken, Inductive, InPlace, WellPlaced, ControlPlace
<1>6. ASSUME NEW w \in Taken(obs, "stat")
      PROVE  /\ w.at \in Database /\ w.at \in DOMAIN world /\ obs[w] \in ever[w.at]
             /\ obs[w].kind = "database" => obs[w].mtime \in Int
             /\ w.at \in Still => obs[w] = world[w.at]
  <2>1. w \in DOMAIN obs /\ w.call = "stat"
    BY DEF Taken
  <2>2. /\ w.at \in DOMAIN world /\ obs[w] \in ever[w.at] /\ ShowsControl(check, w.at, obs[w])
        /\ w.at \in Still => obs[w] = world[w.at]
    BY <1>1, <2>1, ControlShown
  <2>3. \E d \in obs[SyncList].entries : w = Look("stat", d)
    BY <1>5 DEF Stats
  <2>4. w.at \in Database
    BY <1>4, <2>3 DEF Look, LookFor
  <2> QED BY <2>2, <2>4 DEF ShowsControl
<1>7. ASSUME ~StatFailed(obs), Stats(obs) # {}
      PROVE  /\ Taken(obs, "stat") = Stats(obs)
             /\ Clock \in DOMAIN obs /\ obs[Clock] \in ever["clock"] /\ obs[Clock].now \in Int
  <2>1. Pending(Stats(obs), obs) = {} /\ Pending({Clock}, obs) = {}
    BY <1>2, <1>3, <1>7, BothEmpty DEF FreshnessReady
  <2>2. Stats(obs) \subseteq DOMAIN obs /\ Clock \in DOMAIN obs
    BY <2>1, NonePending
  <2>3. Stats(obs) \subseteq Taken(obs, "stat")
    BY <2>2 DEF Stats, Taken, Look, LookFor
  <2>4. Clock.call = "time" /\ Clock.at = "clock"
    BY DEF Clock, Look, LookFor
  <2>5. obs[Clock] \in ever["clock"] /\ ShowsControl(check, "clock", obs[Clock])
    BY <1>1, <2>2, <2>4, ControlShown
  <2>6. obs[Clock].now \in Int
    BY <2>5 DEF ShowsControl, KindsOf
  <2> QED BY <1>5, <2>2, <2>3, <2>5, <2>6
<1> QED BY <1>3, <1>4, <1>5, <1>6, <1>7

(* The age is that of the newest of them.                                  *)
LEMMA NewestDatabase ==
    ASSUME Inductive, Finished, check = "freshness", ~StatFailed(obs), Stats(obs) # {}
    PROVE  \E w \in Taken(obs, "stat") :
              /\ obs[w].mtime \in Int /\ Age(obs) = obs[Clock].now - obs[w].mtime
              /\ \A v \in Taken(obs, "stat") : obs[v].mtime \in Int /\ obs[v].mtime <= obs[w].mtime
<1> DEFINE looked == Taken(obs, "stat")
           f == [w \in looked |-> obs[w].mtime]
           times == {obs[w].mtime : w \in looked}
<1>1. looked = Stats(obs) /\ looked # {}
  BY DatabasesLooked
<1>2. \A w \in looked : obs[w].kind = "database"
  BY DEF StatFailed
<1>3. f \in [looked -> Int]
  BY <1>2, DatabasesLooked
<1>4. IsFiniteSet(looked)
  <2> DEFINE d == [w \in looked |-> w.at]
  <2>1. d \in [looked -> Database]
    BY DatabasesLooked
  <2>2. \A v, w \in looked : v.at = w.at => v = w
    BY <1>1 DEF Stats, Look, LookFor
  <2>3. d \in Injection(looked, Database)
    BY <2>1, <2>2 DEF Injection, IsInjective
  <2> HIDE DEF d
  <2>4. IsFiniteSet(Database)
    BY ControlsAssumption
  <2> QED BY <2>3, <2>4, FS_Injection
<1>5. PICK x \in looked : \A y \in looked : f[y] <= f[x]
  BY <1>1, <1>3, <1>4, GreatestOf
<1>6. \A y \in looked : obs[y].mtime \in Int /\ obs[y].mtime <= obs[x].mtime
  BY <1>3, <1>5
<1> DEFINE t == CHOOSE t \in times : \A u \in times : u <= t
<1>7. t \in times /\ \A u \in times : u <= t
  <2>1. obs[x].mtime \in times /\ \A u \in times : u <= obs[x].mtime
    BY <1>6
  <2> HIDE DEF times
  <2> QED BY <2>1
<1>8. t = obs[x].mtime
  <2>1. t \in Int /\ obs[x].mtime \in Int
    BY <1>6, <1>7
  <2>2. t <= obs[x].mtime /\ obs[x].mtime <= t
    BY <1>6, <1>7
  <2> HIDE DEF t
  <2> QED BY <2>1, <2>2
<1>9. Age(obs) = obs[Clock].now - t
  BY DEF Age
<1> QED BY <1>6, <1>8, <1>9

LEMMA FreshnessSound ==
    ASSUME Inductive, Finished, check = "freshness"
    PROVE  Sound(findings[check], DOMAIN world) /\ \A o : Told(o)
<1> DEFINE f == findings[check]
           Seen == ~StatFailed(obs) /\ Stats(obs) # {}
<1>0. /\ check \in ControlChecks \ CommandControls /\ check \notin Separate
      /\ check \in Checks /\ check \in ControlChecks /\ check # ServicesCheck
      /\ check \notin SudoChecks \cup BrowserChecks /\ maximum_age_days \in Nat
  BY Families, ControlsAssumption DEF ControlChecks, CommandControls, Separate, Inductive, Types
<1>1. f = FreshnessFinding(obs) /\ \A o : About(o) = f
  BY <1>0, WholeFinding DEF ControlFinding
<1> HIDE DEF f
<1>2. /\ ~Seen => f = Unknown
      /\ Seen /\ Age(obs) > maximum_age_days /\ ~(Age(obs) < 0) => f = Finding("fail", "low", "high")
      /\ f \in {Unknown, Protected, Finding("fail", "low", "high")}
      /\ f = Finding("fail", "low", "high") => Seen /\ Age(obs) > maximum_age_days
  <2>1. f = IF ~Seen \/ Age(obs) < 0 THEN Unknown
            ELSE IF Age(obs) > maximum_age_days THEN Finding("fail", "low", "high")
            ELSE Protected
    BY <1>1 DEF FreshnessFinding
  <2>2. Finding("fail", "low", "high") # Unknown /\ Finding("fail", "low", "high") # Protected
    BY DEF Finding, Unknown, Protected
  <2> HIDE DEF Seen
  <2> QED BY <2>1, <2>2
<1>3. "fail" \in Positive /\ "low" \in {"low", "medium", "high", "critical"}
  BY DEF Positive
<1>4. WellFormed(f) /\ (f.status \in Positive => f = Finding("fail", "low", "high"))
  BY <1>2, <1>3, PlainFindings
<1>5. ASSUME f.status \in Positive
      PROVE  \E o \in DOMAIN world : \E value \in ever[o] : ControlViolates(o, value)
  <2>1. Seen /\ Age(obs) > maximum_age_days
    BY <1>2, <1>4, <1>5
  <2>2. PICK w \in Taken(obs, "stat") :
           /\ obs[w].mtime \in Int /\ Age(obs) = obs[Clock].now - obs[w].mtime
           /\ \A v \in Taken(obs, "stat") : obs[v].mtime \in Int /\ obs[v].mtime <= obs[w].mtime
    BY <2>1, NewestDatabase
  <2>3. obs[Clock] \in ever["clock"] /\ obs[Clock].now \in Int /\ Taken(obs, "stat") = Stats(obs)
    BY <2>1, DatabasesLooked
  <2>4. obs[w].kind = "database" /\ w.at \in DOMAIN world /\ obs[w] \in ever[w.at]
    BY <2>1, DatabasesLooked DEF StatFailed
  <2>5. ASSUME NEW old \in {obs[w]} \cup KeptDatabases
        PROVE  obs[Clock].now - old.mtime > maximum_age_days
    <3>1. \E v \in Taken(obs, "stat") : old = obs[v]
      <4>1. CASE old = obs[w]
        BY <4>1
      <4>2. CASE old \in KeptDatabases
        <5>1. PICK d \in Database : Stays("sync", {"dir"}) /\ Stays(d, {"database"}) /\ old = world[d]
          BY <4>2 DEF KeptDatabases
        <5>2. Look("list", "sync") \in DOMAIN obs
          BY DatabasesLooked DEF SyncList
        <5>3. d \in obs[SyncList].entries
          BY <5>1, <5>2, ListedAllAlong, ContentOf DEF Stays, SyncList
        <5>4. Look("stat", d) \in Taken(obs, "stat")
          BY <2>3, <5>3 DEF Stats
        <5>5. obs[Look("stat", d)] = world[d]
          BY <5>1, <5>4, DatabasesLooked DEF Stays, Look, LookFor
        <5> QED BY <5>1, <5>4, <5>5
      <4> QED BY <4>1, <4>2
    <3>2. old.mtime \in Int /\ old.mtime <= obs[w].mtime
      BY <2>2, <3>1
    <3> QED BY <1>0, <2>1, <2>2, <2>3, <3>2
  <2>6. ControlViolates(w.at, obs[w])
    BY <2>3, <2>4, <2>5 DEF ControlViolates
  <2> QED BY <2>4, <2>6
<1>6. ASSUME NEW o \in InReach PROVE Told(o)
  <2>1. /\ o \in Database /\ Stays("sync", {"dir"}) /\ "clock" \in Still
        /\ \A e \in Database : e \in Still
    <3>1. o \in ControlsInReach
      BY <1>0 DEF InReach, SudoChecks, PolicyChecks, BrowserChecks, FirefoxChecks
    <3> QED BY <3>1 DEF ControlsInReach
  <2>2. Look("list", "sync") \in DOMAIN obs
    BY DatabasesLooked DEF SyncList
  <2>3. \A e \in Database : world[e].kind # "absent" <=> e \in obs[SyncList].entries
    BY <2>1, <2>2, ListedAllAlong, ContentOf DEF SyncList
  <2>4. \A w \in Taken(obs, "stat") : w.at \in Database /\ obs[w] = world[w.at] /\ w = Look("stat", w.at)
                                      /\ w.at \in obs[SyncList].entries
    BY <2>1, DatabasesLooked DEF Stats, Look, LookFor
  <2>5. world[o].kind # "absent" => Look("stat", o) \in Stats(obs)
    BY <2>1, <2>3 DEF Stats
  <2>6. o \in Exposures => f.status \in Positive
    <3> SUFFICES ASSUME o \in Exposures PROVE f.status \in Positive
      OBVIOUS
    <3>1. Judgeable(o) /\ ControlViolates(o, world[o])
      BY <1>0, ViolatesOf DEF Exposures
    <3>2. \A d \in Database : world[d].kind = "absent" \/ ControlViolates(d, world[d])
      BY <1>0, <3>1, ViolatesOf DEF Judgeable
    <3>3. \A d : ControlViolates(d, world[d]) =>
             /\ world[d].kind = "database"
             /\ \E clock \in ever["clock"] : clock.now - world[d].mtime > maximum_age_days
      BY DEF ControlViolates
    <3>4. ~StatFailed(obs) /\ Stats(obs) # {}
      <4>1. world[o].kind # "absent"
        BY <3>1, <3>3
      <4> QED BY <2>3, <2>4, <2>5, <3>2, <3>3, <4>1 DEF StatFailed
    <3>5. obs[Clock] \in ever["clock"] /\ obs[Clock].now \in Int
      BY <3>4, DatabasesLooked
    <3>6. \A clock \in ever["clock"] : clock = obs[Clock]
      BY <2>1, <3>5, StillFacts
    <3>7. PICK w \in Taken(obs, "stat") : obs[w].mtime \in Int /\ Age(obs) = obs[Clock].now - obs[w].mtime
      BY <3>4, NewestDatabase
    <3>8. ControlViolates(w.at, world[w.at]) /\ obs[w] = world[w.at]
      BY <2>3, <2>4, <3>2
    <3>9. Age(obs) > maximum_age_days
      BY <3>3, <3>6, <3>7, <3>8
    <3>10. ~(Age(obs) < 0)
      BY <1>0, <3>5, <3>7, <3>9
    <3> QED BY <1>2, <1>3, <3>4, <3>9, <3>10, PlainFindings
  <2>7. Hidden(o) => f.status \notin Clean
    <3> SUFFICES ASSUME Hidden(o) PROVE ~Seen
      BY <1>2, PlainFindings
    <3>1. world[o].kind # "database" /\ world[o].kind # "absent"
      BY <1>0, ControlHidden DEF Dark
    <3>2. ASSUME Seen PROVE FALSE
      <4>1. Look("stat", o) \in Taken(obs, "stat")
        BY <2>5, <3>1, <3>2, DatabasesLooked
      <4>2. obs[Look("stat", o)] = world[o]
        BY <2>4, <4>1 DEF Look, LookFor
      <4> QED BY <3>1, <3>2, <4>1, <4>2 DEF StatFailed
    <3> QED BY <3>2
  <2> QED BY <1>1, <2>6, <2>7 DEF Told
<1>7. \A o : Told(o)
  BY <1>6 DEF Told, Exposures
<1> QED BY <1>4, <1>5, <1>7 DEF Sound, f

-----------------------------------------------------------------------------
(* All the checks of controls.                                             *)
LEMMA ControlsSound ==
    ASSUME Inductive, Finished, check \in ControlChecks
    PROVE  /\ \A id \in DOMAIN findings : Sound(findings[id], IF id = check THEN DOMAIN world ELSE {id})
           /\ \A o : Told(o)
<1>1. CASE check \in Separate
  <2>1. \A id \in DOMAIN findings : Sound(findings[id], {id}) /\ id \in DOMAIN world
    BY <1>1, SeparateSound
  <2>2. \A id \in DOMAIN findings : Sound(findings[id], DOMAIN world)
    BY <2>1 DEF Sound
  <2>3. \A o : Told(o)
    BY <1>1, SeparateSound
  <2> QED BY <2>1, <2>2, <2>3
<1>2. CASE check \notin Separate
  <2>1. DOMAIN findings = {check}
    BY <1>2, WholeFinding
  <2>2. check \in CommandControls \cup {"ip-forwarding", "secure-boot", "freshness"}
    BY <1>2 DEF ControlChecks, Separate
  <2>3. Sound(findings[check], DOMAIN world) /\ \A o : Told(o)
    BY <2>2, CommandControlSound, ForwardingSound, BootSound, FreshnessSound
  <2> QED BY <2>1, <2>3
<1> QED BY <1>1, <1>2

(* visudo: what it says of a policy that is there all along.               *)
LEMMA VisudoResult ==
    ASSUME Inductive, Finished, check = "syntax", Visudo \in DOMAIN obs
    PROVE  /\ obs[Visudo] \in ever["visudo"] \cup NotExecuted /\ "visudo" \in DOMAIN world
           /\ Answered => obs[Visudo] \in ever["visudo"]
<1>1. check \in SudoChecks /\ check \in Checks /\ check # ServicesCheck
  BY Families DEF SudoChecks, Inductive, Types
<1>2. Visudo.call = "run" /\ Visudo.at = "visudo"
  BY DEF Visudo, Look, LookFor
<1>3. Visudo \notin {Active, Enabled, Show}
  BY <1>2 DEF Active, Enabled, Show, LookFor
<1>4. obs[Visudo] \in ever["visudo"] \cup NotExecuted /\ "visudo" \in ObjectsOf(check)
  BY <1>2, <1>3 DEF Inductive, Genuine, GenuineLook
<1>5. Answered => obs[Visudo] \notin NotExecuted
  BY <1>2 DEF Answered, Taken
<1> QED BY <1>4, <1>5 DEF Inductive, Types

LEMMA VisudoAsked ==
    ASSUME Inductive, Finished, check = "syntax", NEW o \in InReach
    PROVE  /\ o = "visudo" /\ o \in Still /\ Visudo \in DOMAIN obs
           /\ obs[Visudo] \in {world[o]} \cup NotExecuted
           /\ Answered => obs[Visudo] = world[o]
<1>1. check \in SudoChecks /\ check \in Checks /\ Ready = SudoReady(check, obs) /\ Ready = {}
  <2>1. check \in SudoChecks
    BY DEF SudoChecks
  <2> QED BY <2>1, FinishedFacts, ReadyOf
<1>2. o = "visudo" /\ o \in Still /\ "sudoers" \in Still /\ world["sudoers"].kind \notin {"absent", "refused"}
  BY <1>1, Families DEF InReach
<1>3. SyntaxGate \in DOMAIN obs
  BY <1>1 DEF SudoReady
<1>4. obs[SyntaxGate] = world["sudoers"]
  BY <1>2, <1>3, StillFacts DEF SyntaxGate, Look, LookFor
<1>5. Visudo \in DOMAIN obs
  <2> DEFINE asked == {Visudo : w \in {v \in {SyntaxGate} : obs[v].kind \notin {"absent", "refused"}}}
  <2>1. Pending(asked, obs) = {}
    BY <1>1, <1>3 DEF SudoReady
  <2>2. asked \subseteq DOMAIN obs
    <3> HIDE DEF asked
    <3> QED BY <2>1, NonePending
  <2> QED BY <1>2, <1>4, <2>2
<1> QED BY <1>2, <1>5, VisudoResult, StillFacts

SyntaxTells(f) ==
    /\ WellFormed(f)
    /\ f.status \in Positive =>
          \E o \in DOMAIN world : \E value \in ever[o] : SudoViolates(o, value)
    /\ \A o \in InReach :
          /\ Answered /\ SudoViolates(o, world[o]) => f.status \in Positive
          /\ Hidden(o) => f.status \notin Clean

LEMMA SyntaxSound ==
    ASSUME Inductive, Finished, check = "syntax"
    PROVE  SyntaxTells(SyntaxFinding(obs))
<1> DEFINE f == SyntaxFinding(obs)
           r == obs[Visudo]
<1>1. CASE Visudo \notin DOMAIN obs
  <2>1. f \in {Nothing("high"), Unknown}
    BY <1>1 DEF SyntaxFinding
  <2>2. InReach = {}
    BY <1>1, VisudoAsked
  <2> QED BY <2>1, <2>2, PlainFindings DEF SyntaxTells
<1>2. CASE Visudo \in DOMAIN obs
  <2>1. f = IF r.returncode = 0 THEN Protected
            ELSE IF r.returncode \in {124, 126, 127} \/ "permission denied" \in r.stdout THEN Unknown
            ELSE Finding("fail", "high", "high")
    BY <1>2 DEF SyntaxFinding
  <2>2. \A value : SudoViolates("visudo", value) <=>
           value.returncode \notin {0, 124, 126, 127} /\ "permission denied" \notin value.stdout
    BY DEF SudoViolates, PolicyChecks
  <2>3. "fail" \in Positive
    BY DEF Positive
  <2>4. r \in NotExecuted => r.returncode \in {124, 126, 127}
    BY DEF NotExecuted, Result
  <2>5. \A o : Hidden(o) => world[o].returncode # 0 /\ "permission denied" \in world[o].stdout
    BY DEF Hidden, PolicyChecks, ServicesCheck, FirefoxChecks, CommandControls, ControlChecks
  <2>6. /\ r \in ever["visudo"] \cup NotExecuted /\ "visudo" \in DOMAIN world
        /\ \A o \in InReach : /\ o = "visudo" /\ r \in {world[o]} \cup NotExecuted
                              /\ Answered => r = world[o]
    BY <1>2, VisudoResult, VisudoAsked
  <2> HIDE DEF f, r
  <2>a. ASSUME NEW o \in InReach
        PROVE  /\ Answered /\ SudoViolates(o, world[o]) =>
                     r.returncode \notin {0, 124, 126, 127} /\ "permission denied" \notin r.stdout
               /\ Hidden(o) => /\ r.returncode # 0
                               /\ r.returncode \in {124, 126, 127} \/ "permission denied" \in r.stdout
    <3>1. o = "visudo" /\ r \in {world[o]} \cup NotExecuted /\ (Answered => r = world[o])
      BY <2>6
    <3>2. Answered /\ SudoViolates(o, world[o]) => SudoViolates("visudo", r)
      BY <3>1
    <3>3. r \in NotExecuted => r.returncode \in {124, 126, 127} /\ r.returncode # 0
      BY <2>4
    <3> QED BY <2>2, <2>5, <3>1, <3>2, <3>3, ZenonT(40)
  <2>7. CASE r.returncode = 0
    BY <2>1, <2>a, <2>7, PlainFindings DEF SyntaxTells, f
  <2>8. CASE r.returncode # 0 /\ (r.returncode \in {124, 126, 127} \/ "permission denied" \in r.stdout)
    <3>1. f = Unknown
      BY <2>1, <2>8
    <3> QED BY <2>8, <2>a, <3>1, PlainFindings DEF SyntaxTells, f
  <2>9. CASE r.returncode \notin {0, 124, 126, 127} /\ "permission denied" \notin r.stdout
    <3>1. f = Finding("fail", "high", "high")
      BY <2>1, <2>9
    <3>2. WellFormed(f) /\ f.status \in Positive /\ f.status \notin Clean
      BY <2>3, <3>1, PlainFindings
    <3>3. r \in ever["visudo"] /\ SudoViolates("visudo", r)
      BY <2>2, <2>4, <2>6, <2>9
    <3> QED BY <2>6, <3>2, <3>3 DEF SyntaxTells, f
  <2> QED BY <2>7, <2>8, <2>9
<1> QED BY <1>1, <1>2

-----------------------------------------------------------------------------
(* A physical line without the backslash that continues it.                *)
LEMMA UnbrokenIs ==
    ASSUME NEW line \in Seq(STRING)
    PROVE  /\ Unbroken(line) \in Seq(STRING)
           /\ Len(Unbroken(line)) = IF Continued(line) THEN Len(line) - 1 ELSE Len(line)
           /\ Len(line) \in Nat /\ Len(Unbroken(line)) \in Nat
           /\ \A k \in 1..Len(Unbroken(line)) : k \in DOMAIN line /\ Unbroken(line)[k] = line[k]
           /\ \A k \in DOMAIN line : line[k] # "\\" => k \in 1..Len(Unbroken(line))
<1>1. CASE ~Continued(line)
  BY <1>1 DEF Unbroken
<1>2. CASE Continued(line)
  <2>1. line # <<>> /\ line[Len(line)] = "\\" /\ Len(line) \in Nat /\ Len(line) >= 1
    BY <1>2 DEF Continued, Last
  <2>2. Unbroken(line) = SubSeq(line, 1, Len(line) - 1)
    BY <1>2 DEF Unbroken, Front
  <2> DEFINE s == SubSeq(line, 1, Len(line) - 1)
  <2>3. \A i \in 1..(Len(line) - 1) : line[i] \in STRING
    OBVIOUS
  <2>4. /\ s \in Seq(STRING) /\ Len(s) = Len(line) - 1
        /\ \A k \in 1..(Len(line) - 1) : s[k] = line[k]
    <3> DEFINE n == Len(line) - 1
    <3>1. n \in Nat /\ n \in Int /\ 1 \in Int /\ \A i \in 1..n : line[i] \in STRING
      BY <2>1, <2>3
    <3>2. /\ SubSeq(line, 1, n) \in Seq(STRING)
          /\ Len(SubSeq(line, 1, n)) = IF 1 <= n THEN n - 1 + 1 ELSE 0
          /\ \A i \in 1..(n - 1 + 1) : SubSeq(line, 1, n)[i] = line[1 + i - 1]
      <4> HIDE DEF n
      <4> QED BY <3>1, SubSeqProperties
    <3> DEFINE t == SubSeq(line, 1, n)
    <3>3. t \in Seq(STRING) /\ Len(t) = n /\ \A k \in 1..n : t[k] = line[k]
      <4> HIDE DEF n
      <4> QED BY <3>1, <3>2
    <3> QED BY <3>3
  <2> HIDE DEF s
  <2>5. \A k \in DOMAIN line : k \in 1..Len(line)
    OBVIOUS
  <2>6. \A k \in 1..Len(line) : k \in DOMAIN line
    OBVIOUS
  <2> QED BY <1>2, <2>1, <2>2, <2>4, <2>5, <2>6 DEF s
<1> QED BY <1>1, <1>2

(* Every logical line ends.                                                *)
LEMMA LineEndIs ==
    ASSUME NEW text \in Seq(Seq(STRING)), NEW i \in DOMAIN text
    PROVE  LET e == LineEnd(text, i)
           IN  /\ e \in i..Len(text)
               /\ \A k \in i..(e - 1) : Continued(text[k])
               /\ e = Len(text) \/ ~Continued(text[e])
<1> DEFINE N == Len(text)
           S == {j \in i..N : j = N \/ ~Continued(text[j])}
<1>1. N \in Nat /\ i \in Nat /\ i \in 1..N
  OBVIOUS
<1>2. S \subseteq Nat /\ S # {}
  <2>1. N \in S
    BY <1>1
  <2>2. \A j \in i..N : j \in Nat
    BY <1>1
  <2> HIDE DEF N
  <2> QED BY <2>1, <2>2
<1>3. PICK e \in S : \A m \in S : e <= m
  <2> HIDE DEF S
  <2> QED BY <1>2, LeastElement
<1>4. e \in i..N /\ (e = N \/ ~Continued(text[e]))
  BY <1>3
<1>5. \A k \in i..(e - 1) : Continued(text[k])
  <2> SUFFICES ASSUME NEW k \in i..(e - 1), ~Continued(text[k]) PROVE FALSE
    OBVIOUS
  <2>1. k \in S
    BY <1>1, <1>4
  <2>2. ~(e <= k)
    BY <1>1, <1>4
  <2> QED BY <1>3, <2>1, <2>2
<1> HIDE DEF S
<1> QED BY <1>4, <1>5 DEF LineEnd

(* Every physical line belongs to a logical one.                           *)
LEMMA LineOf ==
    ASSUME NEW text \in Seq(Seq(STRING)), NEW i \in DOMAIN text
    PROVE  \E s \in LineStarts(text) : i \in s..LineEnd(text, s)
<1> DEFINE S == {s \in LineStarts(text) : s <= i}
           N == Len(text)
<1>1. N \in Nat /\ i \in 1..N /\ DOMAIN text = 1..N
  OBVIOUS
<1>2. 1 \in S
  BY <1>1 DEF LineStarts
<1>3. S \subseteq 1..i
  BY <1>1 DEF LineStarts
<1>4. PICK s \in S : \A m \in S : m <= s
  <2> HIDE DEF S
  <2>1. IsFiniteSet(1..i) /\ 1 \in Int /\ i \in Int
    BY <1>1, FS_Interval
  <2>2. IsFiniteSet(S)
    BY <1>3, <2>1, FS_Subset
  <2> DEFINE g == [x \in S |-> x]
  <2>3. g \in [S -> Int]
    BY <1>1, <1>3
  <2>4. \A x \in S : g[x] = x
    OBVIOUS
  <2> HIDE DEF g
  <2>5. \E x \in S : \A y \in S : g[y] <= g[x]
    BY <1>2, <2>2, <2>3, GreatestOf
  <2> QED BY <2>4, <2>5
<1> DEFINE e == LineEnd(text, s)
<1>5. s \in LineStarts(text) /\ s \in DOMAIN text /\ s <= i
  BY DEF LineStarts
<1>6. e \in s..N /\ (e = N \/ ~Continued(text[e]))
  BY <1>5, LineEndIs
<1>7. ASSUME e < i PROVE FALSE
  <2>1. e # N /\ e + 1 \in 1..N /\ e + 1 <= i /\ (e + 1) - 1 = e /\ ~(e + 1 <= s)
    BY <1>1, <1>5, <1>6, <1>7
  <2>2. e + 1 \in LineStarts(text)
    BY <1>1, <1>6, <2>1 DEF LineStarts
  <2> HIDE DEF e
  <2> QED BY <1>4, <2>1, <2>2
<1> HIDE DEF e
<1> QED BY <1>1, <1>5, <1>6, <1>7 DEF e

(* The tokens before the first comment are the first ones.                 *)
LEMMA PolicyIs ==
    ASSUME NEW line \in Seq(STRING)
    PROVE  LET c == Cardinality(Policy(line)) IN c \in 0..Len(line) /\ Policy(line) = 1..c
<1> DEFINE N == Len(line)
           cut == {k \in DOMAIN line : line[k] \in Comments}
<1>1. N \in Nat /\ DOMAIN line = 1..N
  OBVIOUS
<1>2. \E c \in 0..N : Policy(line) = 1..c
  <2>0. Policy(line) = {k \in 1..N : \A c \in cut : k < c}
    BY <1>1 DEF Policy
  <2>a. cut \subseteq 1..N
    BY <1>1
  <2> HIDE DEF cut
  <2>1. CASE cut = {}
    <3>1. Policy(line) = 1..N
      BY <2>0, <2>1
    <3>2. N \in 0..N
      BY <1>1
    <3> HIDE DEF N
    <3> QED BY <3>1, <3>2
  <2>2. CASE cut # {}
    <3>1. cut \subseteq 1..N
      BY <2>a
    <3>a. cut \subseteq Nat
      BY <1>1, <3>1
    <3>2. PICK m \in cut : \A c \in cut : m <= c
      BY <2>2, <3>a, LeastElement
    <3>3. m \in 1..N /\ m - 1 \in 0..N
      BY <1>1, <3>1
    <3>4. ASSUME NEW k \in 1..N PROVE (\A c \in cut : k < c) <=> k <= m - 1
      BY <1>1, <3>1, <3>2, <3>3, <3>4
    <3>5. Policy(line) = {k \in 1..N : k <= m - 1}
      BY <2>0, <3>4
    <3>6. {k \in 1..N : k <= m - 1} = 1..(m - 1)
      BY <1>1, <3>3
    <3> QED BY <3>3, <3>5, <3>6
  <2> QED BY <2>1, <2>2
<1>3. PICK c \in 0..N : Policy(line) = 1..c
  BY <1>2, Zenon
<1>4. Cardinality(1..c) = c
  <2>1. c \in Nat /\ 1 \in Int /\ c \in Int
    BY <1>1
  <2>2. Cardinality(1..c) = IF 1 > c THEN 0 ELSE c - 1 + 1
    BY <2>1, FS_Interval
  <2> QED BY <2>1, <2>2
<1> QED BY <1>3, <1>4

(* Where the tokens of the physical lines of a logical line are in it.     *)
Line(text, s) ==
    FlattenSeq([j \in 1..(LineEnd(text, s) - s + 1) |-> Unbroken(text[s + j - 1])])

Laid(text, s, off) ==
    LET line == Line(text, s)
        lines == s..LineEnd(text, s)
    IN  /\ \A j \in lines : /\ off[j] \in Nat
                           /\ \A k \in 1..Len(Unbroken(text[j])) :
                                 off[j] + k \in 1..Len(line) /\ line[off[j] + k] = text[j][k]
        /\ \A h, j \in lines : h < j => off[h] + Len(Unbroken(text[h])) <= off[j]
        /\ \A p \in 1..Len(line) :
              \E j \in lines : \E k \in 1..Len(Unbroken(text[j])) : p = off[j] + k

LEMMA LinePlaces ==
    ASSUME NEW text \in Seq(Seq(STRING)), NEW s \in LineStarts(text)
    PROVE  Line(text, s) \in Seq(STRING) /\ \E off : Laid(text, s, off)
<1> DEFINE e == LineEnd(text, s)
           n == e - s + 1
           ss == [j \in 1..n |-> Unbroken(text[s + j - 1])]
           line == Line(text, s)
<1>1. s \in DOMAIN text /\ s \in 1..Len(text) /\ Len(text) \in Nat
  BY DEF LineStarts
<1>2. e \in s..Len(text)
  BY <1>1, LineEndIs
<1>3. e \in Nat /\ s \in Nat /\ s >= 1 /\ n \in Nat /\ n >= 1 /\ s + n - 1 = e
  <2> HIDE DEF e
  <2> QED BY <1>1, <1>2
<1>4. \A i \in s..e : text[i] \in Seq(STRING)
  <2> HIDE DEF e
  <2>1. \A i \in 1..Len(text) : text[i] \in Seq(STRING)
    OBVIOUS
  <2> QED BY <1>1, <1>2, <2>1
<1> HIDE DEF e
<1>5. \A j \in 1..n : s + j - 1 \in s..e
  BY <1>3
<1>6. ss \in [1..n -> Seq(STRING)]
  BY <1>4, <1>5, UnbrokenIs
<1>7. ss \in Seq(Seq(STRING)) /\ Len(ss) = n /\ ss # <<>>
  <2> HIDE DEF n, ss
  <2>1. \A T : \A q \in [1..n -> T] : q \in Seq(T) /\ Len(q) = n
    BY <1>3
  <2>2. ss \in Seq(Seq(STRING)) /\ Len(ss) = n
    BY <1>6, <2>1
  <2>3. Len(<<>>) = 0
    OBVIOUS
  <2> QED BY <1>3, <2>2, <2>3
<1>8. line = FlattenSeq(ss)
  BY DEF Line, e
<1> HIDE DEF ss, line
<1>9. line \in Seq(STRING)
  BY <1>7, <1>8, FlattenedItems
<1>10. PICK f : /\ \A m \in 0..n : PlacesOf(ss, f, m)
                /\ f[n] = line /\ Before(f, n) = Len(line)
  BY <1>7, <1>8, FlattenedItems
<1> DEFINE b(m) == Before(f, m)
           size(m) == Len(ss[m])
<1>11. \A m \in 0..n : b(m) \in Nat /\ b(m) <= b(n)
  <2>1. n \in 0..n
    BY <1>3
  <2> QED BY <1>10, <2>1 DEF PlacesOf
<1>12. \A m \in 1..n : /\ b(m) = b(m - 1) + size(m)
                      /\ \A k \in 1..size(m) : line[b(m - 1) + k] = ss[m][k]
  <2>1. n \in 0..n
    BY <1>3
  <2> QED BY <1>10, <2>1 DEF PlacesOf
<1>13. \A p \in 1..b(n) : \E m \in 1..n : \E k \in 1..size(m) : p = b(m - 1) + k
  <2>1. n \in 0..n
    BY <1>3
  <2> QED BY <1>10, <2>1 DEF PlacesOf
<1>14. \A m \in 0..n : \A h \in 0..m : b(h) <= b(m)
  BY <1>10 DEF PlacesOf
<1>15. \A m \in 1..n : size(m) \in Nat
  BY <1>6
<1> HIDE DEF b, size
<1> DEFINE off == [j \in s..e |-> b(j - s)]
<1>16. ASSUME NEW j \in s..e
       PROVE  /\ j - s \in 0..n /\ j - s + 1 \in 1..n /\ (j - s + 1) - 1 = j - s
              /\ off[j] = b(j - s) /\ off[j] \in Nat
              /\ size(j - s + 1) = Len(Unbroken(text[j])) /\ ss[j - s + 1] = Unbroken(text[j])
  <2>1. j - s \in 0..n /\ j - s + 1 \in 1..n /\ (j - s + 1) - 1 = j - s
    BY <1>3
  <2>2. s + (j - s + 1) - 1 = j
    BY <1>3
  <2>3. ss[j - s + 1] = Unbroken(text[j])
    BY <2>1, <2>2 DEF ss
  <2> QED BY <1>11, <2>1, <2>3 DEF size
<1>17. ASSUME NEW j \in s..e, NEW k \in 1..Len(Unbroken(text[j]))
       PROVE  off[j] + k \in 1..Len(line) /\ line[off[j] + k] = text[j][k]
  <2> DEFINE m == j - s + 1
  <2>1. m \in 1..n /\ m - 1 = j - s /\ off[j] = b(m - 1) /\ k \in 1..size(m) /\ m \in 0..n
    BY <1>3, <1>16
  <2>2. Unbroken(text[j])[k] = text[j][k]
    BY <1>4, UnbrokenIs
  <2>3. line[b(m - 1) + k] = text[j][k]
    BY <1>12, <1>16, <2>1, <2>2
  <2> HIDE DEF m
  <2>4. b(m) = b(m - 1) + size(m) /\ b(m) <= b(n) /\ b(n) = Len(line)
    BY <1>10, <1>11, <1>12, <2>1 DEF b
  <2>5. b(m - 1) \in Nat /\ size(m) \in Nat /\ b(n) \in Nat /\ k \in Nat /\ k >= 1 /\ k <= size(m)
    BY <1>3, <1>11, <1>15, <1>16, <2>1
  <2>6. b(m - 1) + k \in 1..Len(line)
    BY <2>4, <2>5
  <2> QED BY <2>1, <2>3, <2>6
<1>18. ASSUME NEW h \in s..e, NEW j \in s..e, h < j
       PROVE  off[h] + Len(Unbroken(text[h])) <= off[j]
  <2>1. h - s + 1 \in 0..(j - s)
    BY <1>3, <1>18
  <2>2. b(h - s + 1) <= b(j - s)
    BY <1>14, <1>16, <2>1
  <2> QED BY <1>12, <1>16, <2>2
<1>19. ASSUME NEW p \in 1..Len(line)
       PROVE  \E j \in s..e : \E k \in 1..Len(Unbroken(text[j])) : p = off[j] + k
  <2>1. PICK m \in 1..n : \E k \in 1..size(m) : p = b(m - 1) + k
    BY <1>10, <1>13 DEF b
  <2>2. s + m - 1 \in s..e /\ (s + m - 1) - s + 1 = m /\ (s + m - 1) - s = m - 1
    BY <1>3
  <2> QED BY <1>16, <2>1, <2>2
<1> HIDE DEF off
<1>20. Laid(text, s, off)
  BY <1>16, <1>17, <1>18, <1>19 DEF Laid, line, e
<1> QED BY <1>9, <1>20 DEF line

(* A logical line takes in what is joined to one of its lines.             *)
LEMMA JoinedIs ==
    ASSUME NEW text \in Seq(Seq(STRING)), NEW s \in LineStarts(text),
           NEW i \in s..LineEnd(text, s), NEW j \in 1..i
    PROVE  Joined(text, j, i) <=> j >= s
<1> DEFINE e == LineEnd(text, s)
<1>1. s \in DOMAIN text /\ s \in 1..Len(text) /\ Len(text) \in Nat
      /\ (s = 1 \/ ~Continued(text[s - 1]))
  BY DEF LineStarts
<1>2. e \in s..Len(text) /\ \A k \in s..(e - 1) : Continued(text[k])
  BY <1>1, LineEndIs
<1> HIDE DEF e
<1>3. ASSUME j >= s PROVE Joined(text, j, i)
  <2>1. \A n \in j..(i - 1) : n \in s..(e - 1)
    BY <1>1, <1>2, <1>3 DEF e
  <2> QED BY <1>2, <2>1 DEF Joined
<1>4. ASSUME ~(j >= s) PROVE ~Joined(text, j, i)
  <2>1. s # 1 /\ s - 1 \in j..(i - 1)
    BY <1>1, <1>2, <1>4 DEF e
  <2> QED BY <1>1, <2>1 DEF Joined
<1> QED BY <1>3, <1>4

(* A token of a physical line is policy in its logical line if it is       *)
(* policy in the text.                                                     *)
LEMMA PolicyPlaces ==
    ASSUME NEW text \in Seq(Seq(STRING)), NEW s \in LineStarts(text), NEW off, Laid(text, s, off),
           NEW i \in s..LineEnd(text, s), NEW k \in 1..Len(Unbroken(text[i])),
           text[i][k] \notin Comments
    PROVE  IsPolicy(text, i, k) <=> off[i] + k \in Policy(Line(text, s))
<1> DEFINE e == LineEnd(text, s)
           line == Line(text, s)
           size(j) == Len(Unbroken(text[j]))
<1>1. s \in DOMAIN text /\ s \in 1..Len(text) /\ Len(text) \in Nat
  BY DEF LineStarts
<1>2. e \in s..Len(text)
  BY <1>1, LineEndIs
<1>3. \A j \in s..e : text[j] \in Seq(STRING)
  <2>1. \A j \in 1..Len(text) : text[j] \in Seq(STRING)
    OBVIOUS
  <2> HIDE DEF e
  <2> QED BY <1>1, <1>2, <2>1
<1>4. line \in Seq(STRING) /\ DOMAIN line = 1..Len(line) /\ Len(line) \in Nat
  BY LinePlaces
<1>5. /\ \A j \in s..e : off[j] \in Nat /\ size(j) \in Nat
      /\ \A j \in s..e : \A m \in 1..size(j) :
            off[j] + m \in 1..Len(line) /\ line[off[j] + m] = text[j][m]
      /\ \A h, j \in s..e : h < j => off[h] + size(h) <= off[j]
      /\ \A p \in 1..Len(line) : \E j \in s..e : \E m \in 1..size(j) : p = off[j] + m
  BY <1>3, UnbrokenIs DEF Laid
<1>6. \A j \in s..e : \A m \in DOMAIN text[j] : text[j][m] \in Comments => m \in 1..size(j)
  BY <1>3, UnbrokenIs DEF Comments
<1>7. \A j \in s..e : \A m \in 1..size(j) : m \in DOMAIN text[j] /\ m \in Nat
  BY <1>3, UnbrokenIs
<1>8. i \in s..e /\ k \in 1..size(i)
  OBVIOUS
<1>9. \A j \in 1..i : Joined(text, j, i) <=> j >= s
  BY JoinedIs
<1> HIDE DEF e, line, size
<1>10. off[i] + k \in 1..Len(line) /\ line[off[i] + k] \notin Comments
  BY <1>5, <1>8
<1>11. ASSUME NEW j \in s..e, NEW m \in 1..size(j)
       PROVE  off[j] + m < off[i] + k <=> (j < i \/ (j = i /\ m < k))
  <2>1. off[j] \in Nat /\ off[i] \in Nat /\ size(j) \in Nat /\ size(i) \in Nat /\ m \in Nat /\ k \in Nat
    BY <1>5, <1>7, <1>8
  <2>2. CASE j < i
    <3>1. off[j] + size(j) <= off[i]
      BY <1>5, <1>8, <2>2
    <3> QED BY <1>8, <2>1, <2>2, <3>1
  <2>3. CASE j = i
    BY <1>1, <1>2, <1>8, <2>1, <2>3, SMTT(30)
  <2>4. CASE i < j
    <3>1. off[i] + size(i) <= off[j]
      BY <1>5, <1>8, <2>4
    <3>2. ~(j < i) /\ j # i
      BY <1>1, <1>2, <1>8, <2>4
    <3>3. k <= size(i) /\ m >= 1
      BY <1>8, <2>1
    <3>4. ~(off[j] + m < off[i] + k)
      BY <2>1, <3>1, <3>3
    <3> QED BY <3>2, <3>4
  <2> QED BY <1>1, <1>2, <1>8, <2>2, <2>3, <2>4
<1>12. ASSUME IsPolicy(text, i, k), off[i] + k \notin Policy(line) PROVE FALSE
  <2>1. PICK q \in 1..Len(line) : line[q] \in Comments /\ ~(off[i] + k < q)
    BY <1>4, <1>10, <1>12 DEF Policy
  <2>2. PICK j \in s..e : \E m \in 1..size(j) : q = off[j] + m
    BY <1>5
  <2>3. PICK m \in 1..size(j) : q = off[j] + m
    BY <2>2
  <2>4. text[j][m] \in Comments /\ m \in DOMAIN text[j]
    BY <1>5, <1>7, <2>1, <2>3
  <2>5. off[j] + m < off[i] + k
    <3>1. q # off[i] + k
      BY <1>10, <2>1
    <3>2. off[i] \in Nat /\ k \in Nat
      BY <1>5, <1>7, <1>8
    <3>3. q < off[i] + k
      <4> DEFINE x == off[i] + k
      <4>1. x \in Nat /\ q \in Nat
        BY <1>4, <3>2
      <4>2. q # x /\ ~(x < q)
        BY <2>1, <3>1
      <4> HIDE DEF x
      <4>3. q < x
        BY <4>1, <4>2
      <4> QED BY <4>3 DEF x
    <3> QED BY <2>3, <3>3
  <2>6. j \in 1..i /\ j >= s /\ (j < i \/ m < k)
    BY <1>1, <1>2, <1>8, <1>11, <2>5, SMTT(30)
  <2> QED BY <1>9, <1>12, <2>4, <2>6 DEF IsPolicy
<1>13. ASSUME ~IsPolicy(text, i, k), off[i] + k \in Policy(line) PROVE FALSE
  <2>1. PICK j \in 1..i : \E m \in DOMAIN text[j] :
            text[j][m] \in Comments /\ (j < i \/ m < k) /\ Joined(text, j, i)
    BY <1>13 DEF IsPolicy
  <2>2. PICK m \in DOMAIN text[j] : text[j][m] \in Comments /\ (j < i \/ m < k)
    BY <2>1
  <2>3. j \in s..e
    BY <1>1, <1>2, <1>8, <1>9, <2>1
  <2>4. m \in 1..size(j) /\ m \in Nat
    BY <1>6, <1>7, <2>2, <2>3
  <2>5. off[j] + m < off[i] + k
    BY <1>1, <1>8, <1>11, <2>2, <2>3, <2>4
  <2>6. off[j] + m \in DOMAIN line /\ line[off[j] + m] \in Comments
    BY <1>4, <1>5, <2>2, <2>3, <2>4
  <2>7. off[i] + k < off[j] + m
    BY <1>13, <2>6 DEF Policy
  <2>8. off[j] \in Nat /\ off[i] \in Nat /\ k \in Nat
    BY <1>5, <1>7, <1>8, <2>3
  <2> QED BY <2>4, <2>5, <2>7, <2>8
<1> QED BY <1>12, <1>13 DEF line

(* The first token of a logical line, where some token of it stands.       *)
LEMMA FirstToken ==
    ASSUME NEW text \in Seq(Seq(STRING)), NEW s \in LineStarts(text), NEW off, Laid(text, s, off),
           NEW i \in s..LineEnd(text, s), NEW k \in 1..Len(Unbroken(text[i]))
    PROVE  InDefaults(text, i) <=> Line(text, s)[1] = "Defaults"
<1> DEFINE e == LineEnd(text, s)
           line == Line(text, s)
           size(j) == Len(Unbroken(text[j]))
<1>1. s \in DOMAIN text /\ s \in 1..Len(text) /\ Len(text) \in Nat
  BY DEF LineStarts
<1>2. e \in s..Len(text) /\ \A n \in s..(e - 1) : Continued(text[n])
  BY <1>1, LineEndIs
<1>3. \A j \in s..e : text[j] \in Seq(STRING)
  <2>1. \A j \in 1..Len(text) : text[j] \in Seq(STRING)
    OBVIOUS
  <2> HIDE DEF e
  <2> QED BY <1>1, <1>2, <2>1
<1>4. line \in Seq(STRING) /\ Len(line) \in Nat
  BY LinePlaces
<1>5. /\ \A j \in s..e : off[j] \in Nat /\ size(j) \in Nat
      /\ \A j \in s..e : \A m \in 1..size(j) :
            off[j] + m \in 1..Len(line) /\ line[off[j] + m] = text[j][m]
      /\ \A h, j \in s..e : h < j => off[h] + size(h) <= off[j]
      /\ \A p \in 1..Len(line) : \E j \in s..e : \E m \in 1..size(j) : p = off[j] + m
  BY <1>3, UnbrokenIs DEF Laid
<1>6. \A j \in s..e : text[j] # <<>> /\ text[j][1] = "Defaults" => 1 \in 1..size(j)
  <2> SUFFICES ASSUME NEW j \in s..e, text[j] # <<>>, text[j][1] = "Defaults" PROVE 1 \in 1..size(j)
    OBVIOUS
  <2>1. 1 \in DOMAIN text[j] /\ text[j][1] # "\\"
    BY <1>3
  <2> QED BY <1>3, <2>1, UnbrokenIs
<1>7. \A j \in s..(e - 1) : j \in s..e /\ (text[j] = <<"\\">> <=> size(j) = 0)
  <2> SUFFICES ASSUME NEW j \in s..(e - 1) PROVE j \in s..e /\ (text[j] = <<"\\">> <=> size(j) = 0)
    OBVIOUS
  <2>1. j \in s..e /\ Continued(text[j])
    BY <1>1, <1>2
  <2>2. text[j] \in Seq(STRING) /\ text[j] # <<>> /\ text[j][Len(text[j])] = "\\"
    BY <1>3, <2>1 DEF Continued, Last
  <2>3. size(j) = Len(text[j]) - 1
    BY <2>1, <2>2, UnbrokenIs
  <2>4. text[j] = <<"\\">> <=> Len(text[j]) = 1
    <3>1. ASSUME Len(text[j]) = 1 PROVE text[j] = <<"\\">>
      <4> DEFINE q == text[j]
      <4>1. q \in Seq(STRING) /\ Len(q) = 1 /\ q[1] = "\\"
        BY <2>2, <3>1
      <4> HIDE DEF q
      <4>3. q = <<q[1]>>
        BY <4>1
      <4> QED BY <4>1, <4>3 DEF q
    <3>2. text[j] = <<"\\">> => Len(text[j]) = 1
      OBVIOUS
    <3> QED BY <3>1, <3>2
  <2>5. Len(text[j]) \in Nat
    BY <2>2
  <2> QED BY <2>1, <2>3, <2>4, <2>5
<1>8. i \in s..e /\ k \in 1..size(i)
  OBVIOUS
<1>9. \A h \in s..e : \A j \in 1..h : Joined(text, j, h) <=> j >= s
  BY JoinedIs
<1> HIDE DEF e, line, size
<1>10. 1 \in 1..Len(line)
  <2>1. off[i] + k \in 1..Len(line)
    BY <1>5, <1>8
  <2> QED BY <1>4, <2>1
<1>11. PICK first \in s..e : \E m \in 1..size(first) : 1 = off[first] + m
  BY <1>5, <1>10
<1>12. PICK m \in 1..size(first) : 1 = off[first] + m
  BY <1>11
<1>13. off[first] = 0 /\ m = 1 /\ line[1] = text[first][1] /\ 1 \in 1..size(first) /\ off[first] \in Nat
  <2>1. off[first] \in Nat /\ size(first) \in Nat
    BY <1>5
  <2>2. off[first] = 0 /\ m = 1
    BY <1>12, <2>1
  <2> QED BY <1>5, <1>12, <2>1, <2>2
<1>14. \A h \in s..e : h < first => size(h) = 0
  <2> SUFFICES ASSUME NEW h \in s..e, h < first PROVE size(h) = 0
    OBVIOUS
  <2>1. off[h] + size(h) <= off[first] /\ off[h] \in Nat /\ size(h) \in Nat
    BY <1>5
  <2> QED BY <1>13, <2>1
<1>15. ASSUME line[1] = "Defaults" PROVE InDefaults(text, i)
  <2>1. ~(i < first)
    <3>1. i < first => size(i) = 0
      BY <1>8, <1>14
    <3> QED BY <1>8, <3>1
  <2>2. first \in 1..i /\ Joined(text, first, i)
    BY <1>1, <1>2, <1>8, <1>9, <2>1
  <2>3. text[first] # <<>> /\ text[first][1] = "Defaults"
    <3>1. text[first] \in Seq(STRING) /\ 1 \in DOMAIN text[first]
      BY <1>3, <1>13, UnbrokenIs DEF size
    <3> QED BY <1>13, <1>15, <3>1
  <2>4. ASSUME NEW h \in 1..(first - 1), Joined(text, h, first) PROVE text[h] = <<"\\">>
    <3>1. h \in s..(e - 1) /\ h < first
      <4>1. h \in 1..first
        BY <1>1, <1>2
      <4>2. h >= s
        BY <1>9, <2>4, <4>1
      <4> QED BY <1>1, <1>2, <4>2
    <3> QED BY <1>7, <1>14, <3>1
  <2> QED BY <2>2, <2>3, <2>4 DEF InDefaults
<1>16. ASSUME InDefaults(text, i) PROVE line[1] = "Defaults"
  <2>1. PICK j \in 1..i : /\ text[j] # <<>> /\ text[j][1] = "Defaults" /\ Joined(text, j, i)
                         /\ \A h \in 1..(j - 1) : Joined(text, h, j) => text[h] = <<"\\">>
    BY <1>16 DEF InDefaults
  <2>2. j \in s..e
    BY <1>1, <1>2, <1>8, <1>9, <2>1
  <2>3. 1 \in 1..size(j)
    BY <1>6, <2>1, <2>2
  <2>4. ~(j < first)
    BY <1>14, <2>2, <2>3
  <2>5. ~(first < j)
    <3> SUFFICES ASSUME first < j PROVE FALSE
      OBVIOUS
    <3>1. first \in 1..(j - 1) /\ first \in 1..j /\ first >= s /\ first \in s..(e - 1)
      BY <1>1, <1>2, <2>2
    <3>2. Joined(text, first, j)
      BY <1>9, <2>2, <3>1
    <3>3. size(first) = 0
      BY <1>7, <2>1, <3>1, <3>2
    <3> QED BY <1>13, <3>3
  <2>6. j = first
    BY <1>1, <1>2, <2>2, <2>4, <2>5
  <2> QED BY <1>13, <2>1, <2>6
<1> QED BY <1>15, <1>16 DEF line

(* The rule a logical line holds.                                          *)
LEMMA RuleIs ==
    ASSUME NEW line \in Seq(STRING)
    PROVE  LET rule == SubSeq(line, 1, Cardinality(Policy(line)))
           IN  /\ \A token : token \in ToSet(rule) <=> \E p \in Policy(line) : line[p] = token
               /\ Policy(line) # {} => (IsDefaults(rule) <=> line[1] = "Defaults")
               /\ Policy(line) = {} => rule = <<>>
               /\ Policy(line) \subseteq 1..Len(line)
<1> DEFINE c == Cardinality(Policy(line))
           rule == SubSeq(line, 1, c)
<1>1. c \in 0..Len(line) /\ Policy(line) = 1..c /\ Len(line) \in Nat
  BY PolicyIs
<1>2. rule \in Seq(STRING) /\ Len(rule) = c /\ \A p \in 1..c : rule[p] = line[p]
  <2> HIDE DEF c
  <2>1. \A p \in 1..c : line[p] \in STRING
    <3>1. \A p \in 1..Len(line) : line[p] \in STRING
      OBVIOUS
    <3> QED BY <1>1, <3>1
  <2>2. c \in Int /\ 1 \in Int /\ c \in Nat
    BY <1>1
  <2>3. /\ SubSeq(line, 1, c) \in Seq(STRING)
        /\ Len(SubSeq(line, 1, c)) = IF 1 <= c THEN c - 1 + 1 ELSE 0
        /\ \A i \in 1..(c - 1 + 1) : SubSeq(line, 1, c)[i] = line[1 + i - 1]
    BY <2>1, <2>2, SubSeqProperties
  <2> HIDE DEF rule
  <2>4. Len(rule) = c /\ rule \in Seq(STRING)
    BY <2>2, <2>3 DEF rule
  <2>5. \A p \in 1..c : rule[p] = line[p]
    BY <2>2, <2>3 DEF rule
  <2> QED BY <2>4, <2>5
<1> HIDE DEF c, rule
<1>3. DOMAIN rule = 1..c
  BY <1>2
<1>4. ASSUME NEW token PROVE token \in ToSet(rule) <=> \E p \in Policy(line) : line[p] = token
  BY <1>1, <1>2, <1>3 DEF ToSet
<1>5. ASSUME Policy(line) # {} PROVE IsDefaults(rule) <=> line[1] = "Defaults"
  <2>1. 1 \in 1..c
    BY <1>1, <1>5
  <2> QED BY <1>2, <2>1 DEF IsDefaults
<1>6. ASSUME Policy(line) = {} PROVE rule = <<>>
  <2>1. c = 0
    <3>1. c \in Nat /\ 1 \notin 1..c
      BY <1>1, <1>6, SMTT(30)
    <3> QED BY <3>1
  <2> QED BY <1>2, <2>1
<1> QED BY <1>1, <1>4, <1>5, <1>6 DEF rule, c

(* Rules grant without a password what their lines say.                    *)
LEMMA GrantsAgree ==
    ASSUME NEW text \in Seq(Seq(STRING))
    PROVE  (\E rule \in Rules(text) : Passwordless(rule)) <=> Grants(text)
<1> DEFINE rule(s) == SubSeq(Line(text, s), 1, Cardinality(Policy(Line(text, s))))
           tells(i, token) == token = "NOPASSWD:" \/ (token = "!authenticate" /\ InDefaults(text, i))
<1>1. Rules(text) = {rule(s) : s \in LineStarts(text)}
  BY DEF Rules, LogicalLines, Line
<1>2. Grants(text) <=> \E i \in DOMAIN text : \E k \in DOMAIN text[i] :
                          IsPolicy(text, i, k) /\ tells(i, text[i][k])
  BY DEF Grants
<1>3. \A i \in DOMAIN text : text[i] \in Seq(STRING)
  OBVIOUS
<1>4. ASSUME NEW s \in LineStarts(text)
      PROVE  Passwordless(rule(s)) <=>
                \E i \in s..LineEnd(text, s) : \E k \in DOMAIN text[i] :
                    IsPolicy(text, i, k) /\ tells(i, text[i][k])
  <2> DEFINE line == Line(text, s)
             e == LineEnd(text, s)
  <2>1. line \in Seq(STRING)
    BY LinePlaces
  <2>2. PICK off : Laid(text, s, off)
    BY LinePlaces
  <2>3. /\ \A token : token \in ToSet(rule(s)) <=> \E p \in Policy(line) : line[p] = token
        /\ Policy(line) # {} => (IsDefaults(rule(s)) <=> line[1] = "Defaults")
        /\ Policy(line) = {} => rule(s) = <<>>
        /\ Policy(line) \subseteq 1..Len(line)
    BY <2>1, RuleIs
  <2>4. s..e \subseteq DOMAIN text
    <3>1. s \in DOMAIN text /\ s \in 1..Len(text) /\ Len(text) \in Nat /\ DOMAIN text = 1..Len(text)
      BY DEF LineStarts
    <3>2. e \in s..Len(text)
      BY <3>1, LineEndIs
    <3> HIDE DEF e
    <3> QED BY <3>1, <3>2
  <2>5. ASSUME NEW i \in s..e, NEW k \in 1..Len(Unbroken(text[i])), text[i][k] \notin Comments
        PROVE  /\ IsPolicy(text, i, k) <=> off[i] + k \in Policy(line)
               /\ InDefaults(text, i) <=> line[1] = "Defaults"
               /\ line[off[i] + k] = text[i][k]
    <3>1. line[off[i] + k] = text[i][k]
      BY <2>2 DEF Laid
    <3> QED BY <2>2, <2>5, <3>1, PolicyPlaces, FirstToken
  <2>6. \A p \in 1..Len(line) : \E i \in s..e : \E k \in 1..Len(Unbroken(text[i])) : p = off[i] + k
    BY <2>2 DEF Laid
  <2>7. \A p \in Policy(line) : line[p] \notin Comments
    <3>1. \A k : ~(k < k) \/ k \notin 1..Len(line)
      BY <2>1
    <3> QED BY <2>1, <2>3, <3>1 DEF Policy
  <2>8. \A i \in s..e : \A k \in 1..Len(Unbroken(text[i])) : k \in DOMAIN text[i]
    BY <1>3, <2>4, UnbrokenIs
  <2>9. \A i \in s..e : \A k \in DOMAIN text[i] : text[i][k] # "\\" => k \in 1..Len(Unbroken(text[i]))
    BY <1>3, <2>4, UnbrokenIs
  <2>10. Passwordless(rule(s)) <=>
            \/ \E p \in Policy(line) : line[p] = "NOPASSWD:"
            \/ line[1] = "Defaults" /\ \E p \in Policy(line) : line[p] = "!authenticate"
    <3> HIDE DEF rule, line
    <3>1. CASE Policy(line) = {}
      BY <2>3, <3>1 DEF Passwordless, IsDefaults
    <3>2. CASE Policy(line) # {}
      BY <2>3, <3>2 DEF Passwordless
    <3> QED BY <3>1, <3>2
  <2> HIDE DEF rule, line, e
  <2>11. ASSUME Passwordless(rule(s))
         PROVE  \E i \in s..e : \E k \in DOMAIN text[i] : IsPolicy(text, i, k) /\ tells(i, text[i][k])
    <3>1. PICK p \in Policy(line) :
              line[p] = "NOPASSWD:" \/ (line[p] = "!authenticate" /\ line[1] = "Defaults")
      BY <2>10, <2>11
    <3>2. PICK i \in s..e : \E k \in 1..Len(Unbroken(text[i])) : p = off[i] + k
      BY <2>3, <2>6
    <3>3. PICK k \in 1..Len(Unbroken(text[i])) : p = off[i] + k
      BY <3>2
    <3>4. line[off[i] + k] = text[i][k]
      BY <2>2 DEF Laid, line, e
    <3>5. text[i][k] \notin Comments
      BY <2>7, <3>3, <3>4
    <3> QED BY <2>5, <2>8, <3>1, <3>3, <3>4, <3>5
  <2>12. ASSUME NEW i \in s..e, NEW k \in DOMAIN text[i], IsPolicy(text, i, k), tells(i, text[i][k])
         PROVE  Passwordless(rule(s))
    <3>1. text[i][k] \in {"NOPASSWD:", "!authenticate"}
      BY <2>12
    <3>2. text[i][k] \notin Comments /\ text[i][k] # "\\"
      BY <3>1 DEF Comments
    <3>3. k \in 1..Len(Unbroken(text[i]))
      BY <2>9, <3>2
    <3> QED BY <2>5, <2>10, <2>12, <3>2, <3>3
  <2> QED BY <2>11, <2>12 DEF e
<1>5. \A i \in DOMAIN text : \E s \in LineStarts(text) : i \in s..LineEnd(text, s)
  BY LineOf
<1>6. \A s \in LineStarts(text) : s..LineEnd(text, s) \subseteq DOMAIN text
  <2> SUFFICES ASSUME NEW s \in LineStarts(text) PROVE s..LineEnd(text, s) \subseteq DOMAIN text
    OBVIOUS
  <2> DEFINE e == LineEnd(text, s)
  <2>1. s \in DOMAIN text /\ s \in 1..Len(text) /\ Len(text) \in Nat /\ DOMAIN text = 1..Len(text)
    BY DEF LineStarts
  <2>2. e \in s..Len(text)
    BY <2>1, LineEndIs
  <2> HIDE DEF e
  <2>3. s..e \subseteq DOMAIN text
    BY <2>1, <2>2
  <2> QED BY <2>3 DEF e
<1> HIDE DEF rule, tells
<1>7. (\E r \in Rules(text) : Passwordless(r)) <=> \E s \in LineStarts(text) : Passwordless(rule(s))
  BY <1>1
<1> QED BY <1>2, <1>4, <1>5, <1>6, <1>7

(* A set with a bijection to 1..n has n elements.                          *)
LEMMA CountedBy ==
    ASSUME NEW S, NEW n \in Nat, NEW g \in [S -> 1..n],
           \A p, q \in S : g[p] = g[q] => p = q, \A m \in 1..n : \E p \in S : g[p] = m
    PROVE  Cardinality(S) = n
<1> DEFINE h == [m \in 1..n |-> CHOOSE p \in S : g[p] = m]
<1>1. \A m \in 1..n : h[m] \in S /\ g[h[m]] = m
  OBVIOUS
<1>2. h \in [1..n -> S]
  BY <1>1
<1> HIDE DEF h
<1>3. \A m, k \in 1..n : h[m] = h[k] => m = k
  BY <1>1
<1>4. \A p \in S : \E m \in 1..n : h[m] = p
  BY <1>1
<1>5. h \in Bijection(1..n, S)
  BY <1>2, <1>3, <1>4 DEF Bijection, Injection, Surjection, IsInjective
<1>6. ExistsBijection(1..n, S)
  BY <1>5 DEF ExistsBijection
<1> QED BY <1>6, FS_CountingElements

(* The tokens of a logical line are in the order of their places.          *)
LEMMA LaidInOrder ==
    ASSUME NEW text \in Seq(Seq(STRING)), NEW s \in LineStarts(text), NEW off, Laid(text, s, off),
           NEW i \in s..LineEnd(text, s), NEW k \in 1..Len(Unbroken(text[i])),
           NEW j \in s..LineEnd(text, s), NEW m \in 1..Len(Unbroken(text[j]))
    PROVE  off[j] + m < off[i] + k <=> (j < i \/ (j = i /\ m < k))
<1> DEFINE e == LineEnd(text, s)
           size(h) == Len(Unbroken(text[h]))
<1>1. s \in DOMAIN text /\ s \in 1..Len(text) /\ Len(text) \in Nat
  BY DEF LineStarts
<1>2. e \in s..Len(text)
  BY <1>1, LineEndIs
<1>3. \A h \in s..e : text[h] \in Seq(STRING)
  <2>1. \A h \in 1..Len(text) : text[h] \in Seq(STRING)
    OBVIOUS
  <2> HIDE DEF e
  <2> QED BY <1>1, <1>2, <2>1
<1>4. /\ \A h \in s..e : off[h] \in Nat /\ size(h) \in Nat
      /\ \A f, h \in s..e : f < h => off[f] + size(f) <= off[h]
  BY <1>3, UnbrokenIs DEF Laid
<1>5. i \in s..e /\ k \in 1..size(i) /\ j \in s..e /\ m \in 1..size(j)
  OBVIOUS
<1> HIDE DEF e, size
<1>6. off[j] \in Nat /\ off[i] \in Nat /\ size(j) \in Nat /\ size(i) \in Nat /\ m \in Nat /\ k \in Nat
  BY <1>4, <1>5
<1>7. CASE j < i
  <2>1. off[j] + size(j) <= off[i]
    BY <1>4, <1>5, <1>7
  <2> QED BY <1>5, <1>6, <1>7, <2>1
<1>8. CASE j = i
  BY <1>1, <1>2, <1>5, <1>6, <1>8, SMTT(30)
<1>9. CASE i < j
  <2>1. off[i] + size(i) <= off[j]
    BY <1>4, <1>5, <1>9
  <2>2. ~(j < i) /\ j # i
    BY <1>1, <1>2, <1>5, <1>9
  <2>3. k <= size(i) /\ m >= 1
    BY <1>5, <1>6
  <2>4. ~(off[j] + m < off[i] + k)
    BY <1>6, <2>1, <2>3
  <2> QED BY <2>2, <2>4
<1> QED BY <1>1, <1>2, <1>5, <1>7, <1>8, <1>9

(* The places of the policy that starts on a line: on the lines of that    *)
(* logical line, before the backslash.                                     *)
LEMMA PlacesAre ==
    ASSUME NEW text \in Seq(Seq(STRING)), NEW s \in LineStarts(text)
    PROVE  \A p : p \in Places(text, s) <=>
              \E i \in s..LineEnd(text, s) : \E k \in 1..Len(Unbroken(text[i])) :
                  p = <<i, k>> /\ IsPolicy(text, i, k) /\ text[i][k] \notin Comments
<1> DEFINE e == LineEnd(text, s)
<1>1. s \in DOMAIN text /\ s \in 1..Len(text) /\ Len(text) \in Nat
  BY DEF LineStarts
<1>2. /\ e \in s..Len(text) /\ \A k \in s..(e - 1) : Continued(text[k])
      /\ e = Len(text) \/ ~Continued(text[e])
  BY <1>1, LineEndIs
<1> HIDE DEF e
<1>3. \A i \in s..Len(text) : Joined(text, s, i) <=> i \in s..e
  <2> SUFFICES ASSUME NEW i \in s..Len(text) PROVE Joined(text, s, i) <=> i \in s..e
    OBVIOUS
  <2>1. CASE i <= e
    <3>1. \A n \in s..(i - 1) : n \in s..(e - 1)
      BY <1>1, <1>2, <2>1
    <3> QED BY <1>1, <1>2, <2>1, <3>1 DEF Joined
  <2>2. CASE ~(i <= e)
    <3>1. e # Len(text) /\ e \in s..(i - 1)
      BY <1>1, <1>2, <2>2
    <3> QED BY <1>1, <1>2, <2>2, <3>1 DEF Joined
  <2> QED BY <2>1, <2>2
<1>4. \A i \in s..e : i \in s..Len(text) /\ text[i] \in Seq(STRING)
  <2>1. \A i \in 1..Len(text) : text[i] \in Seq(STRING)
    OBVIOUS
  <2> QED BY <1>1, <1>2, <2>1
<1>5. ASSUME NEW line \in Seq(STRING)
      PROVE  \A k : k \in DOMAIN line /\ ~(k = Len(line) /\ line[k] = "\\")
                       <=> k \in 1..Len(Unbroken(line))
  <2>1. Len(line) \in Nat /\ DOMAIN line = 1..Len(line)
    OBVIOUS
  <2>2. Continued(line) <=> (Len(line) # 0 /\ line[Len(line)] = "\\")
    BY <2>1 DEF Continued, Last
  <2>3. Len(Unbroken(line)) = IF Continued(line) THEN Len(line) - 1 ELSE Len(line)
    BY UnbrokenIs
  <2>4. CASE Continued(line)
    <3>1. \A k : k \in 1..Len(line) /\ k # Len(line) <=> k \in 1..(Len(line) - 1)
      BY <2>1
    <3> QED BY <2>1, <2>2, <2>3, <2>4, <3>1
  <2>5. CASE ~Continued(line)
    <3>1. ASSUME NEW k \in 1..Len(line), k = Len(line), line[k] = "\\" PROVE FALSE
      <4>1. Len(line) # 0
        BY <2>1, <3>1
      <4> QED BY <2>2, <2>5, <3>1, <4>1
    <3> QED BY <2>1, <2>3, <2>5, <3>1
  <2> QED BY <2>4, <2>5
<1>6. ASSUME NEW p PROVE p \in Places(text, s) <=>
         \E i \in {j \in s..Len(text) : Joined(text, s, j)} : \E k \in DOMAIN text[i] :
             /\ p = <<i, k>> /\ IsPolicy(text, i, k) /\ text[i][k] \notin Comments
             /\ ~(k = Len(text[i]) /\ text[i][k] = "\\")
  BY DEF Places
<1>7. {j \in s..Len(text) : Joined(text, s, j)} = s..e
  BY <1>3, <1>4
<1> QED BY <1>4, <1>5, <1>6, <1>7 DEF e

(* They are the first tokens of the logical line, in their order.          *)
LEMMA PlacesLaid ==
    ASSUME NEW text \in Seq(Seq(STRING)), NEW s \in LineStarts(text), NEW off, Laid(text, s, off)
    PROVE  LET places == Places(text, s)
               line == Line(text, s)
               c == Cardinality(Policy(line))
               at == [p \in places |-> off[p[1]] + p[2]]
           IN  /\ at \in [places -> 1..c]
               /\ \A n \in 1..c : \E p \in places : at[p] = n
               /\ \A p, q \in places : /\ Precedes(q, p) <=> at[q] < at[p]
                                       /\ at[p] = at[q] => p = q
               /\ \A p \in places : line[at[p]] = text[p[1]][p[2]]
<1> DEFINE places == Places(text, s)
           line == Line(text, s)
           c == Cardinality(Policy(line))
           e == LineEnd(text, s)
           size(i) == Len(Unbroken(text[i]))
           at == [p \in places |-> off[p[1]] + p[2]]
<1>1. line \in Seq(STRING)
  BY LinePlaces
<1>2. c \in 0..Len(line) /\ Policy(line) = 1..c /\ Len(line) \in Nat
  BY <1>1, PolicyIs
<1>3. /\ \A i \in s..e : \A k \in 1..size(i) : line[off[i] + k] = text[i][k]
      /\ \A n \in 1..Len(line) : \E i \in s..e : \E k \in 1..size(i) : n = off[i] + k
  BY DEF Laid
<1>4. \A i \in s..e : \A k \in 1..size(i) : text[i][k] \notin Comments =>
         (IsPolicy(text, i, k) <=> off[i] + k \in 1..c)
  <2> HIDE DEF c, line
  <2> QED BY <1>2, PolicyPlaces DEF line
<1>5. \A i, j \in s..e : \A k \in 1..size(i) : \A m \in 1..size(j) :
         off[j] + m < off[i] + k <=> (j < i \/ (j = i /\ m < k))
  BY LaidInOrder
<1>6. \A p : p \in places <=> \E i \in s..e : \E k \in 1..size(i) :
                 p = <<i, k>> /\ IsPolicy(text, i, k) /\ text[i][k] \notin Comments
  BY PlacesAre
<1>7. \A n \in 1..c : line[n] \notin Comments
  <2>1. \A n \in Policy(line) : n \in DOMAIN line /\ n \in Nat /\ ~(n < n)
    BY <1>1, <1>2
  <2>2. \A n \in Policy(line) : line[n] \notin Comments
    BY <2>1 DEF Policy
  <2> QED BY <1>2, <2>2
<1>8. e \in Int /\ s \in Int
  <2>1. s \in DOMAIN text /\ s \in 1..Len(text) /\ Len(text) \in Nat
    BY DEF LineStarts
  <2>2. e \in s..Len(text)
    BY <2>1, LineEndIs
  <2> HIDE DEF e
  <2> QED BY <2>1, <2>2
<1>9. \A i \in s..e : size(i) \in Int
  <2>1. \A i \in s..e : text[i] \in Seq(STRING)
    <3>1. s \in DOMAIN text /\ s \in 1..Len(text) /\ Len(text) \in Nat
      BY DEF LineStarts
    <3>2. e \in s..Len(text)
      BY <3>1, LineEndIs
    <3>3. \A i \in 1..Len(text) : text[i] \in Seq(STRING)
      OBVIOUS
    <3> HIDE DEF e
    <3> QED BY <3>1, <3>2, <3>3
  <2> QED BY <2>1, UnbrokenIs
<1> HIDE DEF places, line, c, e, size
<1>10. ASSUME NEW p \in places
       PROVE  /\ p[1] \in s..e /\ p[2] \in 1..size(p[1]) /\ p = <<p[1], p[2]>>
              /\ at[p] = off[p[1]] + p[2] /\ at[p] \in 1..c /\ line[at[p]] = text[p[1]][p[2]]
  <2>1. PICK i \in s..e : \E k \in 1..size(i) : p = <<i, k>> /\ IsPolicy(text, i, k) /\ text[i][k] \notin Comments
    BY <1>6
  <2>2. PICK k \in 1..size(i) : p = <<i, k>> /\ IsPolicy(text, i, k) /\ text[i][k] \notin Comments
    BY <2>1
  <2>3. p[1] = i /\ p[2] = k
    BY <2>2
  <2> QED BY <1>3, <1>4, <2>2, <2>3
<1>11. at \in [places -> 1..c]
  BY <1>10
<1>12. ASSUME NEW n \in 1..c PROVE \E p \in places : at[p] = n
  <2>1. n \in 1..Len(line)
    BY <1>2
  <2>2. PICK i \in s..e : \E k \in 1..size(i) : n = off[i] + k
    BY <1>3, <2>1
  <2>3. PICK k \in 1..size(i) : n = off[i] + k
    BY <2>2
  <2>4. text[i][k] \notin Comments
    BY <1>3, <1>7, <2>3
  <2>5. <<i, k>> \in places
    BY <1>4, <1>6, <2>3, <2>4
  <2>6. at[<<i, k>>] = n
    BY <2>3, <2>5
  <2> QED BY <2>5, <2>6
<1>13. ASSUME NEW p \in places, NEW q \in places PROVE Precedes(q, p) <=> at[q] < at[p]
  BY <1>5, <1>10 DEF Precedes
<1>14. ASSUME NEW p \in places, NEW q \in places, at[p] = at[q] PROVE p = q
  <2>1. ~Precedes(q, p) /\ ~Precedes(p, q)
    BY <1>2, <1>10, <1>13, <1>14
  <2>2. p[1] \in Int /\ q[1] \in Int /\ p[2] \in Int /\ q[2] \in Int
    BY <1>8, <1>9, <1>10
  <2>3. p[1] = q[1] /\ p[2] = q[2]
    BY <2>1, <2>2 DEF Precedes
  <2> QED BY <1>10, <2>3
<1> QED BY <1>10, <1>11, <1>12, <1>13, <1>14 DEF places, line, c

(* The policy read place by place is the rule the check takes from the     *)
(* logical line.                                                           *)
LEMMA ReadingIs ==
    ASSUME NEW text \in Seq(Seq(STRING)), NEW s \in LineStarts(text)
    PROVE  Reading(text, s) = SubSeq(Line(text, s), 1, Cardinality(Policy(Line(text, s))))
<1> DEFINE places == Places(text, s)
           line == Line(text, s)
           c == Cardinality(Policy(line))
<1>1. line \in Seq(STRING)
  BY LinePlaces
<1>2. PICK off : Laid(text, s, off)
  BY LinePlaces
<1> DEFINE at == [p \in places |-> off[p[1]] + p[2]]
<1>3. /\ at \in [places -> 1..c]
      /\ \A n \in 1..c : \E p \in places : at[p] = n
      /\ \A p, q \in places : /\ Precedes(q, p) <=> at[q] < at[p]
                              /\ at[p] = at[q] => p = q
      /\ \A p \in places : line[at[p]] = text[p[1]][p[2]]
  BY <1>2, PlacesLaid
<1>4. c \in 0..Len(line) /\ Len(line) \in Nat /\ c \in Nat
  BY <1>1, PolicyIs
<1> HIDE DEF places, line, c, at
<1>5. Cardinality(places) = c
  BY <1>3, <1>4, CountedBy
<1>6. ASSUME NEW p \in places PROVE Cardinality(Earlier(places, p)) = at[p] - 1
  <2> DEFINE S == Earlier(places, p)
             g == [q \in S |-> at[q]]
  <2>1. at[p] \in 1..c /\ at[p] - 1 \in Nat
    BY <1>3, <1>4
  <2>2. \A q : q \in S <=> q \in places /\ at[q] < at[p]
    BY <1>3 DEF Earlier
  <2>3. \A q \in S : g[q] = at[q] /\ at[q] \in 1..c
    BY <1>3, <2>2
  <2> HIDE DEF S
  <2>4. g \in [S -> 1..(at[p] - 1)]
    BY <1>4, <2>1, <2>2, <2>3
  <2>5. \A q, r \in S : g[q] = g[r] => q = r
    BY <1>3, <2>2, <2>3
  <2>6. \A m \in 1..(at[p] - 1) : \E q \in S : g[q] = m
    <3> SUFFICES ASSUME NEW m \in 1..(at[p] - 1) PROVE \E q \in S : g[q] = m
      OBVIOUS
    <3>1. m \in 1..c /\ m < at[p]
      BY <1>4, <2>1
    <3>2. PICK q \in places : at[q] = m
      BY <1>3, <3>1
    <3> QED BY <2>2, <2>3, <3>1, <3>2
  <2> DEFINE m == at[p] - 1
  <2> HIDE DEF g, m
  <2>7. Cardinality(S) = m
    <3>1. m \in Nat /\ g \in [S -> 1..m] /\ \A k \in 1..m : \E q \in S : g[q] = k
      BY <2>1, <2>4, <2>6 DEF m
    <3> QED BY <2>5, <3>1, CountedBy
  <2> QED BY <2>7 DEF S, m
<1> DEFINE place(n) == CHOOSE p \in places : Cardinality(Earlier(places, p)) = n - 1
<1>7. Reading(text, s) = [n \in 1..c |-> text[place(n)[1]][place(n)[2]]]
  BY <1>5 DEF Reading, places
<1>8. ASSUME NEW n \in 1..c PROVE text[place(n)[1]][place(n)[2]] = line[n]
  <2>1. \E p \in places : Cardinality(Earlier(places, p)) = n - 1
    BY <1>3, <1>6
  <2>2. place(n) \in places /\ Cardinality(Earlier(places, place(n))) = n - 1
    BY <2>1
  <2> HIDE DEF place
  <2>3. at[place(n)] = n
    <3>1. at[place(n)] \in 1..c /\ at[place(n)] - 1 = n - 1
      BY <1>3, <1>6, <2>2
    <3> QED BY <1>4, <3>1
  <2> QED BY <1>3, <2>2, <2>3
<1>9. Reading(text, s) = [n \in 1..c |-> line[n]]
  <2> HIDE DEF place
  <2> QED BY <1>7, <1>8
<1>10. SubSeq(line, 1, c) = [n \in 1..c |-> line[n]]
  <2>1. \A n \in 1..c : line[n] \in STRING
    <3>1. \A n \in 1..Len(line) : line[n] \in STRING
      BY <1>1
    <3> QED BY <1>4, <3>1
  <2>2. c \in Int /\ 1 \in Int
    BY <1>4
  <2>3. /\ SubSeq(line, 1, c) \in Seq(STRING)
        /\ Len(SubSeq(line, 1, c)) = IF 1 <= c THEN c - 1 + 1 ELSE 0
        /\ \A i \in 1..(c - 1 + 1) : SubSeq(line, 1, c)[i] = line[1 + i - 1]
    BY <2>1, <2>2, SubSeqProperties
  <2> DEFINE r == SubSeq(line, 1, c)
             t == [n \in 1..c |-> line[n]]
  <2>4. r \in Seq(STRING) /\ Len(r) = c /\ \A n \in 1..c : r[n] = line[n]
    BY <1>4, <2>3
  <2>5. t \in [1..c -> STRING] /\ \A n \in 1..c : t[n] = line[n]
    BY <2>1
  <2> HIDE DEF r, t
  <2>6. r \in [1..c -> STRING]
    BY <2>4
  <2>7. r = t
    BY <2>4, <2>5, <2>6
  <2> QED BY <2>7 DEF r, t
<1> QED BY <1>9, <1>10 DEF line, c

LEMMA ReadingsAreRules ==
    ASSUME NEW text \in Seq(Seq(STRING)) PROVE Readings(text) = Rules(text)
<1>1. Rules(text) = {SubSeq(Line(text, s), 1, Cardinality(Policy(Line(text, s)))) : s \in LineStarts(text)}
  BY DEF Rules, LogicalLines, Line
<1> QED BY <1>1, ReadingIs DEF Readings

(* What the rules of a text match is what its lines say.                   *)
LEMMA PoliciesAgree ==
    ASSUME Inductive, check \in PolicyChecks, NEW f \in PolicyFiles \cap DOMAIN world,
           NEW value \in ever[f], Says(value)
    PROVE  /\ Assigned(value.text) = UNION {Components(rule) : rule \in Rules(value.text)}
           /\ check # "secure-path" => (Matching(check, value.text) <=> PolicyViolates(value.text))
<1> DEFINE text == value.text
<1>1. text \in Seq(Seq(STRING))
  <2>1. check \in Checks \cap PolicyChecks /\ value \in Possible[check][f]
    BY DEF Inductive, Types
  <2> QED BY <2>1, WorldAssumption DEF Says, PolicyFiles
<1> HIDE DEF text
<1>2. Readings(text) = Rules(text)
  BY <1>1, ReadingsAreRules
<1>3. Assigned(text) = UNION {Components(rule) : rule \in Rules(text)}
  BY <1>2 DEF Assigned
<1>4. CASE check = "broad"
  BY <1>2, <1>3, <1>4 DEF Matching, PolicyViolates, text
<1>5. CASE check = "passwordless"
  <2>1. Matching(check, text) <=> \E rule \in Rules(text) : Passwordless(rule)
    BY <1>5 DEF Matching
  <2>2. PolicyViolates(text) <=> Grants(text)
    BY <1>5 DEF PolicyViolates
  <2> QED BY <1>1, <1>3, <2>1, <2>2, GrantsAgree DEF text
<1>6. CASE check = "secure-path"
  BY <1>3, <1>6 DEF text
<1> QED BY <1>4, <1>5, <1>6 DEF PolicyChecks

-----------------------------------------------------------------------------
(* The policy: all its files have been looked at, and read if they can be. *)
LEMMA PolicyFinished ==
    ASSUME Inductive, Finished, check \in PolicyChecks
    PROVE  /\ Main \in DOMAIN obs /\ Listing \in DOMAIN obs
           /\ \A f \in PolicyPaths(obs) : Look("lstat", f) \in DOMAIN obs
           /\ \A w \in Taken(obs, "lstat") : MayRead(obs[w]) => Look("read", w.at) \in DOMAIN obs
           /\ check = "secure-path" =>
                 \A c \in Values(obs) \ Misplaced : \A d \in Chain[c] : Look("lstat-dir", d) \in DOMAIN obs
<1>1. PolicyReady(check, obs) = {}
  <2>1. check \in SudoChecks /\ check # "syntax"
    BY DEF SudoChecks, PolicyChecks
  <2> QED BY <2>1, FinishedFacts, ReadyOf DEF SudoReady
<1>2. Main \in DOMAIN obs
  BY <1>1 DEF PolicyReady
<1>3. Listing \in DOMAIN obs
  BY <1>1, <1>2 DEF PolicyReady
<1>4. /\ FileLooks(obs) = {}
      /\ check = "secure-path" => DirectoryLooks(obs) = {}
  <2>1. InOrder(FileLooks(obs), IF check = "secure-path" THEN DirectoryLooks(obs) ELSE {}) = {}
    BY <1>1, <1>2, <1>3 DEF PolicyReady
  <2> QED BY <2>1, BothEmpty
<1> DEFINE read == {Look("read", w.at) : w \in {v \in Taken(obs, "lstat") : MayRead(obs[v])}}
           looked == {Look("lstat", f) : f \in PolicyPaths(obs)}
<1>5. Pending(read, obs) = {} /\ Pending(looked, obs) = {}
  <2> DEFINE first == {Look("lstat", f) : f \in PolicyPaths(obs) \cap {"sudoers"}}
  <2>1. FileLooks(obs) = InOrder(Pending(read, obs), InOrder(Pending(first, obs), Pending(looked, obs)))
    BY DEF FileLooks
  <2> HIDE DEF read, looked, first
  <2> QED BY <1>4, <2>1, BothEmpty
<1>6. read \subseteq DOMAIN obs /\ looked \subseteq DOMAIN obs
  <2> HIDE DEF read, looked
  <2> QED BY <1>5, NonePending
<1>7. ASSUME check = "secure-path", NEW c \in Values(obs) \ Misplaced, NEW d \in Chain[c]
      PROVE  Look("lstat-dir", d) \in DOMAIN obs
  <2> DEFINE dirs == UNION {Chain[e] : e \in Values(obs) \ Misplaced}
             looks == {Look("lstat-dir", e) : e \in dirs}
  <2>1. Pending(looks, obs) = {}
    BY <1>4, <1>7 DEF DirectoryLooks
  <2>2. d \in dirs
    BY <1>7
  <2>3. Look("lstat-dir", d) \in looks
    <3> HIDE DEF dirs
    <3> QED BY <2>2
  <2> HIDE DEF looks
  <2> QED BY <2>1, <2>3, NonePending
<1> QED BY <1>2, <1>3, <1>6, <1>7

LEMMA PolicySeen ==
    ASSUME Inductive, Finished, check \in PolicyChecks, NEW f \in FilesInReach,
           world[f].kind \notin {"absent", "refused"} \/ (f \in DropIn /\ world[f].kind # "absent"),
           world[f].kind # "dangling" \/ f \in DropIn
    PROVE  /\ Look("lstat", f) \in Taken(obs, "lstat") /\ obs[Look("lstat", f)] = world[f]
           /\ world[f].kind = "file" =>
                 Look("read", f) \in Taken(obs, "read") /\ obs[Look("read", f)] = world[f]
<1>1. f \in PolicyFiles /\ f \in Still /\ (f \in DropIn => Stays("sudoers.d", {"dir"}))
  BY DEF FilesInReach
<1>2. Main \in DOMAIN obs /\ Listing \in DOMAIN obs
  BY PolicyFinished
<1>3. f \in PolicyPaths(obs)
  <2>1. CASE f \in DropIn
    <3>1. f \in Content("sudoers.d") /\ Listing = Look("list", "sudoers.d")
      BY <2>1, ContentOf DEF Listing
    <3>2. f \in obs[Listing].entries
      BY <1>1, <1>2, <2>1, <3>1, ListedAllAlong
    <3> QED BY <2>1, <3>2 DEF PolicyPaths
  <2>2. CASE f \notin DropIn
    <3>1. f = "sudoers"
      BY <1>1, <2>2 DEF PolicyFiles
    <3>2. obs[Main] = world[f]
      BY <1>1, <1>2, <3>1, StillFacts DEF Main, Look, LookFor
    <3> QED BY <2>2, <3>1, <3>2 DEF PolicyPaths
  <2> QED BY <2>1, <2>2
<1>4. Look("lstat", f) \in Taken(obs, "lstat") /\ obs[Look("lstat", f)] = world[f]
  <2>1. Look("lstat", f) \in DOMAIN obs
    BY <1>3, PolicyFinished
  <2>2. Look("lstat", f).call = "lstat" /\ Look("lstat", f).at = f
    BY DEF Look, LookFor
  <2> QED BY <1>1, <2>1, <2>2, StillFacts DEF Taken
<1>5. ASSUME world[f].kind = "file"
      PROVE  Look("read", f) \in Taken(obs, "read") /\ obs[Look("read", f)] = world[f]
  <2>1. Look("lstat", f).at = f /\ Look("read", f).call = "read" /\ Look("read", f).at = f
    BY DEF Look, LookFor
  <2>2. Look("read", f) \in DOMAIN obs
    BY <1>4, <1>5, <2>1, PolicyFinished DEF MayRead
  <2> QED BY <1>1, <2>1, <2>2, StillFacts DEF Taken
<1> QED BY <1>4, <1>5

(* A text that was read is one that some file of the policy has had.       *)
LEMMA TextsAre ==
    ASSUME Inductive, check \in PolicyChecks, NEW w \in Texts(obs)
    PROVE  /\ w.at \in PolicyFiles /\ w.at \in DOMAIN world /\ obs[w] \in ever[w.at] /\ Says(obs[w])
<1>1. w \in DOMAIN obs /\ w.call = "read" /\ Says(obs[w])
  BY DEF Texts, Taken, Says
<1>2. w.at \in PolicyFiles
  BY <1>1 DEF Inductive, InPlace, WellPlaced, PolicyPlace
<1>3. w.at \in ObjectsOf(check) /\ obs[w] \in ever[w.at]
  BY <1>1 DEF Inductive, Genuine, GenuineLook
<1> QED BY <1>1, <1>2, <1>3 DEF Inductive, Types

(* The components the check goes by are those the texts assign.            *)
LEMMA ValuesAre ==
    ASSUME Inductive, check \in PolicyChecks
    PROVE  /\ \A c : c \in Values(obs) <=> \E w \in Texts(obs) : c \in Assigned(obs[w].text)
           /\ check # "secure-path" =>
                 \A w \in Texts(obs) : Matching(check, obs[w].text) <=> PolicyViolates(obs[w].text)
<1>1. \A w \in Texts(obs) :
         /\ Assigned(obs[w].text) = UNION {Components(rule) : rule \in Rules(obs[w].text)}
         /\ check # "secure-path" => (Matching(check, obs[w].text) <=> PolicyViolates(obs[w].text))
  <2> SUFFICES ASSUME NEW w \in Texts(obs)
               PROVE  /\ Assigned(obs[w].text) = UNION {Components(rule) : rule \in Rules(obs[w].text)}
                      /\ check # "secure-path" =>
                            (Matching(check, obs[w].text) <=> PolicyViolates(obs[w].text))
    OBVIOUS
  <2>1. w.at \in PolicyFiles \cap DOMAIN world /\ obs[w] \in ever[w.at] /\ Says(obs[w])
    BY TextsAre
  <2> QED BY <2>1, PoliciesAgree
<1>2. \A c : c \in Values(obs) <=>
         \E w \in Texts(obs) : c \in UNION {Components(rule) : rule \in Rules(obs[w].text)}
  BY DEF Values
<1> QED BY <1>1, <1>2

LEMMA TextRead ==
    ASSUME Inductive, Finished, check \in PolicyChecks, NEW f \in FilesInReach,
           world[f].kind = "file", world[f].readable
    PROVE  Look("read", f) \in Texts(obs) /\ obs[Look("read", f)] = world[f]
BY PolicySeen DEF Texts

LEMMA PolicyReach ==
    ASSUME Inductive, check \in PolicyChecks, NEW o \in InReach
    PROVE  /\ o \in Still
           /\ o \in PolicyFiles => o \in FilesInReach
           /\ o \notin PolicyFiles => check = "secure-path" /\ o \in DirectoriesInReach
<1>1. check \in Checks
  BY DEF Inductive, Types
<1>2. CASE check = "secure-path"
  <2>1. o \in Still /\ o \in FilesInReach \cup DirectoriesInReach
    BY <1>1, <1>2, Families DEF InReach
  <2>2. o \in DirectoriesInReach => o \notin PolicyFiles
    <3> SUFFICES ASSUME o \in DirectoriesInReach PROVE o \notin PolicyFiles
      OBVIOUS
    <3>1. PICK f \in FilesInReach : \E c \in Assigned(world[f].text) : o \in Chain[c]
      BY DEF DirectoriesInReach
    <3>2. \A rule : Components(rule) \subseteq DOMAIN Chain
      BY SudoPolicyAssumption DEF Components
    <3>3. \A c \in Assigned(world[f].text) : c \in DOMAIN Chain
      BY <3>2 DEF Assigned
    <3> QED BY <3>1, <3>3, SudoPolicyAssumption DEF PolicyFiles
  <2> QED BY <1>2, <2>1, <2>2 DEF FilesInReach
<1>3. CASE check # "secure-path"
  <2>1. o \in Still /\ o \in FilesInReach
    BY <1>1, <1>3, Families DEF InReach, PolicyChecks, ServicesCheck
  <2> QED BY <2>1 DEF FilesInReach
<1> QED BY <1>2, <1>3

(* The directories in reach have been looked at.                           *)
LEMMA DirectorySeen ==
    ASSUME Inductive, Finished, check = "secure-path", NEW d \in DirectoriesInReach, d \in Still
    PROVE  Look("lstat-dir", d) \in Taken(obs, "lstat-dir") /\ obs[Look("lstat-dir", d)] = world[d]
<1>1. check \in PolicyChecks
  BY DEF PolicyChecks
<1>2. PICK f \in FilesInReach :
         /\ world[f].kind = "file" /\ world[f].readable
         /\ \E c \in Assigned(world[f].text) \ Misplaced : d \in Chain[c]
  BY DEF DirectoriesInReach
<1>3. PICK c \in Assigned(world[f].text) \ Misplaced : d \in Chain[c]
  BY <1>2
<1>4. Look("read", f) \in Texts(obs) /\ obs[Look("read", f)] = world[f]
  BY <1>1, <1>2, TextRead
<1>5. c \in Values(obs)
  BY <1>1, <1>3, <1>4, ValuesAre
<1>6. Look("lstat-dir", d) \in DOMAIN obs
  BY <1>1, <1>3, <1>5, PolicyFinished
<1>7. Look("lstat-dir", d).call = "lstat-dir" /\ Look("lstat-dir", d).at = d
  BY DEF Look, LookFor
<1> QED BY <1>6, <1>7, StillFacts DEF Taken

(* What lies in reach and cannot be seen is an error of the check.         *)
LEMMA PolicyErrorsNoted ==
    ASSUME Inductive, Finished, check \in PolicyChecks, NEW o \in BlindSpots
    PROVE  \/ PolicyErrors(obs) # {}
           \/ check = "secure-path" /\ PathErrors(obs) # {}
<1>1. CASE o \in InReach /\ Hidden(o) /\ o \in PolicyFiles
  <2>1. o \in FilesInReach
    BY <1>1, PolicyReach
  <2>2. \/ world[o].kind \in {"link", "large"}
        \/ world[o].kind = "dangling" /\ o \in DropIn
        \/ world[o].kind = "file" /\ (~world[o].readable \/ Unresolved(world[o].text) # {})
    BY <1>1 DEF Hidden, PolicyChecks, ServicesCheck, FirefoxChecks, CommandControls, ControlChecks
  <2>3. /\ Look("lstat", o) \in Taken(obs, "lstat") /\ obs[Look("lstat", o)] = world[o]
        /\ world[o].kind = "file" =>
              Look("read", o) \in Taken(obs, "read") /\ obs[Look("read", o)] = world[o]
    BY <2>1, <2>2, PolicySeen
  <2>4. CASE world[o].kind # "file"
    BY <2>3, <2>4 DEF PolicyErrors, MayRead
  <2>5. CASE world[o].kind = "file"
    BY <2>2, <2>3, <2>5 DEF PolicyErrors, Texts
  <2> QED BY <2>4, <2>5
<1>2. CASE o \in InReach /\ Hidden(o) /\ o \notin PolicyFiles
  <2>1. check = "secure-path" /\ o \in DirectoriesInReach /\ o \in Still
    BY <1>2, PolicyReach
  <2>2. world[o].kind \in {"absent", "refused", "link"}
    BY <1>2, <2>1 DEF Hidden, PolicyChecks, ServicesCheck, FirefoxChecks, CommandControls, ControlChecks
  <2>3. Look("lstat-dir", o) \in Taken(obs, "lstat-dir") /\ obs[Look("lstat-dir", o)] = world[o]
    BY <2>1, DirectorySeen
  <2> QED BY <2>1, <2>2, <2>3 DEF PathErrors
<1>3. CASE "sudoers.d" \in Still /\ world["sudoers.d"].kind = "unlistable"
  <2>1. Listing \in DOMAIN obs
    BY PolicyFinished
  <2>2. GenuineListing("sudoers.d", obs[Listing])
    BY <2>1 DEF Inductive, Genuine, GenuineLook, Listing, Look, LookFor
  <2>3. obs[Listing].kind = "unlistable"
    BY <1>3, <2>2, StillFacts DEF GenuineListing
  <2> QED BY <2>3 DEF PolicyErrors, ListingErrors
<1>4. ~(o = "systemd" /\ "systemd" \in Still)
  BY WorldAssumption DEF Still, Inductive, Types, PolicyChecks, ServicesCheck
<1> QED BY <1>1, <1>2, <1>3, <1>4 DEF BlindSpots

LEMMA PolicyBlind ==
    ASSUME Inductive, Finished, check \in PolicyChecks, NEW o \in BlindSpots
    PROVE  Guarded(SudoFinding(check, obs))
<1>1. "fail" \in Positive /\ "review" \in Positive
  BY DEF Positive
<1>2. CASE check = "secure-path"
  <2>1. PathErrors(obs) # {}
    BY <1>2, PolicyErrorsNoted DEF PathErrors
  <2>2. SudoFinding(check, obs) = SecurePathFinding(obs)
    BY <1>2 DEF SudoFinding
  <2> QED BY <1>1, <2>1, <2>2, ErrorsGuard DEF SecurePathFinding
<1>3. CASE check \in {"passwordless", "broad"}
  <2>1. PolicyErrors(obs) # {}
    BY <1>3, PolicyErrorsNoted
  <2>2. SudoFinding(check, obs) = RulesFinding(check, obs)
    BY <1>3 DEF SudoFinding
  <2> QED BY <1>1, <2>1, <2>2, ErrorsGuard DEF RulesFinding
<1> QED BY <1>2, <1>3 DEF PolicyChecks

LEMMA SecurePathSays ==
    ASSUME check = "secure-path", NEW text
    PROVE  PolicyViolates(text) <=> Assigned(text) \cap Misplaced # {}
BY DEF PolicyViolates

LEMMA PolicyFindingIs ==
    ASSUME check \in PolicyChecks
    PROVE  LET f == SudoFinding(check, obs)
               found == IF check = "secure-path" THEN UnsafeComponents(obs) ELSE Matches(check, obs)
           IN  WellFormed(f) /\ (f.status \in Positive <=> found # {})
<1>1. "fail" \in Positive /\ "review" \in Positive
  BY DEF Positive
<1>2. ASSUME NEW found, NEW errors, NEW status \in Positive, NEW otherwise, 
             otherwise \in {Unknown, Protected, Nothing("medium")}
      PROVE  LET g == Collected(found, errors, status, "high", otherwise)
             IN  WellFormed(g) /\ (g.status \in Positive <=> found # {})
  <2> DEFINE g == Collected(found, errors, status, "high", otherwise)
  <2>1. CASE found # {}
    <3>1. g \in {Finding(status, "high", "medium"), Finding(status, "high", "high")}
      BY <2>1 DEF Collected
    <3> QED BY <2>1, <3>1, PlainFindings
  <2>2. CASE found = {}
    <3>1. g \in {Unknown, otherwise}
      BY <2>2 DEF Collected
    <3> QED BY <1>2, <2>2, <3>1, PlainFindings
  <2> QED BY <2>1, <2>2
<1>3. CASE check = "secure-path"
  <2> DEFINE otherwise == IF Values(obs) = {} THEN Unknown ELSE Protected
  <2>1. SudoFinding(check, obs) = Collected(UnsafeComponents(obs), PathErrors(obs), "fail", "high", otherwise)
    BY <1>3 DEF SudoFinding, SecurePathFinding
  <2>2. otherwise \in {Unknown, Protected, Nothing("medium")}
    OBVIOUS
  <2> HIDE DEF otherwise
  <2> QED BY <1>1, <1>2, <1>3, <2>1, <2>2
<1>4. CASE check \in {"passwordless", "broad"}
  <2> DEFINE otherwise == IF Texts(obs) = {} THEN Nothing("medium") ELSE Protected
  <2>1. SudoFinding(check, obs) = Collected(Matches(check, obs), PolicyErrors(obs), "review", "high", otherwise)
    BY <1>4 DEF SudoFinding, RulesFinding
  <2>2. otherwise \in {Unknown, Protected, Nothing("medium")}
    OBVIOUS
  <2> HIDE DEF otherwise
  <2> QED BY <1>1, <1>2, <1>4, <2>1, <2>2
<1> QED BY <1>3, <1>4 DEF PolicyChecks

LEMMA PolicyReal ==
    ASSUME Inductive, Finished, check \in PolicyChecks, SudoFinding(check, obs).status \in Positive
    PROVE  \E o \in DOMAIN world : \E value \in ever[o] : SudoViolates(o, value)
<1>1. ASSUME NEW w \in Texts(obs), PolicyViolates(obs[w].text)
      PROVE  \E o \in DOMAIN world : \E value \in ever[o] : SudoViolates(o, value)
  BY <1>1, TextsAre DEF SudoViolates
<1>2. CASE check = "secure-path"
  <2>1. UnsafeComponents(obs) # {}
    BY <1>2, PolicyFindingIs
  <2>2. CASE \E c : c \in Values(obs) \cap Misplaced
    <3>1. \E w \in Texts(obs) : Assigned(obs[w].text) \cap Misplaced # {}
      BY <2>2, ValuesAre
    <3> QED BY <1>1, <1>2, <3>1, SecurePathSays
  <2>3. CASE \E w \in Taken(obs, "lstat-dir") : UnsafeDirectory(obs[w])
    <3>1. PICK w \in Taken(obs, "lstat-dir") : UnsafeDirectory(obs[w])
      BY <2>3
    <3>2. w \in DOMAIN obs /\ w.call = "lstat-dir"
      BY DEF Taken
    <3>3. w.at \in UNION {Chain[c] : c \in DOMAIN Chain}
      BY <1>2, <3>2 DEF Inductive, InPlace, WellPlaced, PolicyPlace
    <3>4. w.at \in DOMAIN world /\ obs[w] \in ever[w.at]
      BY <3>2 DEF Inductive, Genuine, GenuineLook, Types
    <3> QED BY <1>2, <3>1, <3>3, <3>4 DEF SudoViolates
  <2> QED BY <2>1, <2>2, <2>3 DEF UnsafeComponents
<1>3. CASE check \in {"passwordless", "broad"}
  <2>1. Matches(check, obs) # {}
    BY <1>3, PolicyFindingIs
  <2>2. PICK w \in Texts(obs) : Matching(check, obs[w].text)
    BY <2>1 DEF Matches
  <2> QED BY <1>1, <1>3, <2>2, ValuesAre
<1> QED BY <1>2, <1>3 DEF PolicyChecks

LEMMA PolicyReported ==
    ASSUME Inductive, Finished, check \in PolicyChecks, NEW o \in Exposures
    PROVE  SudoFinding(check, obs).status \in Positive
<1>1. check \in SudoChecks /\ check \in Checks /\ check # "syntax" /\ "secure-path" \in PolicyChecks
  BY DEF SudoChecks, PolicyChecks, Inductive, Types
<1>2. o \in InReach /\ Judgeable(o) /\ SudoViolates(o, world[o])
  BY <1>1, ViolatesOf DEF Exposures
<1>3. CASE o \in PolicyFiles
  <2>1. o \in FilesInReach /\ world[o].kind = "file" /\ world[o].readable
    BY <1>2, <1>3, PolicyReach DEF Judgeable
  <2>2. Look("read", o) \in Texts(obs) /\ obs[Look("read", o)] = world[o]
    BY <2>1, TextRead
  <2>3. PolicyViolates(world[o].text)
    BY <1>1, <1>2, <1>3, SudoPolicyAssumption DEF SudoViolates, PolicyFiles
  <2>4. CASE check = "secure-path"
    <3>1. PICK c \in Assigned(world[o].text) : c \in Misplaced
      BY <2>3, <2>4, SecurePathSays
    <3>2. c \in Values(obs)
      BY <2>2, <3>1, ValuesAre
    <3>3. UnsafeComponents(obs) # {}
      BY <3>1, <3>2 DEF UnsafeComponents
    <3> QED BY <2>4, <3>3, PolicyFindingIs
  <2>5. CASE check \in {"passwordless", "broad"}
    <3>1. Matching(check, obs[Look("read", o)].text)
      BY <2>2, <2>3, <2>5, ValuesAre
    <3>2. Matches(check, obs) # {}
      BY <2>2, <3>1 DEF Matches
    <3> QED BY <2>5, <3>2, PolicyFindingIs
  <2> QED BY <2>4, <2>5 DEF PolicyChecks
<1>4. CASE o \notin PolicyFiles
  <2>1. check = "secure-path" /\ o \in DirectoriesInReach /\ o \in Still
    BY <1>2, <1>4, PolicyReach
  <2>2. UnsafeDirectory(world[o])
    BY <1>1, <1>2, <1>4 DEF SudoViolates
  <2>3. UnsafeComponents(obs) # {}
    BY <2>1, <2>2, DirectorySeen DEF UnsafeComponents
  <2> QED BY <2>1, <2>3, PolicyFindingIs
<1> QED BY <1>3, <1>4

-----------------------------------------------------------------------------
(* Findings from the evidence found and the errors are well formed.        *)
LEMMA CollectedWellFormed ==
    ASSUME NEW found, NEW errors, NEW status \in Positive,
           NEW severity \in {"low", "medium", "high", "critical"}, NEW otherwise, WellFormed(otherwise)
    PROVE  WellFormed(Collected(found, errors, status, severity, otherwise))
<1>1. CASE found # {}
  BY <1>1, PlainFindings DEF Collected
<1>2. CASE found = {}
  <2>1. Collected(found, errors, status, severity, otherwise) \in {Unknown, otherwise}
    BY <1>2 DEF Collected
  <2> QED BY <2>1, PlainFindings
<1> QED BY <1>1, <1>2

LEMMA ServicesWellFormed == WellFormed(ServicesFinding(obs))
<1>1. "fail" \in Positive /\ "review" \in Positive
  BY DEF Positive
<1> DEFINE certain == Collected(PrivilegedUnsafe(obs), ExecutionErrors(obs), "fail", "high", Protected)
           other == Collected(UnsafePaths(obs), ExecutionErrors(obs), "review", "medium", Protected)
<1>2. WellFormed(certain) /\ WellFormed(other)
  BY <1>1, PlainFindings, CollectedWellFormed
<1>3. ServicesFinding(obs) \in {Unknown, Nothing("high"), certain, other}
  BY DEF ServicesFinding
<1> HIDE DEF certain, other
<1> QED BY <1>2, <1>3, PlainFindings

LEMMA BrowserWellFormed ==
    ASSUME check \in BrowserChecks
    PROVE  WellFormed(BrowserFinding(check, obs))
<1>1. "fail" \in Positive /\ "review" \in Positive
  BY DEF Positive
<1>2. WellFormed(PermissionsFinding(obs))
  <2>1. PermissionsFinding(obs) \in {Finding("fail", "high", "high"), Finding("unknown", "info", "high"), Protected}
    <3> DEFINE exposed == {w \in Taken(obs, "stat") : obs[w].kind # "absent" /\ obs[w].exposed}
    <3>1. CASE exposed = {}
      BY <3>1 DEF PermissionsFinding
    <3>2. CASE exposed # {}
      BY <3>2 DEF PermissionsFinding
    <3> QED BY <3>1, <3>2
  <2> QED BY <1>1, <2>1, PlainFindings
<1>3. WellFormed(PreferencesFinding(obs))
  <2>1. PreferencesFinding(obs) \in
           {Finding("fail", "high", "medium"), Finding("review", "medium", "medium"), Unknown,
            Finding("pass", "info", "medium")}
    <3>1. CASE LegacyTls(obs) # {}
      BY <3>1 DEF PreferencesFinding
    <3>2. CASE LegacyTls(obs) = {}
      BY <3>2 DEF PreferencesFinding
    <3> QED BY <3>1, <3>2
  <2> QED BY <1>1, <2>1, PlainFindings
<1>4. WellFormed(HttpsOnlyFinding(obs))
  <2>1. HttpsOnlyFinding(obs) \in
           {Finding("fail", "low", "medium"), Finding("fail", "low", "high"), Protected, Unknown}
    <3> DEFINE bad == {w \in ReadTexts(obs) : Preference(obs[w].text, "https") = "false"}
    <3>1. CASE bad = {}
      BY <3>1 DEF HttpsOnlyFinding
    <3>2. CASE bad # {}
      BY <3>2 DEF HttpsOnlyFinding
    <3> QED BY <3>1, <3>2
  <2> QED BY <1>1, <2>1, PlainFindings
<1>5. WellFormed(ExtensionsFinding(obs))
  <2> DEFINE powers == UNION {obs[w].powers : w \in Manifests(obs)}
  <2>1. Severest(powers) \in {"low", "medium", "high", "critical"}
    BY DEF Severest
  <2>2. ExtensionsFinding(obs) = Collected(powers, Taken(obs, "read") \ Manifests(obs), "review",
                                           Severest(powers), Protected)
    BY DEF ExtensionsFinding
  <2>3. WellFormed(Protected)
    BY PlainFindings
  <2> DEFINE severity == Severest(powers)
             errors == Taken(obs, "read") \ Manifests(obs)
             f == Collected(powers, errors, "review", severity, Protected)
  <2>4. severity \in {"low", "medium", "high", "critical"} /\ ExtensionsFinding(obs) = f
    BY <2>1, <2>2
  <2> HIDE DEF powers, severity, errors
  <2>5. WellFormed(f)
    BY <1>1, <2>3, <2>4, CollectedWellFormed
  <2> HIDE DEF f
  <2> QED BY <2>4, <2>5
<1>6. BrowserFinding(check, obs) \in
         {Nothing("high"), PermissionsFinding(obs), PreferencesFinding(obs), HttpsOnlyFinding(obs),
          ExtensionsFinding(obs)}
  <2>1. check \in {"profile-permissions", "preferences", "https-only", "extensions"}
    BY DEF BrowserChecks, FirefoxChecks
  <2> QED BY <2>1 DEF BrowserFinding
<1> QED BY <1>2, <1>3, <1>4, <1>5, <1>6, PlainFindings

(* Most checks have one finding, which speaks of all they looked at.       *)
LEMMA OneFinding ==
    ASSUME Inductive, Finished, check \notin ControlChecks
    PROVE  /\ DOMAIN findings = {check} /\ \A o : About(o) = findings[check]
           /\ WellFormed(findings[check])
           /\ check \in SudoChecks => findings[check] = SudoFinding(check, obs)
           /\ check = ServicesCheck => findings[check] = ServicesFinding(obs)
           /\ check \in BrowserChecks => findings[check] = BrowserFinding(check, obs)
<1>1. ASSUME NEW f, findings = Single(f)
      PROVE  DOMAIN findings = {check} /\ findings[check] = f /\ \A o : About(o) = f
  BY <1>1, SpokenOf DEF Single
<1>2. CASE check \in SudoChecks
  <2>1. findings = Single(SudoFinding(check, obs))
    BY <1>2, FinishedWith
  <2>2. check # ServicesCheck /\ check \notin BrowserChecks
    BY <1>2, Families DEF Inductive, Types
  <2>3. WellFormed(SudoFinding(check, obs))
    <3>1. CASE check = "syntax"
      <4>1. SudoFinding(check, obs) = SyntaxFinding(obs)
        BY <3>1 DEF SudoFinding
      <4> QED BY <3>1, <4>1, SyntaxSound DEF SyntaxTells
    <3>2. CASE check \in PolicyChecks
      BY <3>2, PolicyFindingIs
    <3> QED BY <1>2, <3>1, <3>2 DEF SudoChecks
  <2> QED BY <1>1, <2>1, <2>2, <2>3
<1>3. CASE check = ServicesCheck
  <2>1. findings = Single(ServicesFinding(obs))
    BY <1>3, FinishedWith
  <2>2. check \notin SudoChecks /\ check \notin BrowserChecks
    BY <1>3, Families DEF Inductive, Types
  <2> QED BY <1>1, <2>1, <2>2, ServicesWellFormed
<1>4. CASE check \in BrowserChecks
  <2>1. findings = Single(BrowserFinding(check, obs))
    BY <1>4, FinishedWith
  <2>2. check \notin SudoChecks /\ check # ServicesCheck
    BY <1>4, Families DEF Inductive, Types
  <2> QED BY <1>1, <1>4, <2>1, <2>2, BrowserWellFormed
<1> QED BY <1>2, <1>3, <1>4, Families DEF Inductive, Types

LEMMA OwnFamily ==
    ASSUME Inductive
    PROVE  /\ check \in Checks
           /\ check \in ControlChecks \/ (check \notin ControlChecks /\
                 (check \in PolicyChecks \/ check = "syntax" \/ check = ServicesCheck \/ check \in BrowserChecks))
           /\ check \in PolicyChecks \/ check = "syntax" <=> check \in SudoChecks
BY Families DEF Inductive, Types, SudoChecks

(* The verdict of every check is that of the evidence, well formed, and    *)
(* positive only for a violation that was there.                           *)
LEMMA VerdictsSound ==
    ASSUME Inductive, Finished, NEW id \in DOMAIN findings
    PROVE  /\ WellFormed(findings[id])
           /\ findings[id].status \in Positive =>
                 \E o \in IF id = check THEN DOMAIN world ELSE {id} : \E value \in ever[o] : Violates(o, value)
<1>1. CASE check \in ControlChecks
  <2>1. Sound(findings[id], IF id = check THEN DOMAIN world ELSE {id})
    BY <1>1, ControlsSound
  <2> QED BY <1>1, <2>1, ViolatesOf, OwnFamily DEF Sound
<1>2. CASE check \notin ControlChecks
  <2>1. id = check /\ WellFormed(findings[check])
    BY <1>2, OneFinding
  <2>2. ASSUME findings[check].status \in Positive
        PROVE  \E o \in DOMAIN world : \E value \in ever[o] : Violates(o, value)
    <3>1. CASE check \in PolicyChecks
      <4>1. \E o \in DOMAIN world : \E value \in ever[o] : SudoViolates(o, value)
        BY <1>2, <2>2, <3>1, OneFinding, OwnFamily, PolicyReal
      <4> QED BY <3>1, <4>1, OwnFamily, ViolatesOf
    <3>2. CASE check = "syntax"
      <4>1. findings[check] = SyntaxFinding(obs)
        BY <1>2, <3>2, OneFinding, OwnFamily DEF SudoFinding
      <4>2. \E o \in DOMAIN world : \E value \in ever[o] : SudoViolates(o, value)
        BY <2>2, <3>2, <4>1, SyntaxSound DEF SyntaxTells
      <4> QED BY <3>2, <4>2, OwnFamily, ViolatesOf
    <3>3. CASE check = ServicesCheck
      BY <1>2, <2>2, <3>3, OneFinding, ServicesReal
    <3>4. CASE check \in BrowserChecks
      BY <1>2, <2>2, <3>4, OneFinding, BrowserReal
    <3> QED BY <1>2, <3>1, <3>2, <3>3, <3>4, OwnFamily
  <2> QED BY <2>1, <2>2
<1> QED BY <1>1, <1>2

(* The runner's own finding accuses nobody.                                *)
LEMMA RunnerErrorIs ==
    ASSUME findings = RunnerError
    PROVE  /\ DOMAIN findings = {check} /\ WellFormed(findings[check])
           /\ findings[check].status \notin Positive
<1>1. DOMAIN findings = {check} /\ findings[check] = Finding("error", "info", "high")
  BY DEF RunnerError, Single
<1> QED BY <1>1, PlainFindings

(* No check accuses falsely, whatever changes between its looks: what is   *)
(* reported was there at some moment of the scan, in a place that counts   *)
(* (sudo_policy.py:38, 95-98; firefox_preferences.py:33).                  *)
THEOREM VerdictsAreReal == Spec => []VerdictWasReal
<1>1. Inductive => VerdictWasReal
  <2> SUFFICES ASSUME Inductive, NEW id \in DOMAIN findings, findings[id].status \in Positive
               PROVE  \E o \in IF id = check THEN DOMAIN world ELSE {id} :
                          \E value \in ever[o] : Violates(o, value)
    BY DEF VerdictWasReal
  <2>1. CASE Finished
    BY <2>1, VerdictsSound
  <2>2. CASE ~Finished
    <3>1. findings = <<>> \/ findings = RunnerError
      BY <2>2 DEF Finished, Running
    <3>2. findings # <<>>
      OBVIOUS
    <3> QED BY <3>1, <3>2, RunnerErrorIs
  <2> QED BY <2>1, <2>2
<1> QED BY MainInvariant, <1>1, PTL

(* An exposure in reach that does not change while the check runs is       *)
(* reported, by every check and whatever else changes or cannot be read    *)
(* (sudo_policy.py:26-55, 323-336; systemd_execution.py:198-236;           *)
(* firefox_preferences.py:42-76; kernel.py:42-70).                         *)
THEOREM ExposuresAreReported == Spec => []ExposureIsReported
<1>1. Inductive => ExposureIsReported
  <2> SUFFICES ASSUME Inductive, Finished, Answered, NEW o \in Exposures
               PROVE  About(o).status \in Positive
    BY DEF ExposureIsReported
  <2>1. CASE check \in ControlChecks
    BY <2>1, ControlsSound DEF Told
  <2>2. CASE check \notin ControlChecks
    <3>1. About(o) = findings[check]
      BY <2>2, OneFinding
    <3>2. CASE check \in PolicyChecks
      BY <2>2, <3>1, <3>2, OneFinding, OwnFamily, PolicyReported
    <3>3. CASE check = "syntax"
      <4>1. findings[check] = SyntaxFinding(obs)
        BY <2>2, <3>3, OneFinding, OwnFamily DEF SudoFinding
      <4>2. o \in InReach /\ SudoViolates(o, world[o])
        BY <3>3, OwnFamily, ViolatesOf DEF Exposures
      <4> QED BY <3>1, <3>3, <4>1, <4>2, SyntaxSound DEF SyntaxTells
    <3>4. CASE check = ServicesCheck
      BY <2>2, <3>1, <3>4, OneFinding, ServicesReported
    <3>5. CASE check \in BrowserChecks
      BY <2>2, <3>1, <3>5, OneFinding, BrowserReported
    <3> QED BY <2>2, <3>2, <3>3, <3>4, <3>5, OwnFamily
  <2> QED BY <2>1, <2>2
<1> QED BY MainInvariant, <1>1, PTL

(* Something in reach that cannot be seen all along leaves no pass and no  *)
(* not_applicable, and a check that collects from several places does not  *)
(* claim high confidence (README.md:63-64; sudo_policy.py:67).             *)
THEOREM BlindSpotsShow == Spec => []BlindSpotShows
<1>1. Inductive => BlindSpotShows
  <2> SUFFICES ASSUME Inductive, Finished, NEW o \in BlindSpots
               PROVE  /\ About(o).status \notin {"pass", "not_applicable"}
                      /\ check \in PolicyChecks \cup {ServicesCheck} \cup BrowserChecks
                           => About(o).confidence # "high"
    BY DEF BlindSpotShows
  <2>0. /\ "sudoers.d" \in Still => check \in PolicyChecks
        /\ "systemd" \in Still => check = ServicesCheck
    BY WorldAssumption, StillFacts, OwnFamily
  <2>1. CASE check \in ControlChecks
    <3>1. check \notin SudoChecks /\ check # ServicesCheck /\ check \notin BrowserChecks
          /\ check \notin PolicyChecks
      BY <2>1, Families, OwnFamily
    <3>2. o \in InReach /\ Hidden(o)
      BY <2>0, <3>1 DEF BlindSpots
    <3> QED BY <2>1, <3>1, <3>2, ControlsSound DEF Told, Clean
  <2>2. CASE check \notin ControlChecks
    <3>1. About(o) = findings[check]
      BY <2>2, OneFinding
    <3>2. CASE check \in PolicyChecks
      <4>1. findings[check] = SudoFinding(check, obs)
        BY <2>2, <3>2, OneFinding, OwnFamily
      <4> QED BY <3>1, <3>2, <4>1, PolicyBlind DEF Guarded
    <3>3. CASE check = "syntax"
      <4>1. findings[check] = SyntaxFinding(obs)
        BY <2>2, <3>3, OneFinding, OwnFamily DEF SudoFinding
      <4>2. check \notin PolicyChecks /\ check # ServicesCheck /\ check \notin BrowserChecks
        BY <3>3, Families, OwnFamily
      <4>3. o \in InReach /\ Hidden(o)
        BY <2>0, <4>2 DEF BlindSpots
      <4> QED BY <3>1, <3>3, <4>1, <4>2, <4>3, SyntaxSound DEF SyntaxTells, Clean
    <3>4. CASE check = ServicesCheck
      BY <2>2, <3>1, <3>4, OneFinding, ServicesBlind DEF Guarded
    <3>5. CASE check \in BrowserChecks
      BY <2>2, <3>1, <3>5, OneFinding, BrowserBlind DEF Guarded
    <3> QED BY <2>2, <3>2, <3>3, <3>4, <3>5, OwnFamily
  <2> QED BY <2>1, <2>2
<1> QED BY MainInvariant, <1>1, PTL

(* The machine and the evidence have their types, and every finding is     *)
(* well formed: only a violation has a severity (models.py:48-70).         *)
THEOREM EvidenceTypeCorrect == Spec => []TypeOK
<1>1. Inductive => TypeOK
  <2> SUFFICES ASSUME Inductive PROVE TypeOK
    OBVIOUS
  <2>1. /\ check \in Checks /\ changes \in 0..MaxChanges[check]
        /\ \A o \in DOMAIN world : world[o] \in Possible[check][o] /\ world[o] \in ever[o]
    BY DEF Inductive, Types
  <2>2. \A w \in DOMAIN obs : w.call \in {"run", "list", "time"} \/ obs[w] \in ever[w.at]
    BY DEF Inductive, Genuine, GenuineLook
  <2>3. ASSUME NEW id \in DOMAIN findings PROVE WellFormed(findings[id])
    <3>1. CASE Finished
      BY <3>1, VerdictsSound
    <3>2. CASE ~Finished
      <4>1. findings = <<>> \/ findings = RunnerError
        BY <3>2 DEF Finished, Running
      <4>2. findings # <<>>
        BY <2>3
      <4> QED BY <2>3, <4>1, <4>2, RunnerErrorIs
    <3> QED BY <3>1, <3>2
  <2> QED BY <2>1, <2>2, <2>3 DEF TypeOK, WellFormed
<1> QED BY MainInvariant, <1>1, PTL

-----------------------------------------------------------------------------
(***************************************************************************)
(* The contract of a check (CheckContract).  A look tells what had been    *)
(* seen when it was taken: nothing is resolved before systemctl has named  *)
(* it, and nothing is read in a profile before one was found.              *)
(***************************************************************************)
Asked(o) == {Active, Enabled, Show} \subseteq DOMAIN o /\ Services(o) # {}

PolicyShape(c, w) ==
    /\ w.call \in {"lstat", "read", "lstat-dir"} => w = Look(w.call, w.at)
    /\ w.call = "lstat-dir" => c = "secure-path"

ServicesShape(o, w) ==
    /\ w = Show => {Active, Enabled} \subseteq DOMAIN o /\ Services(o) # {}
    /\ w.call \in {"resolve", "stat"} =>
          w = LookFor(w.call, w.at, w.of) /\ Asked(o) /\ w.of \in Programs(o)
    /\ w.call = "resolve" => w.at = w.of[2]
    /\ w.call = "stat" =>
          LET at == LookFor("resolve", w.of[2], w.of)
          IN  at \in Resolved(o) /\ w.at \in {o[at].target} \cup o[at].above

BrowserShape(c, o, w) ==
    w.call \in {"stat", "read"} =>
        /\ w = Look(w.call, w.at) /\ Relevant(c, o) # {}
        /\ w.call = "stat" <=> c = "profile-permissions"

Shape(c, o, w) ==
    /\ c \in PolicyChecks => PolicyShape(c, w)
    /\ c = ServicesCheck => ServicesShape(o, w)
    /\ c \in BrowserChecks => BrowserShape(c, o, w)

Shaped == \A w \in DOMAIN obs : Shape(check, obs, w)

(* More looks have been taken, and the earlier ones stand.                 *)
Extended(o, p) == \A v \in DOMAIN o : v \in DOMAIN p /\ p[v] = o[v]

LEMMA AnswersStand ==
    ASSUME NEW o, NEW p, Extended(o, p), {Active, Enabled} \subseteq DOMAIN o
    PROVE  /\ Services(p) = Services(o)
           /\ Show \in DOMAIN o =>
                 /\ Missing127(p) = Missing127(o) /\ Blocks(p) = Blocks(o) /\ Programs(p) = Programs(o)
                 /\ \A s : UnitOf(p, s) = UnitOf(o, s)
<1>1. {v \in Discovery \cap DOMAIN p : p[v].returncode = 0} = {v \in Discovery \cap DOMAIN o : o[v].returncode = 0}
  BY DEF Discovery, Extended
<1>2. \A v \in {u \in Discovery \cap DOMAIN o : o[u].returncode = 0} : p[v].stdout = o[v].stdout
  BY DEF Extended
<1>3. Services(p) = Services(o)
  BY <1>1, <1>2 DEF Services
<1>4. ASSUME Show \in DOMAIN o
      PROVE  /\ Missing127(p) = Missing127(o) /\ Blocks(p) = Blocks(o) /\ Programs(p) = Programs(o)
             /\ \A s : UnitOf(p, s) = UnitOf(o, s)
  <2>1. Missing127(p) = Missing127(o)
    BY <1>4 DEF Missing127, Discovery, Extended
  <2>2. Show \in DOMAIN p /\ p[Show] = o[Show]
    BY <1>4 DEF Extended
  <2>3. Blocks(p) = Blocks(o)
    BY <1>4, <2>1, <2>2 DEF Blocks
  <2>4. \A s : UnitOf(p, s) = UnitOf(o, s)
    BY <2>2 DEF UnitOf
  <2>5. Programs(p) = Programs(o)
    BY <2>3, <2>4 DEF Programs
  <2> QED BY <2>1, <2>3, <2>4, <2>5
<1> QED BY <1>3, <1>4

LEMMA FoundStands ==
    ASSUME NEW o, NEW p, Extended(o, p)
    PROVE  /\ Resolved(o) \subseteq Resolved(p)
           /\ \A c : Relevant(c, o) \subseteq Relevant(c, p)
<1>1. Resolved(o) \subseteq Resolved(p)
  BY DEF Resolved, Taken, Extended
<1>2. FoundProfiles(o) \subseteq FoundProfiles(p)
  BY DEF FoundProfiles, Taken, Extended
<1> QED BY <1>1, <1>2 DEF Relevant

LEMMA ShapeStands ==
    ASSUME NEW c, NEW o, NEW p, Extended(o, p), NEW w, Shape(c, o, w)
    PROVE  Shape(c, p, w)
<1>1. ASSUME ServicesShape(o, w) PROVE ServicesShape(p, w)
  <2>1. {Active, Enabled} \subseteq DOMAIN o /\ Services(o) # {}
           => {Active, Enabled} \subseteq DOMAIN p /\ Services(p) # {}
    BY AnswersStand DEF Extended
  <2>2. Asked(o) => Asked(p) /\ Programs(p) = Programs(o)
    BY AnswersStand DEF Extended, Asked
  <2>3. \A at \in Resolved(o) : at \in Resolved(p) /\ p[at] = o[at]
    BY DEF Resolved, Taken, Extended
  <2> QED BY <1>1, <2>1, <2>2, <2>3 DEF ServicesShape
<1>2. ASSUME BrowserShape(c, o, w) PROVE BrowserShape(c, p, w)
  BY <1>2, FoundStands DEF BrowserShape
<1> QED BY <1>1, <1>2 DEF Shape

LEMMA SudoShaped ==
    ASSUME check \in PolicyChecks, NEW w \in SudoReady(check, obs) PROVE PolicyShape(check, w)
<1>1. w \in PolicyReady(check, obs)
  BY DEF SudoReady, PolicyChecks
<1>2. \/ w \in {Main, Listing} \cup FileLooks(obs)
      \/ check = "secure-path" /\ w \in DirectoryLooks(obs)
  <2>1. CASE Main \notin DOMAIN obs
    BY <1>1, <2>1 DEF PolicyReady
  <2>2. CASE Main \in DOMAIN obs /\ Listing \notin DOMAIN obs
    BY <1>1, <2>2 DEF PolicyReady
  <2>3. CASE {Main, Listing} \subseteq DOMAIN obs
    BY <1>1, <2>3 DEF PolicyReady, InOrder
  <2> QED BY <2>1, <2>2, <2>3
<1>3. CASE w \in {Main, Listing}
  BY <1>3 DEF Main, Listing, Look, LookFor, PolicyShape
<1>4. CASE w \in FileLooks(obs)
  <2>1. \E call \in {"lstat", "read"} : \E f : w = Look(call, f)
    BY <1>4 DEF FileLooks, InOrder, Pending
  <2> QED BY <2>1 DEF Look, LookFor, PolicyShape
<1>5. CASE check = "secure-path" /\ w \in DirectoryLooks(obs)
  <2>1. \E d : w = Look("lstat-dir", d)
    BY <1>5 DEF DirectoryLooks, Pending
  <2> QED BY <1>5, <2>1 DEF Look, LookFor, PolicyShape
<1> QED BY <1>2, <1>3, <1>4, <1>5

LEMMA ServicesShaped ==
    ASSUME Inductive, Shaped, check = ServicesCheck, NEW w \in ServicesReady(obs)
    PROVE  ServicesShape(obs, w)
<1>1. CASE w \in {Active, Enabled}
  BY <1>1, CommandLooks DEF ServicesShape
<1>2. CASE w = Show /\ {Active, Enabled} \subseteq DOMAIN obs /\ Services(obs) # {}
  BY <1>2, CommandLooks DEF ServicesShape
<1>3. CASE w \in Resolutions(obs) /\ Asked(obs)
  <2>1. PICK se \in Programs(obs) : w = LookFor("resolve", se[2], se)
    BY <1>3 DEF Resolutions
  <2>2. w.call = "resolve" /\ w.at = se[2] /\ w.of = se /\ w # Show
    BY <2>1 DEF LookFor, Show
  <2> QED BY <1>3, <2>1, <2>2 DEF ServicesShape
<1>4. CASE w \in Candidates(obs) /\ Asked(obs)
  <2>1. PICK v \in Resolved(obs) : \E p \in {obs[v].target} \cup obs[v].above : w = LookFor("stat", p, v.of)
    BY <1>4 DEF Candidates
  <2>2. w.at \in {obs[v].target} \cup obs[v].above /\ w.call = "stat" /\ w.of = v.of /\ w # Show /\ w = LookFor(w.call, w.at, w.of)
    BY <2>1 DEF LookFor, Show
  <2>3. v \in DOMAIN obs /\ v.call = "resolve"
    BY DEF Resolved, Taken
  <2>4. v = LookFor("resolve", v.of[2], v.of) /\ v.of \in Programs(obs)
    BY <2>3 DEF Shaped, Shape, ServicesShape
  <2> QED BY <1>4, <2>2, <2>4 DEF ServicesShape
<1>5. \/ w \in {Active, Enabled} \/ (w = Show /\ {Active, Enabled} \subseteq DOMAIN obs /\ Services(obs) # {})
      \/ (w \in Resolutions(obs) \cup Candidates(obs) /\ Asked(obs))
  BY DEF ServicesReady, InOrder, Pending, Asked
<1> QED BY <1>1, <1>2, <1>3, <1>4, <1>5

LEMMA BrowserShaped ==
    ASSUME Inductive, check \in BrowserChecks, NEW w \in BrowserReady(check, obs)
    PROVE  BrowserShape(check, obs, w)
<1>1. w \in DiscoveryLooks(obs) \/ w \in ProfileLooks(check, obs)
  BY DEF BrowserReady, InOrder
<1>2. CASE w \in DiscoveryLooks(obs)
  <2>1. \E call \in {"is_profile", "list", "is_dir"} : \E o : w = Look(call, o)
    BY <1>2 DEF DiscoveryLooks, InOrder, Pending
  <2> QED BY <2>1 DEF BrowserShape, Look, LookFor
<1>3. CASE w \in ProfileLooks(check, obs) /\ check = "profile-permissions"
  <2>1. \E p \in Relevant(check, obs) : w = Look("stat", p)
    BY <1>3 DEF ProfileLooks, FirefoxChecks, Pending
  <2> QED BY <1>3, <2>1 DEF BrowserShape, Look, LookFor
<1>4. CASE w \in ProfileLooks(check, obs) /\ check \in FirefoxChecks
  <2>1. \E p \in Relevant(check, obs) : w = Look("read", p)
    BY <1>4 DEF ProfileLooks, FirefoxChecks, Pending
  <2> QED BY <1>4, <2>1 DEF BrowserShape, Look, LookFor, FirefoxChecks
<1>5. CASE w \in ProfileLooks(check, obs) /\ check = "extensions"
  <2>1. w \in ExtensionLooks(obs)
    BY <1>5 DEF ProfileLooks, FirefoxChecks
  <2>2. (\E call \in {"glob", "list", "is_dir"} : \E o : w = Look(call, o)) \/ \E e : w = Look("read", e)
    BY <2>1 DEF ExtensionLooks, InOrder, Pending
  <2>3. FoundProfiles(obs) # {}
    BY <2>1 DEF ExtensionLooks, InOrder, Pending
  <2>4. \A p \in FoundProfiles(obs) : \E d \in ProfileRoot : p \in Profiles[d]
    <3> SUFFICES ASSUME NEW p \in FoundProfiles(obs) PROVE \E d \in ProfileRoot : p \in Profiles[d]
      OBVIOUS
    <3>1. PICK v \in DOMAIN obs : v.call = "is_profile" /\ p = v.at
      BY DEF FoundProfiles, Taken
    <3> QED BY <1>5, <3>1 DEF Inductive, InPlace, WellPlaced, BrowserPlace
  <2>5. \A p \in FoundProfiles(obs) : p \in ProfilesFor(check)
    BY <1>5, <2>4 DEF ProfilesFor, FirefoxChecks
  <2>6. Relevant(check, obs) # {}
    BY <2>3, <2>5 DEF Relevant
  <2> QED BY <1>5, <2>2, <2>6 DEF BrowserShape, Look, LookFor
<1> QED BY <1>1, <1>2, <1>3, <1>4, <1>5 DEF BrowserChecks

LEMMA ReadyIsShaped ==
    ASSUME Inductive, Shaped, NEW w \in Ready PROVE Shape(check, obs, w)
BY Families, ReadyOf, SudoShaped, ServicesShaped, BrowserShaped DEF Shape, Inductive, Types

(* The invariant of the contract's proof, an invariant of the scan.        *)
LEMMA StepShaped == Inductive /\ Shaped /\ [Next]_vars => Shaped'
<1> SUFFICES ASSUME Inductive, Shaped, [Next]_vars PROVE Shaped'
  OBVIOUS
<1>1. ASSUME NEW w \in Ready, Take(w) PROVE Shaped'
  <2>1. check' = check /\ Extended(obs, obs') /\ DOMAIN obs' = DOMAIN obs \cup {w}
    <3>1. w \notin DOMAIN obs
      BY ReadyIsFresh DEF Inductive, Types
    <3> QED BY <1>1, <3>1 DEF Take, Noted, Extended
  <2>2. \A v \in DOMAIN obs \cup {w} : Shape(check, obs, v)
    BY ReadyIsShaped DEF Shaped
  <2>3. \A v \in DOMAIN obs' : Shape(check, obs', v)
    BY <2>1, <2>2, ShapeStands
  <2> QED BY <2>1, <2>3 DEF Shaped
<1>2. CASE UNCHANGED <<check, obs>>
  BY <1>2 DEF Shaped
<1>3. \/ \E w \in Ready : Take(w)
      \/ UNCHANGED <<check, obs>>
  BY DEF Next, CheckStep, LookRaises, Conclude, Change, vars
<1> QED BY <1>1, <1>2, <1>3

LEMMA LooksAreShaped == Spec => []Shaped
<1>1. Init => Shaped
  BY DEF Init, Shaped
<1> QED BY <1>1, StepShaped, MainInvariant, PTL DEF Spec

(* Of a block that systemctl show returned the service was active or       *)
(* enabled, and described as it was.                                       *)
LEMMA BlocksAre ==
    ASSUME Inductive, Shaped, check = ServicesCheck, NEW s \in Blocks(obs)
    PROVE  /\ obs[Show].unit \in ever["systemd"]
           /\ \E units \in ever["systemd"] : units[s].active \/ units[s].enabled
<1>1. Show \in DOMAIN obs /\ s \in obs[Show].stdout /\ s \in Service
  BY DEF Blocks
<1>2. GenuineBlocks(obs[Show])
  BY <1>1 DEF Inductive, Genuine, GenuineLook
<1>3. s \in Services(obs) /\ obs[Show].unit \in ever["systemd"]
  BY <1>1, <1>2 DEF GenuineBlocks
<1>4. PICK w \in Discovery \cap DOMAIN obs : obs[w].returncode = 0 /\ s \in obs[w].stdout
  BY <1>3 DEF Services
<1>5. \/ GenuineInventory(obs[w], "active") \/ GenuineInventory(obs[w], "enabled")
  BY <1>4 DEF Discovery, Inductive, Genuine, GenuineLook
<1>6. \E units \in ever["systemd"] : units[s]["active"] \/ units[s]["enabled"]
  BY <1>4, <1>5 DEF GenuineInventory
<1> QED BY <1>3, <1>6

(* The check fails only for a program that ran with privileges and had an  *)
(* unsafe path.                                                            *)
LEMMA FailsForPrivilege ==
    ASSUME Inductive, Shaped, check = ServicesCheck, ServicesFinding(obs).status = "fail"
    PROVE  \E s \in Service, e \in Executable : WasPrivileged(s, e)
<1>1. PICK w \in PrivilegedUnsafe(obs) : TRUE
  <2> SUFFICES ASSUME PrivilegedUnsafe(obs) = {} PROVE FALSE
    OBVIOUS
  <2>1. ServicesFinding(obs) \in
           {Unknown, Nothing("high"), Protected,
            Finding("review", "medium", "medium"), Finding("review", "medium", "high")}
    BY DEF ServicesFinding, Collected
  <2> QED BY <2>1 DEF Unknown, Nothing, Protected, Finding
<1>2. /\ w \in DOMAIN obs /\ w.call = "stat"
      /\ obs[w].kind \notin StatFails /\ obs[w].unsafe = TRUE /\ Privileged(obs, w.of)
  BY DEF PrivilegedUnsafe, UnsafePaths, Judged, Taken
<1> DEFINE se == w.of
           at == LookFor("resolve", se[2], se)
<1>3. se \in Programs(obs) /\ at \in Resolved(obs) /\ w.at \in {obs[at].target} \cup obs[at].above
  BY <1>2 DEF Shaped, Shape, ServicesShape
<1>4. se[1] \in Blocks(obs) /\ se[2] \in Executable /\ se[2] \in DOMAIN UnitOf(obs, se[1]).exec
  BY <1>3 DEF Programs
<1>5. se[1] \in Service
  BY <1>4 DEF Blocks
<1>6. obs[w] \in ever[w.at] /\ Violates(w.at, obs[w])
  <2>1. w.at \in ExecutionPath
    BY <1>2 DEF Inductive, InPlace, WellPlaced, ServicesPlace
  <2>2. obs[w] \in ever[w.at]
    BY <1>2 DEF Inductive, Genuine, GenuineLook
  <2> QED BY <1>2, <2>1, <2>2, ViolatesOf DEF Inductive, Types
<1>7. obs[at] \in ever[se[2]] /\ obs[at].kind = "resolved"
  <2>1. at.call = "resolve" /\ at.at = se[2]
    BY DEF LookFor
  <2> HIDE DEF at
  <2>2. at \in DOMAIN obs /\ obs[at].kind = "resolved"
    BY <1>3 DEF Resolved, Taken
  <2> QED BY <2>1, <2>2 DEF Inductive, Genuine, GenuineLook
<1>8. obs[Show].unit \in ever["systemd"]
      /\ \E units \in ever["systemd"] : units[se[1]].active \/ units[se[1]].enabled
  BY <1>4, BlocksAre
<1>9. se[2] \in DOMAIN obs[Show].unit[se[1]].exec /\ RunsPrivileged(obs[Show].unit[se[1]], se[2])
  BY <1>2, <1>4 DEF UnitOf, Privileged, RunsPrivileged
<1> HIDE DEF se, at
<1>10. WasPrivileged(se[1], se[2])
  BY <1>3, <1>6, <1>7, <1>8, <1>9 DEF WasPrivileged
<1> QED BY <1>4, <1>5, <1>10

(* A program that runs with privileges, and whose path is unsafe all       *)
(* along, makes the check fail, whatever commands fail, paths cannot be    *)
(* read or services change between the looks; and nothing but a program    *)
(* that ran with privileges and had an unsafe path makes it fail           *)
(* (systemd_execution.py:181-182, 214-217).                                *)
THEOREM PrivilegeIsDecisive == Spec => []PrivilegeDecides
<1>1. Inductive /\ Shaped => PrivilegeDecides
  <2> SUFFICES ASSUME Inductive, Shaped, Finished, check = ServicesCheck
               PROVE  /\ Answered => \A se \in Runs :
                            /\ PathsOf(se[2]) \cap Exposures # {}
                            /\ RunsPrivileged(world["systemd"][se[1]], se[2])
                            => findings[check].status = "fail"
                      /\ findings[check].status = "fail" =>
                            \E s \in Service, e \in Executable : WasPrivileged(s, e)
    BY DEF PrivilegeDecides
  <2>1. findings[check] = ServicesFinding(obs)
    BY FinishedWith DEF Single
  <2> QED BY <2>1, PrivilegeFails, FailsForPrivilege
<1> QED BY MainInvariant, LooksAreShaped, <1>1, PTL

(* What a path of the contract was observed to be does not change when     *)
(* more looks are taken.                                                   *)
LEMMA TargetStands ==
    ASSUME Shaped, check = ServicesCheck, check' = check, Extended(obs, obs'),
           NEW v \in DOMAIN obs, v.call = "stat"
    PROVE  IsTarget(obs', v) <=> IsTarget(obs, v)
<1>1. LookFor("resolve", v.of[2], v.of) \in DOMAIN obs
  BY DEF Shaped, Shape, ServicesShape, Resolved, Taken
<1> QED BY <1>1 DEF IsTarget, Extended

LEMMA PathsStand ==
    ASSUME Shaped, check = ServicesCheck, check' = check, Extended(obs, obs'), NEW v \in DOMAIN obs
    PROVE  /\ v \in UnsafePaths(obs') <=> v \in UnsafePaths(obs)
           /\ v \in PathErrorsOf(obs') <=> v \in PathErrorsOf(obs)
<1>1. v \in DOMAIN obs' /\ obs'[v] = obs[v]
  BY DEF Extended
<1>2. v \in Judged(obs') <=> v \in Judged(obs)
  BY <1>1, TargetStands DEF Judged, Taken
<1>3. v \in UnsafePaths(obs') <=> v \in UnsafePaths(obs)
  BY <1>1, <1>2 DEF UnsafePaths
<1>4. v \in Resolved(obs') <=> v \in Resolved(obs)
  BY <1>1 DEF Resolved, Taken
<1>5. \A call : v \in Taken(obs', call) <=> v \in Taken(obs, call)
  BY <1>1 DEF Taken
<1> QED BY <1>2, <1>3, <1>4, <1>5 DEF PathErrorsOf

LEMMA BlocksStand ==
    ASSUME Shaped, check = ServicesCheck, check' = check, Extended(obs, obs'), Show \in DOMAIN obs
    PROVE  /\ Services(obs') = Services(obs)
           /\ \A s : Incomplete(obs', s) <=> Incomplete(obs, s)
<1>1. {Active, Enabled} \subseteq DOMAIN obs
  BY DEF Shaped, Shape, ServicesShape
<1> QED BY <1>1, AnswersStand DEF Incomplete

LEMMA TextsStand ==
    ASSUME Extended(obs, obs'), NEW v \in DOMAIN obs
    PROVE  /\ v \in Texts(obs') <=> v \in Texts(obs)
           /\ v \in PolicyErrors(obs') <=> v \in PolicyErrors(obs)
           /\ v \in Unread(obs') <=> v \in Unread(obs)
           /\ v \in Manifests(obs') <=> v \in Manifests(obs)
<1>1. v \in DOMAIN obs' /\ obs'[v] = obs[v]
  BY DEF Extended
<1>2. \A call : v \in Taken(obs', call) <=> v \in Taken(obs, call)
  BY <1>1 DEF Taken
<1>3. v \in Texts(obs') <=> v \in Texts(obs)
  BY <1>1, <1>2 DEF Texts
<1>4. v \in ListingErrors(obs') <=> v \in ListingErrors(obs)
  BY <1>1 DEF ListingErrors
<1>5. v \in PolicyErrors(obs') <=> v \in PolicyErrors(obs)
  BY <1>1, <1>2, <1>3, <1>4 DEF PolicyErrors
<1> QED BY <1>1, <1>2, <1>3, <1>5 DEF Unread, ReadTexts, Manifests

LEMMA SeenStands ==
    ASSUME Shaped, check' = check, Extended(obs, obs'), NEW v \in DOMAIN obs
    PROVE  SeenAs(v)' = SeenAs(v)
<1>1. v \in DOMAIN obs' /\ obs'[v] = obs[v]
  BY DEF Extended
<1>2. CASE check \notin Collecting
  BY <1>2 DEF SeenAs
<1>3. CASE check \in PolicyChecks
  <2>1. check \notin BrowserChecks \cup {ServicesCheck}
    BY <1>3 DEF PolicyChecks, BrowserChecks, FirefoxChecks, ServicesCheck
  <2>2. ShowsViolation(v)' <=> ShowsViolation(v)
    BY <1>1, <1>3, <2>1, TextsStand DEF ShowsViolation, PolicyViolates, PolicyChecks
  <2>3. ShowsNothing(v)' <=> ShowsNothing(v)
    BY <1>1, <1>3, <2>1, TextsStand DEF ShowsNothing
  <2> QED BY <1>1, <1>3, <2>2, <2>3 DEF SeenAs
<1>4. CASE check = ServicesCheck
  <2>1. check \notin BrowserChecks \cup PolicyChecks
    BY <1>4 DEF PolicyChecks, BrowserChecks, FirefoxChecks, ServicesCheck
  <2>2. ShowsViolation(v)' <=> ShowsViolation(v)
    BY <1>1, <1>4, <2>1, PathsStand DEF ShowsViolation, PolicyChecks
  <2>3. ShowsNothing(v)' <=> ShowsNothing(v)
    <3>1. (v = Show /\ \E s \in Services(obs') : Incomplete(obs', s))
             <=> (v = Show /\ \E s \in Services(obs) : Incomplete(obs, s))
      BY <1>4, BlocksStand
    <3>2. v \in PathErrorsOf(obs') <=> v \in PathErrorsOf(obs)
      BY <1>4, PathsStand
    <3>a. /\ check # "profile-permissions" /\ check # "preferences" /\ check # "https-only"
          /\ check # "extensions" /\ check \notin PolicyChecks
      BY <2>1 DEF BrowserChecks, FirefoxChecks
    <3>3. ShowsNothing(v) <=> \/ v.call = "run" /\ obs[v].returncode # 0
                              \/ v = Show /\ \E s \in Services(obs) : Incomplete(obs, s)
                              \/ v \in PathErrorsOf(obs)
      BY <1>4, <3>a DEF ShowsNothing
    <3>4. ShowsNothing(v)' <=> \/ v.call = "run" /\ obs'[v].returncode # 0
                               \/ v = Show /\ \E s \in Services(obs') : Incomplete(obs', s)
                               \/ v \in PathErrorsOf(obs')
      BY <1>4, <3>a DEF ShowsNothing
    <3> QED BY <1>1, <3>1, <3>2, <3>3, <3>4
  <2> QED BY <1>1, <1>4, <2>2, <2>3 DEF SeenAs
<1>5. CASE check \in BrowserChecks
  <2>1. check \notin {ServicesCheck} \cup PolicyChecks
    BY <1>5 DEF PolicyChecks, BrowserChecks, FirefoxChecks, ServicesCheck
  <2>a. BrowserViolates(v.at, obs[v])' <=> BrowserViolates(v.at, obs[v])
    BY <1>1 DEF BrowserViolates
  <2>2. ShowsViolation(v)' <=> ShowsViolation(v)
    BY <1>1, <1>5, <2>1, <2>a, Zenon DEF ShowsViolation, PolicyChecks
  <2>3. ShowsNothing(v)' <=> ShowsNothing(v)
    <3>1. CASE check = "profile-permissions"
      BY <1>1, <2>1, <3>1 DEF ShowsNothing
    <3>2. CASE check = "preferences"
      BY <1>1, <2>1, <3>2, TextsStand DEF ShowsNothing
    <3>3. CASE check = "https-only"
      BY <1>1, <2>1, <3>3 DEF ShowsNothing
    <3>4. CASE check = "extensions"
      BY <1>1, <2>1, <3>4, TextsStand DEF ShowsNothing
    <3> QED BY <1>5, <3>1, <3>2, <3>3, <3>4 DEF BrowserChecks, FirefoxChecks
  <2> QED BY <1>1, <1>5, <2>2, <2>3 DEF SeenAs
<1> QED BY <1>2, <1>3, <1>4, <1>5 DEF Collecting

(* The paths of the contract, family by family.                            *)
LEMMA LooksAre ==
    /\ \A f \in PolicyFiles : Look("lstat", f) \in Looks /\ Look("read", f) \in Looks
    /\ \A d \in UNION {Chain[c] : c \in DOMAIN Chain} : Look("lstat-dir", d) \in Looks
    /\ \A p \in ExecutionPath, se \in Service \X Executable : LookFor("stat", p, se) \in Looks
    /\ \A d \in ProfileRoot : \A p \in Profiles[d] : Look("stat", p) \in Looks /\ Look("read", p) \in Looks
    /\ \A d \in DOMAIN Extension : \A e \in Extension[d] : Look("read", e) \in Looks
    /\ \A w \in Looks : w.call = "run" => w \in {Active, Enabled, Show}
<1>1. \A f \in PolicyFiles : Look("lstat", f) \in Looks /\ Look("read", f) \in Looks
  BY DEF Looks
<1>2. \A d \in UNION {Chain[c] : c \in DOMAIN Chain} : Look("lstat-dir", d) \in Looks
  BY DEF Looks
<1>3. \A p \in ExecutionPath, se \in Service \X Executable : LookFor("stat", p, se) \in Looks
  BY DEF Looks
<1>4. ASSUME NEW d \in ProfileRoot, NEW p \in Profiles[d]
      PROVE  Look("stat", p) \in Looks /\ Look("read", p) \in Looks
  <2>1. p \in UNION {Profiles[r] : r \in ProfileRoot}
    OBVIOUS
  <2>2. \A q \in UNION {Profiles[r] : r \in ProfileRoot} : Look("stat", q) \in Looks /\ Look("read", q) \in Looks
    BY DEF Looks
  <2> QED BY <2>1, <2>2
<1>5. ASSUME NEW d \in DOMAIN Extension, NEW e \in Extension[d] PROVE Look("read", e) \in Looks
  <2>1. e \in UNION {Extension[r] : r \in DOMAIN Extension}
    OBVIOUS
  <2>2. \A q \in UNION {Extension[r] : r \in DOMAIN Extension} : Look("read", q) \in Looks
    BY DEF Looks
  <2> QED BY <2>1, <2>2
<1>6. \A w \in Looks : w.call = "run" => w \in {Active, Enabled, Show}
  BY DEF Looks, Listing, Active, Enabled, Show, Look, LookFor
<1> QED BY <1>1, <1>2, <1>3, <1>4, <1>5, <1>6

(* A finding that follows from what was observed.                          *)
Observed == Looks \cap DOMAIN obs

Justified(f) ==
    /\ f.status \in Positive <=> \E w \in Observed : ShowsViolation(w)
    /\ f.status = "pass" => \A w \in Observed : ~ShowsNothing(w)

LEMMA PolicyJustified ==
    ASSUME Inductive, Shaped, check \in PolicyChecks PROVE Justified(SudoFinding(check, obs))
<1> DEFINE f == SudoFinding(check, obs)
<1>0. check # ServicesCheck /\ check \notin BrowserChecks
  BY DEF PolicyChecks, BrowserChecks, FirefoxChecks, ServicesCheck
<1>n. \A w : ShowsNothing(w) <=>
         w \in PolicyErrors(obs) \/ (w.call = "lstat-dir" /\ obs[w].kind \in {"absent", "refused", "link"})
  <2>1. /\ check # "profile-permissions" /\ check # "preferences" /\ check # "https-only"
        /\ check # "extensions" /\ check # ServicesCheck
    BY <1>0 DEF BrowserChecks, FirefoxChecks
  <2> QED BY <2>1 DEF ShowsNothing
<1>a. "fail" \in Positive /\ "review" \in Positive
  BY DEF Positive
<1>1. \A w \in Texts(obs) : w \in Observed
  <2> SUFFICES ASSUME NEW w \in Texts(obs) PROVE w \in Observed
    OBVIOUS
  <2>1. w \in DOMAIN obs /\ w.call = "read"
    BY DEF Texts, Taken
  <2>2. w = Look("read", w.at) /\ w.at \in PolicyFiles
    BY <2>1 DEF Shaped, Shape, PolicyShape, Inductive, InPlace, WellPlaced, PolicyPlace
  <2> QED BY <2>1, <2>2, LooksAre DEF Observed
<1>2. CASE check \in {"passwordless", "broad"}
  <2>1. \A w : ShowsViolation(w) <=> w \in Texts(obs) /\ Matching(check, obs[w].text)
    <3>1. check # "secure-path"
      BY <1>2
    <3> QED BY <1>0, <3>1, ValuesAre DEF ShowsViolation
  <2>2. f.status \in Positive <=> Matches(check, obs) # {}
    BY <1>2, PolicyFindingIs
  <2>3. f.status \in Positive <=> \E w \in Observed : ShowsViolation(w)
    BY <1>1, <2>1, <2>2 DEF Matches
  <2>4. f.status = "pass" => PolicyErrors(obs) = {}
    <3>1. f = RulesFinding(check, obs)
      BY <1>2 DEF SudoFinding
    <3> QED BY <1>a, <3>1, ErrorsGuard DEF RulesFinding, Guarded
  <2>5. \A w \in DOMAIN obs : w.call # "lstat-dir"
    BY <1>2 DEF Shaped, Shape, PolicyShape, PolicyChecks
  <2>6. \A w \in DOMAIN obs : ShowsNothing(w) => w \in PolicyErrors(obs)
    BY <1>n, <2>5
  <2> QED BY <2>3, <2>4, <2>6 DEF Justified, Observed
<1>3. CASE check = "secure-path"
  <2>1. \A w : ShowsViolation(w) <=> \/ w \in Texts(obs) /\ Assigned(obs[w].text) \cap Misplaced # {}
                                     \/ w.call = "lstat-dir" /\ UnsafeDirectory(obs[w])
    BY <1>0, <1>3, SecurePathSays DEF ShowsViolation
  <2>2. f.status \in Positive <=> UnsafeComponents(obs) # {}
    BY <1>3, PolicyFindingIs
  <2>3. Values(obs) \cap Misplaced # {} <=> \E w \in Texts(obs) : Assigned(obs[w].text) \cap Misplaced # {}
    BY ValuesAre
  <2>4. UnsafeComponents(obs) # {} <=>
           \/ Values(obs) \cap Misplaced # {}
           \/ \E w \in Taken(obs, "lstat-dir") : UnsafeDirectory(obs[w])
    BY DEF UnsafeComponents
  <2>5. \A w \in Taken(obs, "lstat-dir") : w \in Observed
    <3> SUFFICES ASSUME NEW w \in Taken(obs, "lstat-dir") PROVE w \in Observed
      OBVIOUS
    <3>1. w \in DOMAIN obs /\ w.call = "lstat-dir"
      BY DEF Taken
    <3>2. w = Look("lstat-dir", w.at) /\ w.at \in UNION {Chain[c] : c \in DOMAIN Chain}
      BY <1>3, <3>1 DEF Shaped, Shape, PolicyShape, Inductive, InPlace, WellPlaced, PolicyPlace
    <3> QED BY <3>1, <3>2, LooksAre DEF Observed
  <2>6. \A w \in Observed : w.call = "lstat-dir" => w \in Taken(obs, "lstat-dir")
    BY DEF Observed, Taken
  <2>7. f.status \in Positive <=> \E w \in Observed : ShowsViolation(w)
    <3>1. ASSUME f.status \in Positive PROVE \E w \in Observed : ShowsViolation(w)
      <4>1. CASE \E w \in Texts(obs) : Assigned(obs[w].text) \cap Misplaced # {}
        BY <1>1, <2>1, <4>1
      <4>2. CASE \E w \in Taken(obs, "lstat-dir") : UnsafeDirectory(obs[w])
        <5>1. PICK w \in Taken(obs, "lstat-dir") : UnsafeDirectory(obs[w])
          BY <4>2
        <5>2. w.call = "lstat-dir" /\ w \in Observed
          BY <2>5 DEF Taken
        <5> QED BY <2>1, <5>1, <5>2
      <4> QED BY <2>2, <2>3, <2>4, <3>1, <4>1, <4>2
    <3>2. ASSUME NEW w \in Observed, ShowsViolation(w) PROVE f.status \in Positive
      BY <2>1, <2>2, <2>3, <2>4, <2>6, <3>2
    <3> QED BY <3>1, <3>2
  <2>8. f.status = "pass" => PathErrors(obs) = {}
    <3>1. f = SecurePathFinding(obs)
      BY <1>3 DEF SudoFinding
    <3> QED BY <1>a, <3>1, ErrorsGuard DEF SecurePathFinding, Guarded
  <2>9. \A w \in DOMAIN obs : ShowsNothing(w) => w \in PathErrors(obs)
    BY <1>n DEF PathErrors, Taken
  <2> QED BY <2>7, <2>8, <2>9 DEF Justified, Observed
<1> QED BY <1>2, <1>3 DEF PolicyChecks

LEMMA ServicesJustified ==
    ASSUME Inductive, Shaped, check = ServicesCheck PROVE Justified(ServicesFinding(obs))
<1> DEFINE f == ServicesFinding(obs)
           other == Collected(UnsafePaths(obs), ExecutionErrors(obs), "review", "medium", Protected)
<1>0. check \notin PolicyChecks /\ check \notin BrowserChecks
  BY DEF PolicyChecks, BrowserChecks, FirefoxChecks, ServicesCheck
<1>a. "fail" \in Positive /\ "review" \in Positive
  BY DEF Positive
<1>1. \A w : ShowsViolation(w) <=> w \in UnsafePaths(obs)
  <2>1. check # "passwordless" /\ check # "broad" /\ check # "secure-path"
    BY <1>0 DEF PolicyChecks
  <2> QED BY <1>0, <2>1 DEF ShowsViolation
<1>2. \A w : ShowsNothing(w) <=> \/ w.call = "run" /\ obs[w].returncode # 0
                                 \/ w = Show /\ \E s \in Services(obs) : Incomplete(obs, s)
                                 \/ w \in PathErrorsOf(obs)
  <2>1. /\ check # "profile-permissions" /\ check # "preferences" /\ check # "https-only"
        /\ check # "extensions"
    BY <1>0 DEF BrowserChecks, FirefoxChecks
  <2> QED BY <1>0, <2>1 DEF ShowsNothing
<1>3. ASSUME NEW w \in UnsafePaths(obs)
      PROVE  /\ w \in Observed
             /\ Missing127(obs) = {} /\ Services(obs) # {} /\ ~ShowFailed(obs)
  <2>1. w \in DOMAIN obs /\ w.call = "stat"
    BY DEF UnsafePaths, Judged, Taken
  <2>2. w = LookFor("stat", w.at, w.of) /\ Asked(obs) /\ w.of \in Programs(obs)
    BY <2>1 DEF Shaped, Shape, ServicesShape
  <2>3. w.at \in ExecutionPath
    BY <2>1 DEF Inductive, InPlace, WellPlaced, ServicesPlace
  <2>4. Blocks(obs) # {} /\ w.of \in Service \X Executable
    BY <2>2 DEF Programs, Blocks
  <2>5. Missing127(obs) = {} /\ obs[Show].stdout # {}
    BY <2>4 DEF Blocks
  <2> QED BY <2>1, <2>2, <2>3, <2>4, <2>5, LooksAre DEF Observed, Asked, ShowFailed
<1>4. ASSUME UnsafePaths(obs) # {} PROVE f.status \in Positive
  <2>1. Missing127(obs) = {} /\ Services(obs) # {} /\ ~ShowFailed(obs)
    BY <1>3, <1>4
  <2>2. CASE PrivilegedUnsafe(obs) # {}
    <3>1. f = Collected(PrivilegedUnsafe(obs), ExecutionErrors(obs), "fail", "high", Protected)
      BY <2>1, <2>2 DEF ServicesFinding
    <3> QED BY <1>a, <2>2, <3>1, FoundDecides
  <2>3. CASE PrivilegedUnsafe(obs) = {}
    <3>1. f = other
      BY <2>1, <2>3 DEF ServicesFinding
    <3> QED BY <1>a, <1>4, <3>1, FoundDecides
  <2> QED BY <2>2, <2>3
<1>5. ASSUME f.status \in Positive PROVE UnsafePaths(obs) # {}
  BY <1>5, ServicesForAReason DEF UnsafePaths
<1>6. f.status \in Positive <=> \E w \in Observed : ShowsViolation(w)
  BY <1>1, <1>3, <1>4, <1>5
<1>7. ASSUME f.status = "pass" PROVE ExecutionErrors(obs) = {} /\ Services(obs) # {}
  <2>1. CASE Services(obs) = {} \/ Missing127(obs) # {}
    <3>1. f \in {Unknown, Nothing("high")}
      BY <2>1 DEF ServicesFinding
    <3> QED BY <1>7, <3>1 DEF Unknown, Nothing, Finding
  <2>2. CASE Services(obs) # {}
    BY <1>7, <2>2, ServicesErrorsGuard DEF Guarded
  <2> QED BY <2>1, <2>2
<1>8. ASSUME f.status = "pass", NEW w \in Observed PROVE ~ShowsNothing(w)
  <2>1. w.call = "run" => w \in {Active, Enabled, Show}
    BY LooksAre DEF Observed
  <2>2. ASSUME w.call = "run" PROVE obs[w].returncode = 0
    BY <1>7, <1>8, <2>1, <2>2 DEF ExecutionErrors, DiscoveryErrors, Discovery
  <2>3. \A s \in Services(obs) : ~Incomplete(obs, s)
    BY <1>7, <1>8 DEF ExecutionErrors
  <2>4. w \notin PathErrorsOf(obs)
    BY <1>7, <1>8 DEF ExecutionErrors
  <2> QED BY <1>2, <2>2, <2>3, <2>4
<1> QED BY <1>6, <1>8 DEF Justified

(* In a browser profile, what a look is at tells what it may show.         *)
LEMMA BrowserObserved ==
    ASSUME Inductive, Shaped, check \in BrowserChecks, NEW w \in DOMAIN obs, w.call \in {"stat", "read"}
    PROVE  /\ w \in Observed /\ Relevant(check, obs) # {}
           /\ w.call = "stat" <=> check = "profile-permissions"
           /\ check # "extensions" => w.at \in ProfilesFor(check)
           /\ check = "extensions" => w.at \notin ProfilesFor(check)
           /\ obs[w] \in ever[w.at] /\ w.at \in ObjectsOf(check)
<1>1. w = Look(w.call, w.at) /\ Relevant(check, obs) # {} /\ (w.call = "stat" <=> check = "profile-permissions")
  BY DEF Shaped, Shape, BrowserShape
<1>2. CASE check # "extensions"
  <2>1. w.at \in ProfilesFor(check)
    BY <1>1, <1>2 DEF Inductive, InPlace, WellPlaced, BrowserPlace, BrowserChecks
  <2>2. \E d \in ProfileRoot : w.at \in Profiles[d]
    BY <2>1 DEF ProfilesFor
  <2> QED BY <1>1, <1>2, <2>1, <2>2, LooksAre DEF Observed, Inductive, Genuine, GenuineLook
<1>3. CASE check = "extensions"
  <2>1. PICK d \in DOMAIN Extension : w.at \in Extension[d]
    BY <1>1, <1>3 DEF Inductive, InPlace, WellPlaced, BrowserPlace
  <2>2. w.at \notin ProfilesFor(check)
    BY <2>1, BrowserAssumption DEF ProfilesFor
  <2> QED BY <1>1, <1>3, <2>1, <2>2, LooksAre DEF Observed, Inductive, Genuine, GenuineLook
<1> QED BY <1>2, <1>3

LEMMA BrowserShows ==
    ASSUME Inductive, Shaped, check \in BrowserChecks, NEW w \in DOMAIN obs
    PROVE  /\ ShowsViolation(w) <=> w.call \in {"stat", "read"} /\ BrowserViolates(w.at, obs[w])
           /\ check = "profile-permissions" =>
                 /\ ShowsViolation(w) <=> w.call = "stat" /\ obs[w].kind # "absent" /\ obs[w].exposed
                 /\ ShowsNothing(w) <=> w.call = "stat" /\ obs[w].kind = "absent"
           /\ check = "preferences" =>
                 /\ ShowsViolation(w) <=> w \in LegacyTls(obs) \cup EnterpriseRoots(obs)
                 /\ ShowsNothing(w) <=> w \in Unread(obs)
           /\ check = "https-only" =>
                 /\ ShowsViolation(w) <=> w \in ReadTexts(obs) /\ Preference(obs[w].text, "https") = "false"
                 /\ ShowsNothing(w) <=>
                       /\ w.call = "read"
                       /\ ~Readable(obs[w]) \/ Preference(obs[w].text, "https") \notin {"true", "false"}
           /\ check = "extensions" =>
                 /\ ShowsViolation(w) <=> w \in Manifests(obs) /\ obs[w].powers # {}
                 /\ ShowsNothing(w) <=> w.call = "read" /\ w \notin Manifests(obs)
<1>0. check \notin PolicyChecks /\ check # ServicesCheck
      /\ check # "passwordless" /\ check # "broad" /\ check # "secure-path"
  BY DEF PolicyChecks, BrowserChecks, FirefoxChecks, ServicesCheck
<1>1. ShowsViolation(w) <=> w.call \in {"stat", "read"} /\ BrowserViolates(w.at, obs[w])
  BY <1>0 DEF ShowsViolation
<1>2. ASSUME check = "profile-permissions"
      PROVE  /\ ShowsViolation(w) <=> w.call = "stat" /\ obs[w].kind # "absent" /\ obs[w].exposed
             /\ ShowsNothing(w) <=> w.call = "stat" /\ obs[w].kind = "absent"
  <2>1. ShowsNothing(w) <=> w.call = "stat" /\ obs[w].kind = "absent"
    BY <1>0, <1>2 DEF ShowsNothing
  <2> QED BY <1>1, <1>2, <2>1, BrowserObserved DEF BrowserViolates, FirefoxChecks
<1>3. ASSUME check \in FirefoxChecks, w.call = "read", Readable(obs[w])
      PROVE  \A key, setting : setting # "unset" =>
                (LastSays(obs[w].text, key, setting) <=> Preference(obs[w].text, key) = setting)
  <2>1. w.at \in ProfilesFor(check) /\ obs[w] \in ever[w.at] /\ w.at \in ObjectsOf(check)
    BY <1>3, BrowserObserved DEF FirefoxChecks
  <2>2. obs[w] \in Possible[check][w.at] /\ check \in Checks /\ obs[w].kind = "profile"
    BY <1>3, <2>1 DEF Inductive, Types, Readable
  <2>3. obs[w].text \in Seq(STRING \X STRING)
    BY <1>3, <2>1, <2>2, WorldAssumption
  <2> QED BY <2>3, LastCounts
<1>4. ASSUME check \in FirefoxChecks
      PROVE  ShowsViolation(w) <=>
                /\ w \in ReadTexts(obs)
                /\ IF check = "https-only" THEN Preference(obs[w].text, "https") = "false"
                   ELSE \/ Preference(obs[w].text, "tls.min") = "1"
                        \/ Preference(obs[w].text, "roots") = "true"
  <2>1. w \in ReadTexts(obs) <=> w.call = "read" /\ Readable(obs[w])
    BY DEF ReadTexts, Taken
  <2>2. w.call \in {"stat", "read"} => w.call = "read" /\ w.at \in ProfilesFor(check)
    BY <1>4, BrowserObserved DEF FirefoxChecks
  <2>3. BrowserViolates(w.at, obs[w]) <=>
           /\ w.at \in ProfilesFor(check) /\ Readable(obs[w])
           /\ IF check = "https-only" THEN LastSays(obs[w].text, "https", "false")
              ELSE LastSays(obs[w].text, "tls.min", "1") \/ LastSays(obs[w].text, "roots", "true")
    BY <1>4 DEF BrowserViolates, FirefoxChecks
  <2> QED BY <1>1, <1>3, <1>4, <2>1, <2>2, <2>3
<1>5. ASSUME check = "preferences"
      PROVE  /\ ShowsViolation(w) <=> w \in LegacyTls(obs) \cup EnterpriseRoots(obs)
             /\ ShowsNothing(w) <=> w \in Unread(obs)
  <2>1. ShowsNothing(w) <=> w \in Unread(obs)
    BY <1>0, <1>5 DEF ShowsNothing
  <2> QED BY <1>4, <1>5, <2>1 DEF LegacyTls, EnterpriseRoots, FirefoxChecks
<1>6. ASSUME check = "https-only"
      PROVE  /\ ShowsViolation(w) <=> w \in ReadTexts(obs) /\ Preference(obs[w].text, "https") = "false"
             /\ ShowsNothing(w) <=>
                   /\ w.call = "read"
                   /\ ~Readable(obs[w]) \/ Preference(obs[w].text, "https") \notin {"true", "false"}
  <2>1. ShowsNothing(w) <=>
           /\ w.call = "read"
           /\ ~Readable(obs[w]) \/ Preference(obs[w].text, "https") \notin {"true", "false"}
    BY <1>0, <1>6 DEF ShowsNothing
  <2> QED BY <1>4, <1>6, <2>1 DEF FirefoxChecks
<1>7. ASSUME check = "extensions"
      PROVE  /\ ShowsViolation(w) <=> w \in Manifests(obs) /\ obs[w].powers # {}
             /\ ShowsNothing(w) <=> w.call = "read" /\ w \notin Manifests(obs)
  <2>1. ShowsNothing(w) <=> w.call = "read" /\ w \notin Manifests(obs)
    BY <1>0, <1>7 DEF ShowsNothing
  <2>2. w.call \in {"stat", "read"} => w.call = "read" /\ w.at \notin ProfilesFor(check)
    BY <1>7, BrowserObserved
  <2>3. w \in Manifests(obs) <=> w.call = "read" /\ obs[w].kind = "manifest"
    BY DEF Manifests, Taken
  <2> QED BY <1>1, <1>7, <2>1, <2>2, <2>3 DEF BrowserViolates, FirefoxChecks
<1> QED BY <1>1, <1>2, <1>5, <1>6, <1>7

LEMMA BrowserJustified ==
    ASSUME Inductive, Shaped, check \in BrowserChecks PROVE Justified(BrowserFinding(check, obs))
<1> DEFINE f == BrowserFinding(check, obs)
<1> SUFFICES Justified(f)
  OBVIOUS
<1>0. check \in {"profile-permissions", "preferences", "https-only", "extensions"}
  BY DEF BrowserChecks, FirefoxChecks
<1>a. "fail" \in Positive /\ "review" \in Positive /\ "unknown" \notin Positive
      /\ "pass" \notin Positive /\ "not_applicable" \notin Positive
  BY DEF Positive
<1>1. \A w \in DOMAIN obs : w.call \in {"stat", "read"} => w \in Observed /\ Relevant(check, obs) # {}
  BY BrowserObserved
<1>2. \A w \in Observed : w \in DOMAIN obs
  BY DEF Observed
<1>3. CASE Relevant(check, obs) = {}
  <2>1. \A w \in Observed : ~ShowsViolation(w)
    BY <1>1, <1>2, <1>3, BrowserShows
  <2>2. f = Nothing("high")
    BY <1>3 DEF BrowserFinding
  <2>3. f.status \notin Positive /\ f.status # "pass"
    BY <1>a, <2>2 DEF Nothing, Finding
  <2> HIDE DEF f
  <2> QED BY <2>1, <2>3 DEF Justified
<1>4. CASE Relevant(check, obs) # {} /\ check = "profile-permissions"
  <2> DEFINE looked  == Taken(obs, "stat")
             exposed == {w \in looked : obs[w].kind # "absent" /\ obs[w].exposed}
             errors  == {w \in looked : obs[w].kind = "absent"}
  <2>1. f = PermissionsFinding(obs)
    BY <1>4 DEF BrowserFinding
  <2>2. exposed # {} => f.status = "fail"
    BY <2>1 DEF PermissionsFinding, Finding
  <2>3. exposed = {} => /\ f.status \in {"unknown", "pass"}
                        /\ f.status = "pass" => errors = {}
    BY <2>1 DEF PermissionsFinding, Finding, Protected
  <2>4. exposed # {} <=> \E w \in Observed : ShowsViolation(w)
    BY <1>1, <1>2, <1>4, BrowserShows DEF Taken
  <2>5. errors = {} => \A w \in Observed : ~ShowsNothing(w)
    BY <1>2, <1>4, BrowserShows DEF Taken
  <2> HIDE DEF f, exposed, errors
  <2> QED BY <1>a, <2>2, <2>3, <2>4, <2>5 DEF Justified
<1>5. CASE Relevant(check, obs) # {} /\ check = "preferences"
  <2> DEFINE bad == LegacyTls(obs) \cup EnterpriseRoots(obs)
  <2>1. f = PreferencesFinding(obs)
    BY <1>5 DEF BrowserFinding, FirefoxChecks
  <2>2. bad # {} => f.status \in {"fail", "review"}
    <3>1. CASE LegacyTls(obs) # {}
      BY <2>1, <3>1 DEF PreferencesFinding, Finding
    <3>2. CASE LegacyTls(obs) = {} /\ EnterpriseRoots(obs) # {}
      BY <2>1, <3>2 DEF PreferencesFinding, Finding
    <3> QED BY <3>1, <3>2
  <2>3. bad = {} => /\ f.status \in {"unknown", "pass"}
                    /\ f.status = "pass" => Unread(obs) = {}
    BY <2>1 DEF PreferencesFinding, Finding, Unknown
  <2>4. bad # {} <=> \E w \in Observed : ShowsViolation(w)
    <3>1. \A w \in bad : w \in DOMAIN obs /\ w.call = "read"
      BY DEF LegacyTls, EnterpriseRoots, ReadTexts, Taken
    <3>2. \A w \in DOMAIN obs : ShowsViolation(w) <=> w \in bad
      BY <1>5, BrowserShows
    <3> HIDE DEF bad
    <3> QED BY <1>1, <1>2, <3>1, <3>2
  <2>5. Unread(obs) = {} => \A w \in Observed : ~ShowsNothing(w)
    BY <1>2, <1>5, BrowserShows
  <2> HIDE DEF f, bad
  <2> QED BY <1>a, <2>2, <2>3, <2>4, <2>5 DEF Justified
<1>6. CASE Relevant(check, obs) # {} /\ check = "https-only"
  <2> DEFINE set(value) == {w \in ReadTexts(obs) : Preference(obs[w].text, "https") = value}
             unknown    == Taken(obs, "read") \ (set("true") \cup set("false"))
  <2>1. f = HttpsOnlyFinding(obs)
    BY <1>6 DEF BrowserFinding, FirefoxChecks
  <2>2. set("false") # {} => f.status = "fail"
    BY <2>1 DEF HttpsOnlyFinding, Finding
  <2>3. set("false") = {} => /\ f.status \in {"unknown", "pass"}
                             /\ f.status = "pass" => unknown = {}
    BY <2>1 DEF HttpsOnlyFinding, Finding, Unknown, Protected
  <2>4. set("false") # {} <=> \E w \in Observed : ShowsViolation(w)
    BY <1>1, <1>2, <1>6, BrowserShows DEF ReadTexts, Taken
  <2>5. unknown = {} => \A w \in Observed : ~ShowsNothing(w)
    BY <1>2, <1>6, BrowserShows DEF ReadTexts, Taken
  <2> HIDE DEF f, set, unknown
  <2> QED BY <1>a, <2>2, <2>3, <2>4, <2>5 DEF Justified
<1>7. CASE Relevant(check, obs) # {} /\ check = "extensions"
  <2> DEFINE powers == UNION {obs[w].powers : w \in Manifests(obs)}
             errors == Taken(obs, "read") \ Manifests(obs)
  <2>1. f = Collected(powers, errors, "review", Severest(powers), Protected)
    BY <1>7 DEF BrowserFinding, FirefoxChecks, ExtensionsFinding
  <2>4. powers # {} <=> \E w \in Observed : ShowsViolation(w)
    <3>1. \A w \in Manifests(obs) : w \in DOMAIN obs /\ w.call = "read"
      BY DEF Manifests, Taken
    <3>2. \A w \in DOMAIN obs : ShowsViolation(w) <=> w \in Manifests(obs) /\ obs[w].powers # {}
      BY <1>7, BrowserShows
    <3>3. powers # {} <=> \E w \in Manifests(obs) : obs[w].powers # {}
      OBVIOUS
    <3> HIDE DEF powers
    <3> QED BY <1>1, <1>2, <3>1, <3>2, <3>3
  <2>5. errors = {} => \A w \in Observed : ~ShowsNothing(w)
    BY <1>2, <1>7, BrowserShows DEF Taken
  <2> HIDE DEF powers, errors
  <2>2. powers # {} => f.status = "review"
    BY <2>1, FoundDecides
  <2>3. powers = {} => /\ f.status \in {"unknown", "pass"}
                       /\ f.status = "pass" => errors = {}
    BY <2>1, FoundDecides DEF Unknown, Protected, Finding
  <2> HIDE DEF f
  <2> QED BY <1>a, <2>2, <2>3, <2>4, <2>5 DEF Justified
<1> QED BY <1>0, <1>3, <1>4, <1>5, <1>6, <1>7

(* A check that collects returns one finding, which follows from what it   *)
(* observed.                                                               *)
LEMMA VerdictJustified ==
    ASSUME Inductive, Shaped, check \in Collecting
    PROVE  \E f : Verdict = Single(f) /\ WellFormed(f) /\ Justified(f)
<1>0. check \in Checks
  BY DEF Inductive, Types
<1>1. CASE check \in PolicyChecks
  <2>1. Verdict = Single(SudoFinding(check, obs))
    BY <1>0, <1>1, VerdictOf DEF SudoChecks
  <2> QED BY <1>1, <2>1, PolicyFindingIs, PolicyJustified
<1>2. CASE check = ServicesCheck
  BY <1>0, <1>2, VerdictOf, ServicesWellFormed, ServicesJustified
<1>3. CASE check \in BrowserChecks
  BY <1>0, <1>3, VerdictOf, BrowserWellFormed, BrowserJustified
<1> QED BY <1>1, <1>2, <1>3 DEF Collecting

(* What the contract speaks of.                                            *)
ContractObs == [w \in Looks |-> SeenAs(w)]
ContractStatus == IF Running \/ check \notin Collecting THEN "none" ELSE findings[check].status

LEMMA SeenWhen ==
    ASSUME NEW w \in Looks
    PROVE  /\ w \notin DOMAIN obs => SeenAs(w) = "unseen"
           /\ w \in DOMAIN obs /\ check \in Collecting => SeenAs(w) \in {"safe", "unsafe", "blind", "gone"}
           /\ SeenAs(w) = "unsafe" <=> w \in Observed /\ check \in Collecting /\ ShowsViolation(w)
           /\ SeenAs(w) = "blind" => w \in Observed /\ check \in Collecting /\ ShowsNothing(w)
BY DEF SeenAs, Observed

LEMMA EndsWith ==
    ASSUME NEW f, findings' = Single(f), check' = check
    PROVE  ~Running' /\ (check \in Collecting => ContractStatus' = f.status)
<1>1. check \in DOMAIN findings' /\ findings'[check] = f
  BY DEF Single
<1>2. findings' # <<>>
  BY <1>1
<1> QED BY <1>1, <1>2 DEF Running, ContractStatus

(* One step of a scan is one of the contract, or none.                     *)
LEMMA StepImplements ==
    ASSUME Inductive, Shaped, Next
    PROVE  Contract!ContractNext \/ UNCHANGED <<ContractObs, ContractStatus>>
<1>1. ASSUME NEW w \in Ready, Take(w) PROVE Contract!ContractNext \/ UNCHANGED <<ContractObs, ContractStatus>>
  <2>1. w \notin DOMAIN obs
    BY ReadyIsFresh DEF Inductive, Types
  <2>2. check' = check /\ Running /\ Running' /\ Extended(obs, obs') /\ DOMAIN obs' = DOMAIN obs \cup {w}
    BY <1>1, <2>1 DEF Take, Noted, Extended, Running
  <2>3. ContractStatus = "none" /\ ContractStatus' = "none"
    BY <2>2 DEF ContractStatus
  <2>4. ASSUME NEW v \in Looks, v # w PROVE SeenAs(v)' = SeenAs(v)
    <3>1. CASE v \in DOMAIN obs
      BY <2>2, <3>1, SeenStands
    <3>2. CASE v \notin DOMAIN obs
      BY <2>2, <2>4, <3>2 DEF SeenAs
    <3> QED BY <3>1, <3>2
  <2>5. CASE w \in Looks /\ check \in Collecting
    <3>1. SeenAs(w) = "unseen" /\ SeenAs(w)' \in {"safe", "unsafe", "blind", "gone"}
      BY <2>1, <2>2, <2>5 DEF SeenAs
    <3>2. ContractObs' = [ContractObs EXCEPT ![w] = SeenAs(w)']
      BY <2>4, <2>5 DEF ContractObs
    <3>3. ContractObs[w] = "unseen" /\ ContractObs'[w] = SeenAs(w)'
      BY <2>5, <3>1 DEF ContractObs
    <3>4. Contract!Observe(w)
      BY <2>3, <3>1, <3>2, <3>3 DEF Contract!Observe, Contract!Observation, ContractObs, ContractStatus
    <3> QED BY <2>5, <3>4 DEF Contract!ContractNext
  <2>6. CASE w \notin Looks \/ check \notin Collecting
    <3>1. \A v \in Looks : SeenAs(v)' = SeenAs(v)
      BY <2>2, <2>4, <2>6 DEF SeenAs
    <3> QED BY <2>3, <3>1 DEF ContractObs
  <2> QED BY <2>5, <2>6
<1>2. ASSUME UNCHANGED <<check, obs>>, check \notin Collecting
      PROVE  UNCHANGED <<ContractObs, ContractStatus>>
  BY <1>2 DEF ContractObs, ContractStatus, SeenAs
<1>3. ASSUME UNCHANGED <<check, obs>> PROVE ContractObs' = ContractObs
  <2>1. \A v \in Looks : SeenAs(v)' = SeenAs(v)
    BY <1>3 DEF SeenAs, ShowsViolation, PolicyViolates, ShowsNothing, BrowserViolates
  <2> QED BY <2>1 DEF ContractObs
<1>4. ASSUME NEW w \in Ready, LookRaises(w), check \in Collecting PROVE Contract!ContractNext
  <2>1. UNCHANGED <<check, obs>> /\ Running /\ findings' = Single(Finding("error", "info", "high"))
    BY <1>4 DEF LookRaises, RunnerError
  <2>2. ContractStatus = "none" /\ ContractStatus' = "error"
    BY <1>4, <2>1, EndsWith DEF ContractStatus, Finding
  <2>3. Contract!Abort
    BY <1>3, <2>1, <2>2 DEF Contract!Abort, ContractObs, ContractStatus
  <2> QED BY <2>3 DEF Contract!ContractNext
<1>5. ASSUME Conclude, check \in Collecting PROVE Contract!ContractNext
  <2>1. UNCHANGED <<check, obs>> /\ Running /\ findings' = Verdict
    BY <1>5 DEF Conclude
  <2>2. PICK f : Verdict = Single(f) /\ WellFormed(f) /\ Justified(f)
    BY <1>5, VerdictJustified
  <2>3. ContractStatus = "none" /\ ContractStatus' = f.status /\ ContractObs' = ContractObs
    BY <1>3, <1>5, <2>1, <2>2, EndsWith DEF ContractStatus
  <2>4. Contract!Seen("unsafe") # {} <=> \E w \in Observed : ShowsViolation(w)
    BY <1>5, SeenWhen DEF Contract!Seen, Observed
  <2>5. (\A w \in Observed : ~ShowsNothing(w)) => Contract!Seen("blind") = {}
    BY SeenWhen DEF Contract!Seen
  <2>6. CASE f.status \in Positive
    <3>1. f.status \in Contract!Verdicts
      BY <2>2, <2>4, <2>6 DEF Justified, Positive, Contract!Verdicts
    <3>2. Contract!Conclude
      BY <2>3, <3>1 DEF Contract!Conclude, ContractObs, ContractStatus
    <3> QED BY <3>2 DEF Contract!ContractNext
  <2>7. CASE f.status = "pass"
    <3>1. Contract!Seen("unsafe") = {} /\ Contract!Seen("blind") = {}
      BY <2>2, <2>4, <2>5, <2>7 DEF Justified, Positive
    <3>2. f.status \in Contract!Verdicts
      BY <2>7, <3>1 DEF Contract!Verdicts
    <3>3. Contract!Conclude
      BY <2>3, <3>2 DEF Contract!Conclude, ContractObs, ContractStatus
    <3> QED BY <3>3 DEF Contract!ContractNext
  <2>8. CASE f.status \in {"unknown", "error", "not_applicable"}
    <3>1. Contract!Seen("unsafe") = {}
      BY <2>2, <2>4, <2>8 DEF Justified, Positive
    <3>2. Contract!Withdraw
      BY <2>3, <2>8, <3>1 DEF Contract!Withdraw, ContractObs, ContractStatus
    <3> QED BY <3>2 DEF Contract!ContractNext
  <2> QED BY <2>2, <2>6, <2>7, <2>8 DEF WellFormed, Positive
<1>6. ASSUME NEW o \in DOMAIN world, Change(o) PROVE UNCHANGED <<ContractObs, ContractStatus>>
  <2>1. UNCHANGED <<check, obs, findings>>
    BY <1>6 DEF Change
  <2> QED BY <1>3, <2>1 DEF ContractStatus, Running
<1>7. ASSUME UNCHANGED <<check, obs>> PROVE check \in Collecting \/ UNCHANGED <<ContractObs, ContractStatus>>
  BY <1>2, <1>7
<1> QED BY <1>1, <1>4, <1>5, <1>6, <1>7 DEF Next, CheckStep, LookRaises, Conclude

(* Each of the checks that collect from several places keeps the contract  *)
(* of a check, whatever changes while it looks: each look is observed once *)
(* and for good, a violation is reported exactly when one was observed,    *)
(* and a check that passes has seen everything it looked at                *)
(* (sudo_policy.py:26-55, 147-160, 323-350; systemd_execution.py:151-236;  *)
(* browser_permissions.py, browser_extensions.py, firefox_preferences.py). *)
THEOREM CollectingImplements == Spec => ImplementsContract
<1>1. Init => Contract!ContractInit
  <2> SUFFICES ASSUME Init PROVE Contract!ContractInit
    OBVIOUS
  <2>1. \A w \in Looks : SeenAs(w) = "unseen"
    BY DEF Init, SeenAs
  <2>2. Running
    BY DEF Init, Running
  <2> QED BY <2>1, <2>2 DEF Contract!ContractInit
<1>2. Inductive /\ Shaped /\ [Next]_vars
         => [Contract!ContractNext]_<<ContractObs, ContractStatus>>
  <2> SUFFICES ASSUME Inductive, Shaped, Next \/ UNCHANGED vars
               PROVE  Contract!ContractNext \/ UNCHANGED <<ContractObs, ContractStatus>>
    OBVIOUS
  <2>1. CASE UNCHANGED vars
    <3>1. \A v \in Looks : SeenAs(v)' = SeenAs(v)
      BY <2>1 DEF vars, SeenAs, ShowsViolation, PolicyViolates, ShowsNothing, BrowserViolates
    <3> QED BY <2>1, <3>1 DEF vars, ContractObs, ContractStatus, Running
  <2> QED BY <2>1, StepImplements
<1>3. Inductive /\ Shaped /\ [Next]_vars
         => [Contract!ContractNext]_<<[w \in Looks |-> SeenAs(w)],
               IF Running \/ check \notin Collecting THEN "none" ELSE findings[check].status>>
  BY <1>2 DEF ContractObs, ContractStatus
<1> QED
  BY <1>1, <1>3, MainInvariant, LooksAreShaped, PTL DEF Spec, ImplementsContract, Contract!ContractSpec

=============================================================================
