------------------------------- MODULE Browser -------------------------------
(***************************************************************************)
(* The checks of browser profiles (scanit/browser_profiles.py and the      *)
(* checks in browser_permissions.py, browser_extensions.py and             *)
(* firefox_preferences.py).                                                *)
(*                                                                         *)
(* Each of them first discovers the profiles below the home directory, and *)
(* then reads in each profile.  The browser may run meanwhile: profiles,   *)
(* preferences and extensions come, go and change between the steps.       *)
(***************************************************************************)
EXTENDS Evidence, SequencesExt

CONSTANTS
    Family,      \* [directory with profiles -> "chromium" or "firefox"]
    Profiles,    \* [directory with profiles -> the profiles there may be]
    Extensions,  \* [profile -> its directory of extensions]
    Extension    \* [directory of extensions -> the extensions there may be]

ProfileRoot == DOMAIN Family

ASSUME BrowserAssumption ==
    /\ DOMAIN Profiles = ProfileRoot
    /\ \A d \in ProfileRoot : \A p \in Profiles[d] : Extensions[p] \in DOMAIN Extension
    /\ ProfileRoot \cap DOMAIN Extension = {}
    /\ \A d \in DOMAIN Extension : \A r \in ProfileRoot : Extension[d] \cap Profiles[r] = {}

FirefoxChecks == {"preferences", "https-only"}

BrowserChecks == FirefoxChecks \cup {"profile-permissions", "extensions"}

Severest(severities) ==
    IF "high" \in severities THEN "high" ELSE IF "medium" \in severities THEN "medium" ELSE "low"

-----------------------------------------------------------------------------
(* The last line for a preference is the one that counts.                  *)
Preference(text, key) ==
    LET at == {i \in DOMAIN text : text[i][1] = key}
    IN  IF at = {} THEN "unset" ELSE text[CHOOSE i \in at : \A j \in at : j <= i][2]

-----------------------------------------------------------------------------
(* discover_browser_profiles.  A directory with profiles is tested before  *)
(* it is listed; listing one that has gone, or may not be read, raises.    *)
Directories(obs) == {w.at : w \in {v \in Taken(obs, "is_dir") : obs[v].kind \in {"dir", "unlistable"}}}

Entries(obs, d) == obs[Look("list", d)].entries

FoundProfiles(obs) ==
    {w.at : w \in {v \in Taken(obs, "is_profile") : obs[v].kind = "profile"}}

(* Directory after directory, and the entries of one before the next.      *)
DiscoveryLooks(obs) ==
    LET dirs   == Directories(obs) \cap ProfileRoot
        listed == {d \in dirs : Look("list", d) \in DOMAIN obs}
    IN  InOrder(Pending({Look("is_profile", p) : p \in UNION {Entries(obs, d) : d \in listed}}, obs),
        InOrder(Pending({Look("list", d) : d \in dirs}, obs),
                Pending({Look("is_dir", d) : d \in ProfileRoot}, obs)))

(* The profiles a check is about.                                          *)
ProfilesFor(c) ==
    UNION {Profiles[d] : d \in {r \in ProfileRoot : c \in FirefoxChecks => Family[r] = "firefox"}}

Relevant(c, obs) == FoundProfiles(obs) \cap ProfilesFor(c)

-----------------------------------------------------------------------------
(* _read_chromium_extensions, _read_firefox_extensions: an entry in which  *)
(* no manifest is found is passed over, and that includes a directory that *)
(* may not be searched; a manifest that cannot be read is an error.        *)
ExtensionLooks(obs) ==
    LET dirs   == {Extensions[p] : p \in FoundProfiles(obs)}
        opened == Directories(obs) \cap dirs
        listed == {d \in opened : Look("list", d) \in DOMAIN obs}
        found  == UNION {Entries(obs, d) : d \in listed}
        manifests == {e \in found : /\ Look("glob", e) \in DOMAIN obs
                                    /\ obs[Look("glob", e)].kind \in {"manifest", "broken"}}
    IN  InOrder(Pending({Look("read", e) : e \in manifests}, obs),
        InOrder(Pending({Look("glob", e) : e \in found}, obs),
        InOrder(Pending({Look("list", d) : d \in opened}, obs),
                Pending({Look("is_dir", d) : d \in dirs}, obs))))

ProfileLooks(c, obs) ==
    CASE c = "profile-permissions" -> Pending({Look("stat", p) : p \in Relevant(c, obs)}, obs)
      [] c \in FirefoxChecks       -> Pending({Look("read", p) : p \in Relevant(c, obs)}, obs)
      [] c = "extensions"          -> ExtensionLooks(obs)

BrowserReady(c, obs) == InOrder(DiscoveryLooks(obs), ProfileLooks(c, obs))

-----------------------------------------------------------------------------
(* Profiles and manifests that could be read, and those that could not.    *)
Readable(value) == value.kind = "profile" /\ value.readable

ReadTexts(obs) == {w \in Taken(obs, "read") : Readable(obs[w])}

Unread(obs) == Taken(obs, "read") \ ReadTexts(obs)

PermissionsFinding(obs) ==
    LET looked  == Taken(obs, "stat")
        exposed == {w \in looked : obs[w].kind # "absent" /\ obs[w].exposed}
        errors  == {w \in looked : obs[w].kind = "absent"}
    IN  CASE exposed # {}                   -> Finding("fail", "high", "high")
          [] exposed = {} /\ errors # {}    -> Finding("unknown", "info", "high")
          [] exposed = {} /\ errors = {}    -> Protected

LegacyTls(obs) == {w \in ReadTexts(obs) : Preference(obs[w].text, "tls.min") = "1"}
EnterpriseRoots(obs) == {w \in ReadTexts(obs) : Preference(obs[w].text, "roots") = "true"}

PreferencesFinding(obs) ==
    CASE LegacyTls(obs) # {} -> Finding("fail", "high", "medium")
      [] LegacyTls(obs) = {} /\ EnterpriseRoots(obs) # {} -> Finding("review", "medium", "medium")
      [] LegacyTls(obs) = {} /\ EnterpriseRoots(obs) = {} ->
            IF Unread(obs) # {} THEN Unknown ELSE Finding("pass", "info", "medium")

(* Mutant: a preference that is not set counts as enabled.                 *)
HttpsOnlyUnlessFalse(obs) ==
    IF \E w \in ReadTexts(obs) : Preference(obs[w].text, "https") = "false"
    THEN Finding("fail", "low", "high") ELSE Protected

HttpsOnlyFinding(obs) ==
    LET set(value) == {w \in ReadTexts(obs) : Preference(obs[w].text, "https") = value}
        unknown    == Taken(obs, "read") \ (set("true") \cup set("false"))
    IN  CASE set("false") # {} -> Finding("fail", "low", IF unknown # {} THEN "medium" ELSE "high")
          [] set("false") = {} /\ unknown = {}  -> Protected
          [] set("false") = {} /\ unknown # {}  -> Unknown

Manifests(obs) == {w \in Taken(obs, "read") : obs[w].kind = "manifest"}

ExtensionsFinding(obs) ==
    LET powers == UNION {obs[w].powers : w \in Manifests(obs)}
    IN  Collected(powers, Taken(obs, "read") \ Manifests(obs), "review", Severest(powers), Protected)

BrowserFinding(c, obs) ==
    IF Relevant(c, obs) = {} THEN Nothing("high")
    ELSE CASE c = "profile-permissions" -> PermissionsFinding(obs)
           [] c = "preferences"         -> PreferencesFinding(obs)
           [] c = "https-only"          -> HttpsOnlyFinding(obs)
           [] c = "extensions"          -> ExtensionsFinding(obs)

=============================================================================
