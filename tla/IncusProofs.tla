---------------------------- MODULE IncusProofs -----------------------------
(***************************************************************************)
(* The Incus client: the images it serves and the guests it starts from    *)
(* them, and the commands that run in guests.                              *)
(***************************************************************************)
EXTENDS IncusCatalog, IncusGuests, GuestExec, TLAPS

-----------------------------------------------------------------------------
(***************************************************************************)
(* For any catalogs, digests and images: whatever a start finds of earlier *)
(* ones, and wherever it fails or dies, an image that cannot pass its      *)
(* smoke checks is neither promoted nor served, and smoke guests stay      *)
(* behind only where a start failed or died.                               *)
(***************************************************************************)

\* What is recorded on the images was checked, and so is what a start goes on with.
Recorded(i) == \A f \in Fingerprints : i[f] \in Digests => f \notin Broken

PromotedOK(m) == \A a \in Aliases : Promoted(a) => m[a] \notin Broken

InHand ==
    /\ step \in {"create", "smoke", "checks", "clean", "record", "promote"} => found \in Fingerprints
    /\ step \in {"clean"} /\ passed => found \notin Broken
    /\ step \in {"record", "promote"} => found \notin Broken
    /\ step \in {"import", "create", "smoke", "checks", "clean", "record", "promote"}
          => Entry.kind = "digest"
    /\ step \in {"checks", "clean"} => smokes >= 1

CatalogInv == CatalogTypeOK /\ OnlySmoked /\ NoStraySmoke /\ Recorded(images) /\ InHand

LEMMA EntryIsOne == ASSUME CatalogTypeOK, phase = "starting" PROVE Entry \in Entries
<1>1. release \in Releases /\ todo \in 1..Len(CatalogOf[release])
  BY DEF CatalogTypeOK
<1>2. CatalogOf[release] \in Seq(Entries)
  BY <1>1, CatalogTypes
<1> QED
  BY <1>1, <1>2 DEF Entry

LEMMA Unbroken == NoImage \notin Broken /\ Upstream \notin Broken
BY CatalogTypes

LEMMA CatalogInitInv == CatalogInit => CatalogInv
<1> SUFFICES ASSUME CatalogInit PROVE CatalogInv
  OBVIOUS
<1>1. CatalogTypeOK
  <2>1. /\ served \in [Aliases -> Fingerprints \cup {Upstream, NoImage}]
        /\ images \in [Fingerprints -> Digests \cup {NoDigest, "missing"}]
        /\ aliases \in [Aliases -> Fingerprints \cup {NoImage}]
    BY DEF CatalogInit, NoneServed
  <2>2. /\ phase = "down" /\ release = NoRelease /\ todo = 0 /\ step = "none"
        /\ found = NoImage /\ smokes = 0 /\ imports = 0 /\ faults = 0
    BY DEF CatalogInit
  <2>3. passed \in BOOLEAN
    BY DEF CatalogInit
  <2> QED
    BY <2>1, <2>2, <2>3, CatalogTypes DEF CatalogTypeOK, Steps
<1>2. OnlySmoked
  BY Unbroken DEF CatalogInit, OnlySmoked, NoneServed
<1>3. NoStraySmoke
  BY DEF CatalogInit, NoStraySmoke
<1>4. Recorded(images)
  BY CatalogTypes DEF CatalogInit, Recorded
<1>5. InHand
  BY DEF CatalogInit, InHand
<1> QED
  BY <1>1, <1>2, <1>3, <1>4, <1>5 DEF CatalogInv

\* A start that is over, whatever it left in the project.
LEMMA DownInv ==
    ASSUME CatalogInv, GiveUp,
           images' \in [Fingerprints -> Digests \cup {NoDigest, "missing"}], Recorded(images'),
           aliases' \in [Aliases -> Fingerprints \cup {NoImage}], PromotedOK(aliases'),
           smokes' \in Nat, faults' \in 0..MaxFaults, smokes' <= faults',
           imports' = imports
    PROVE  CatalogInv'
<1>1. CatalogTypeOK'
  <2>1. served' \in [Aliases -> Fingerprints \cup {Upstream, NoImage}]
    BY DEF GiveUp, NoneServed
  <2>2. /\ phase' = "down" /\ release' = NoRelease /\ todo' = 0 /\ step' = "none"
        /\ found' = NoImage
    BY DEF GiveUp
  <2>3. passed' \in BOOLEAN
    BY DEF GiveUp
  <2>4. imports' \in 0..MaxImports
    BY DEF CatalogInv, CatalogTypeOK
  <2> QED
    BY <2>1, <2>2, <2>3, <2>4 DEF CatalogTypeOK, Steps
<1>2. OnlySmoked'
  BY Unbroken DEF OnlySmoked, PromotedOK, Promoted, GiveUp, NoneServed
<1>3. NoStraySmoke' /\ InHand'
  <2>1. step' = "none"
    BY DEF GiveUp
  <2>2. faults' \in Nat
    BY CatalogTypes
  <2>3. PICK n \in Nat, k \in Nat : smokes' = n /\ faults' = k /\ n <= k
    BY <2>2
  <2>4. NoStraySmoke'
    BY <2>1, <2>3 DEF NoStraySmoke
  <2>5. InHand'
    BY <2>1 DEF InHand
  <2> QED
    BY <2>4, <2>5
<1> QED
  BY <1>1, <1>2, <1>3 DEF CatalogInv, Recorded

\* An entry that is ensured.
LEMMA EnsuredInv ==
    ASSUME CatalogInv, phase = "starting", step \notin {"checks", "clean"},
           NEW f \in Fingerprints \cup {Upstream}, Ensured(f),
           Promoted(Entry.name) => f \notin Broken,
           aliases' \in [Aliases -> Fingerprints \cup {NoImage}], PromotedOK(aliases'),
           UNCHANGED <<images, smokes, imports, faults>>
    PROVE  CatalogInv'
<1>1. Entry \in Entries /\ Entry.name \in Aliases
  BY EntryIsOne DEF CatalogInv, Entries
<1>2. served' = [served EXCEPT ![Entry.name] = f]
  BY DEF Ensured
<1>3. served' \in [Aliases -> Fingerprints \cup {Upstream, NoImage}]
  BY <1>1, <1>2 DEF CatalogInv, CatalogTypeOK
<1>4. /\ phase' \in {"starting", "serving"} /\ release' = release /\ release \in Releases
      /\ step' \in {"none", "resolve"} /\ (phase' = "starting" <=> step' # "none")
      /\ todo' \in Nat /\ (phase' = "starting" => todo' \in 1..Len(CatalogOf[release]))
  <2>1. release \in Releases /\ todo \in 1..Len(CatalogOf[release])
    BY DEF CatalogInv, CatalogTypeOK
  <2>2. Len(CatalogOf[release]) \in Nat
    BY <2>1, CatalogTypes
  <2> QED
    BY <2>1, <2>2 DEF Ensured
<1>5. CatalogTypeOK'
  BY <1>3, <1>4 DEF CatalogInv, CatalogTypeOK, Ensured, Steps
<1>6. OnlySmoked'
  BY <1>1, <1>2 DEF CatalogInv, CatalogTypeOK, OnlySmoked, PromotedOK, Promoted
<1>7. NoStraySmoke'
  BY <1>4 DEF CatalogInv, CatalogTypeOK, NoStraySmoke
<1>8. InHand'
  BY <1>4 DEF InHand
<1> QED
  BY <1>5, <1>6, <1>7, <1>8 DEF CatalogInv, Recorded

\* A step on, within the entry.
LEMMA GotoInv ==
    ASSUME CatalogInv, phase = "starting",
           NEW s \in Steps \ {"none"}, Goto(s),
           found' \in Fingerprints \cup {NoImage}, passed' \in BOOLEAN,
           images' \in [Fingerprints -> Digests \cup {NoDigest, "missing"}], Recorded(images'),
           smokes' \in Nat, NoStraySmoke', InHand',
           UNCHANGED <<aliases, imports, faults>>
    PROVE  CatalogInv'
<1>1. CatalogTypeOK'
  BY DEF CatalogInv, CatalogTypeOK, Goto
<1>2. OnlySmoked'
  BY DEF CatalogInv, OnlySmoked, Promoted, Goto
<1> QED
  BY <1>1, <1>2 DEF CatalogInv, Recorded

-----------------------------------------------------------------------------
LEMMA StartInv == ASSUME CatalogInv, NEW r \in Releases, Start(r) PROVE CatalogInv'
<1>1. CatalogOf[r] \in Seq(Entries) /\ (CatalogOf[r] # <<>> => 1 \in 1..Len(CatalogOf[r]))
  BY CatalogTypes
<1>2. step = "none" /\ step' \in {"none", "resolve"}
  BY DEF Start, CatalogInv, CatalogTypeOK
<1>3. CatalogTypeOK'
  BY <1>1, <1>2 DEF Start, CatalogInv, CatalogTypeOK, Steps, project
<1>4. OnlySmoked'
  BY DEF Start, CatalogInv, OnlySmoked, Promoted, project
<1>5. NoStraySmoke' /\ InHand' /\ Recorded(images')
  BY <1>2 DEF Start, CatalogInv, CatalogTypeOK, NoStraySmoke, InHand, Recorded, project
<1> QED
  BY <1>3, <1>4, <1>5 DEF CatalogInv, Recorded

\* What the project holds does for the types and for a start that gives up.
LEMMA ProjectFacts ==
    ASSUME CatalogInv
    PROVE  /\ images \in [Fingerprints -> Digests \cup {NoDigest, "missing"}] /\ Recorded(images)
           /\ aliases \in [Aliases -> Fingerprints \cup {NoImage}] /\ PromotedOK(aliases)
           /\ smokes \in Nat /\ faults \in 0..MaxFaults /\ MaxFaults \in Nat
           /\ step \notin {"checks", "clean"} => smokes <= faults
           /\ step \in {"checks", "clean"} => smokes <= faults + 1
BY CatalogTypes DEF CatalogInv, CatalogTypeOK, OnlySmoked, PromotedOK, NoStraySmoke

LEMMA ResolveInv == ASSUME CatalogInv, Resolve PROVE CatalogInv'
<1> DEFINE f == aliases[Entry.name]
<1>1. phase = "starting" /\ step = "resolve"
  BY DEF Resolve, CatalogInv, CatalogTypeOK
<1>2. Entry \in Entries /\ Entry.name \in Aliases
  BY <1>1, EntryIsOne DEF CatalogInv, Entries
<1>3. f \in Fingerprints \cup {NoImage}
  BY <1>2, ProjectFacts
<1>4. UNCHANGED <<images, aliases, smokes, imports, faults>>
  BY DEF Resolve, project
<1>5. ASSUME GiveUp PROVE CatalogInv'
  BY <1>1, <1>4, <1>5, ProjectFacts, DownInv
<1>6. ASSUME NEW g \in Fingerprints \cup {Upstream}, Ensured(g), Promoted(Entry.name) => g \notin Broken
      PROVE  CatalogInv'
  BY <1>1, <1>4, <1>6, ProjectFacts, EnsuredInv
<1>7. CASE Entry.kind = "alias"
  <2>1. Entry.name \in KeptByBuilds
    BY <1>1, <1>2, <1>7 DEF CatalogInv, CatalogTypeOK, KeptByBuilds, Entry
  <2> QED
    BY <1>3, <1>5, <1>6, <1>7, <2>1 DEF Resolve, Promoted
<1>8. CASE Entry.kind = "upstream"
  BY <1>6, <1>8, Unbroken DEF Resolve
<1>9. CASE Entry.kind = "digest" /\ f # NoImage /\ images[f] = Entry.digest
  <2>1. f \in Fingerprints /\ f \notin Broken
    BY <1>2, <1>3, <1>9, ProjectFacts DEF Recorded, Entries
  <2> QED
    BY <1>6, <1>9, <2>1 DEF Resolve
<1>10. CASE Entry.kind = "digest" /\ ~(f # NoImage /\ images[f] = Entry.digest)
  <2>1. Goto("import") /\ found' = found /\ passed' = passed
    BY <1>10 DEF Resolve
  <2>2. NoStraySmoke' /\ InHand'
    BY <1>1, <1>4, <1>10, <2>1, ProjectFacts DEF NoStraySmoke, InHand, Goto, Entry
  <2>3. "import" \in Steps \ {"none"} /\ found' \in Fingerprints \cup {NoImage} /\ passed' \in BOOLEAN
    BY <2>1 DEF Steps, CatalogInv, CatalogTypeOK
  <2> QED
    BY <1>1, <1>4, <2>1, <2>2, <2>3, ProjectFacts, GotoInv
<1>11. Entry.kind \in {"alias", "digest", "upstream"}
  BY <1>2 DEF Entries
<1> QED
  BY <1>7, <1>8, <1>9, <1>10, <1>11

LEMMA ImportInv == ASSUME CatalogInv, Import PROVE CatalogInv'
<1>1. phase = "starting" /\ step = "import" /\ UNCHANGED <<passed, images, aliases, smokes, imports, faults>>
  BY DEF Import, CatalogInv, CatalogTypeOK, project
<1>2. Entry.digest \in Digests
  BY <1>1, EntryIsOne DEF CatalogInv, Entries
<1>3. PICK s \in {"smoke", "create"} : found' \in Fingerprints /\ Goto(s)
  BY <1>2, CatalogTypes DEF Import
<1>4. NoStraySmoke' /\ InHand'
  BY <1>1, <1>3, ProjectFacts DEF NoStraySmoke, InHand, Goto, Entry, CatalogInv
<1>5. s \in Steps \ {"none"} /\ passed' \in BOOLEAN
  BY <1>1 DEF Steps, CatalogInv, CatalogTypeOK
<1> QED
  BY <1>1, <1>3, <1>4, <1>5, ProjectFacts, GotoInv

\* An image that is added carries no digest.
LEMMA AddedUnrecorded ==
    ASSUME CatalogInv, NEW f \in Fingerprints,
           images' = [images EXCEPT ![f] = IF Present(f) THEN @ ELSE NoDigest]
    PROVE  images' \in [Fingerprints -> Digests \cup {NoDigest, "missing"}] /\ Recorded(images')
BY ProjectFacts, CatalogTypes DEF Recorded

LEMMA CreateImageInv == ASSUME CatalogInv, CreateImage PROVE CatalogInv'
<1>1. /\ phase = "starting" /\ step = "create" /\ found \in Fingerprints
      /\ UNCHANGED <<found, passed, aliases, smokes, imports, faults>>
  BY DEF CreateImage, CatalogInv, CatalogTypeOK, InHand
<1>2. Goto("smoke") /\ images' = [images EXCEPT ![found] = IF Present(found) THEN @ ELSE NoDigest]
  BY DEF CreateImage
<1>3. images' \in [Fingerprints -> Digests \cup {NoDigest, "missing"}] /\ Recorded(images')
  BY <1>1, <1>2, AddedUnrecorded
<1>4. NoStraySmoke' /\ InHand'
  BY <1>1, <1>2, ProjectFacts DEF NoStraySmoke, InHand, Goto, Entry, CatalogInv
<1>5. "smoke" \in Steps \ {"none"} /\ found' \in Fingerprints \cup {NoImage} /\ passed' \in BOOLEAN
  BY <1>1 DEF Steps, CatalogInv, CatalogTypeOK
<1> QED
  BY <1>1, <1>2, <1>3, <1>4, <1>5, ProjectFacts, GotoInv

LEMMA SmokeLaunchInv == ASSUME CatalogInv, SmokeLaunch PROVE CatalogInv'
<1>1. /\ phase = "starting" /\ step = "smoke" /\ Goto("checks") /\ smokes' = smokes + 1
      /\ UNCHANGED <<found, passed, images, aliases, imports, faults>>
  BY DEF SmokeLaunch, CatalogInv, CatalogTypeOK
<1>2. NoStraySmoke' /\ InHand'
  BY <1>1, ProjectFacts DEF NoStraySmoke, InHand, Goto, Entry, CatalogInv
<1>3. "checks" \in Steps \ {"none"} /\ found' \in Fingerprints \cup {NoImage} /\ passed' \in BOOLEAN
  BY <1>1 DEF Steps, CatalogInv, CatalogTypeOK
<1>4. smokes' \in Nat
  BY <1>1, ProjectFacts
<1> QED
  BY <1>1, <1>2, <1>3, <1>4, ProjectFacts, GotoInv

LEMMA ChecksInv == ASSUME CatalogInv, Checks PROVE CatalogInv'
<1>1. /\ phase = "starting" /\ step = "checks" /\ Goto("clean")
      /\ passed' \in Verdicts /\ UNCHANGED <<found, images, aliases, smokes, imports, faults>>
  BY DEF Checks, CatalogInv, CatalogTypeOK, project
<1>2. passed' \in BOOLEAN /\ (passed' => found \notin Broken)
  BY <1>1 DEF Verdicts
<1>3. NoStraySmoke' /\ InHand'
  BY <1>1, <1>2, ProjectFacts DEF NoStraySmoke, InHand, Goto, Entry, CatalogInv
<1>4. "clean" \in Steps \ {"none"} /\ found' \in Fingerprints \cup {NoImage}
  BY <1>1 DEF Steps, CatalogInv, CatalogTypeOK
<1> QED
  BY <1>1, <1>2, <1>3, <1>4, ProjectFacts, GotoInv

LEMMA CleanInv == ASSUME CatalogInv, Clean PROVE CatalogInv'
<1>1. /\ phase = "starting" /\ step = "clean" /\ smokes' = smokes - 1 /\ smokes >= 1
      /\ UNCHANGED <<images, aliases, imports, faults>>
  BY DEF Clean, CatalogInv, CatalogTypeOK, InHand
<1>2. smokes' \in Nat /\ smokes' <= faults' /\ faults' \in 0..MaxFaults
  BY <1>1, ProjectFacts
<1>3. CASE ~passed
  BY <1>1, <1>2, <1>3, ProjectFacts, DownInv DEF Clean
<1>4. CASE passed
  <2>1. Goto("record") /\ found' = found /\ passed' = passed
    BY <1>4 DEF Clean
  <2>2. NoStraySmoke' /\ InHand'
    BY <1>1, <1>2, <1>4, <2>1 DEF NoStraySmoke, InHand, Goto, Entry, CatalogInv
  <2>3. "record" \in Steps \ {"none"} /\ found' \in Fingerprints \cup {NoImage} /\ passed' \in BOOLEAN
    BY <2>1 DEF Steps, CatalogInv, CatalogTypeOK
  <2> QED
    BY <1>1, <1>2, <2>1, <2>2, <2>3, ProjectFacts, GotoInv
<1> QED
  BY <1>3, <1>4

\* The digest of an entry, written on a checked image.
LEMMA RecordedChecked ==
    ASSUME CatalogInv, step \in {"record"}, images' = [images EXCEPT ![found] = Entry.digest]
    PROVE  images' \in [Fingerprints -> Digests \cup {NoDigest, "missing"}] /\ Recorded(images')
<1>1. phase = "starting" /\ found \in Fingerprints /\ found \notin Broken
  BY DEF CatalogInv, CatalogTypeOK, InHand
<1>2. Entry.digest \in Digests
  BY <1>1, EntryIsOne DEF CatalogInv, Entries
<1> QED
  BY <1>1, <1>2, ProjectFacts DEF Recorded

LEMMA RecordDigestInv == ASSUME CatalogInv, RecordDigest PROVE CatalogInv'
<1>1. phase = "starting" /\ step = "record" /\ UNCHANGED <<aliases, smokes, imports, faults>>
  BY DEF RecordDigest, CatalogInv, CatalogTypeOK
<1>2. CASE GiveUp /\ images' = images
  BY <1>1, <1>2, ProjectFacts, DownInv
<1>3. CASE images' = [images EXCEPT ![found] = Entry.digest] /\ Goto("promote")
           /\ UNCHANGED <<found, passed>>
  <2>1. images' \in [Fingerprints -> Digests \cup {NoDigest, "missing"}] /\ Recorded(images')
    BY <1>1, <1>3, RecordedChecked
  <2>2. NoStraySmoke' /\ InHand'
    BY <1>1, <1>3, ProjectFacts DEF NoStraySmoke, InHand, Goto, Entry, CatalogInv
  <2>3. "promote" \in Steps \ {"none"} /\ found' \in Fingerprints \cup {NoImage} /\ passed' \in BOOLEAN
    BY <1>3 DEF Steps, CatalogInv, CatalogTypeOK
  <2> QED
    BY <1>1, <1>3, <2>1, <2>2, <2>3, ProjectFacts, GotoInv
<1> QED
  BY <1>2, <1>3 DEF RecordDigest

\* An alias moved to a checked image.
LEMMA PromotedChecked ==
    ASSUME CatalogInv, step \in {"promote"}, aliases' = [aliases EXCEPT ![Entry.name] = found]
    PROVE  aliases' \in [Aliases -> Fingerprints \cup {NoImage}] /\ PromotedOK(aliases')
<1>1. phase = "starting" /\ found \in Fingerprints /\ found \notin Broken
  BY DEF CatalogInv, CatalogTypeOK, InHand
<1>2. Entry.name \in Aliases
  BY <1>1, EntryIsOne DEF CatalogInv, Entries
<1> QED
  BY <1>1, <1>2, ProjectFacts DEF PromotedOK

LEMMA PromoteAliasInv == ASSUME CatalogInv, PromoteAlias PROVE CatalogInv'
<1>1. /\ phase = "starting" /\ step = "promote" /\ found \in Fingerprints /\ found \notin Broken
      /\ aliases' = [aliases EXCEPT ![Entry.name] = found] /\ Ensured(found)
      /\ UNCHANGED <<images, smokes, imports, faults>>
  BY DEF PromoteAlias, CatalogInv, CatalogTypeOK, InHand
<1> QED
  BY <1>1, PromotedChecked, EnsuredInv

-----------------------------------------------------------------------------
\* A failed call, its effect made or not.
LEMMA StartFailsInv == ASSUME CatalogInv, StartFails PROVE CatalogInv'
<1>1. /\ phase = "starting" /\ step # "checks" /\ GiveUp /\ imports' = imports
      /\ faults' = faults + 1 /\ faults < MaxFaults
  BY DEF StartFails
<1>2. faults' \in 0..MaxFaults /\ smokes <= faults'
  BY <1>1, ProjectFacts
<1>3. CASE UNCHANGED project
  BY <1>1, <1>2, <1>3, ProjectFacts, DownInv DEF project
<1>4. CASE /\ step = "create" /\ UNCHANGED <<aliases, smokes>>
           /\ images' = [images EXCEPT ![found] = IF Present(found) THEN @ ELSE NoDigest]
  <2>1. found \in Fingerprints
    BY <1>4 DEF CatalogInv, InHand
  <2>2. images' \in [Fingerprints -> Digests \cup {NoDigest, "missing"}] /\ Recorded(images')
    BY <1>4, <2>1, AddedUnrecorded
  <2> QED
    BY <1>1, <1>2, <1>4, <2>2, ProjectFacts, DownInv
<1>5. CASE step = "smoke" /\ smokes' = smokes + 1 /\ UNCHANGED <<images, aliases>>
  <2>1. smokes' \in Nat /\ smokes' <= faults'
    BY <1>1, <1>5, ProjectFacts
  <2> QED
    BY <1>1, <1>2, <1>5, <2>1, ProjectFacts, DownInv
<1>6. CASE /\ step = "record" /\ UNCHANGED <<aliases, smokes>>
           /\ images' = [images EXCEPT ![found] = Entry.digest]
  <2>1. images' \in [Fingerprints -> Digests \cup {NoDigest, "missing"}] /\ Recorded(images')
    BY <1>6, RecordedChecked
  <2> QED
    BY <1>1, <1>2, <1>6, <2>1, ProjectFacts, DownInv
<1>7. CASE /\ step = "promote" /\ UNCHANGED <<images, smokes>>
           /\ aliases' = [aliases EXCEPT ![Entry.name] = found]
  <2>1. aliases' \in [Aliases -> Fingerprints \cup {NoImage}] /\ PromotedOK(aliases')
    BY <1>7, PromotedChecked
  <2> QED
    BY <1>1, <1>2, <1>7, <2>1, ProjectFacts, DownInv
<1>8. CASE step = "clean" /\ smokes' = smokes - 1 /\ UNCHANGED <<images, aliases>>
  <2>1. smokes' \in Nat /\ smokes' <= faults'
    BY <1>1, <1>8, ProjectFacts DEF CatalogInv, InHand
  <2> QED
    BY <1>1, <1>2, <1>8, <2>1, ProjectFacts, DownInv
<1> QED
  BY <1>3, <1>4, <1>5, <1>6, <1>7, <1>8 DEF StartFails

LEMMA CrashInv == ASSUME CatalogInv, Crash PROVE CatalogInv'
<1>1. /\ GiveUp /\ UNCHANGED <<images, aliases, smokes, imports>>
      /\ faults' = faults + 1 /\ faults < MaxFaults
  BY DEF Crash, project
<1>2. faults' \in 0..MaxFaults /\ smokes' <= faults' /\ smokes' \in Nat
  BY <1>1, ProjectFacts
<1> QED
  BY <1>1, <1>2, ProjectFacts, DownInv

LEMMA BuildImportsInv ==
    ASSUME CatalogInv, NEW f \in Fingerprints, BuildImports(f) PROVE CatalogInv'
<1>1. /\ images' = [images EXCEPT ![f] = IF Present(f) THEN @ ELSE NoDigest]
      /\ UNCHANGED <<phase, release, todo, step, found, passed, served, smokes, faults>>
      /\ imports' = imports + 1 /\ imports < MaxImports
  BY DEF BuildImports, server
<1>2. images' \in [Fingerprints -> Digests \cup {NoDigest, "missing"}] /\ Recorded(images')
  BY <1>1, AddedUnrecorded
<1>3. aliases' \in [Aliases -> Fingerprints \cup {NoImage}] /\ PromotedOK(aliases')
  BY ProjectFacts DEF BuildImports, PromotedOK, Promoted, KeptByBuilds
<1>4. imports' \in 0..MaxImports
  BY <1>1, CatalogTypes DEF CatalogInv, CatalogTypeOK
<1>5. CatalogTypeOK'
  BY <1>1, <1>2, <1>3, <1>4 DEF CatalogInv, CatalogTypeOK
<1>6. OnlySmoked'
  BY <1>1, <1>3 DEF CatalogInv, OnlySmoked, PromotedOK, Promoted
<1>7. NoStraySmoke' /\ InHand'
  BY <1>1 DEF CatalogInv, NoStraySmoke, InHand, Entry
<1> QED
  BY <1>2, <1>5, <1>6, <1>7 DEF CatalogInv, Recorded

LEMMA CatalogStutter == ASSUME CatalogInv, UNCHANGED catalogVars PROVE CatalogInv'
<1>1. CatalogTypeOK'
  BY DEF CatalogInv, CatalogTypeOK, catalogVars, server, project
<1>2. OnlySmoked' /\ NoStraySmoke' /\ Recorded(images') /\ InHand'
  BY DEF CatalogInv, OnlySmoked, Promoted, NoStraySmoke, Recorded, InHand, Entry,
         catalogVars, server, project
<1> QED
  BY <1>1, <1>2 DEF CatalogInv

LEMMA CatalogNextInv == CatalogInv /\ [CatalogNext]_catalogVars => CatalogInv'
BY StartInv, ResolveInv, ImportInv, CreateImageInv, SmokeLaunchInv, ChecksInv, CleanInv,
   RecordDigestInv, PromoteAliasInv, StartFailsInv, CrashInv, BuildImportsInv, CatalogStutter
   DEF CatalogNext, Reconcile

LEMMA CatalogInvAlways == CatalogSpec => []CatalogInv
<1>1. CatalogInv /\ [CatalogNext]_catalogVars => CatalogInv'
  BY CatalogNextInv
<1> QED
  BY <1>1, CatalogInitInv, PTL DEF CatalogSpec

\* Whatever earlier starts left, of whatever catalogs, and wherever they failed: an
\* alias the server promotes and an image it serves have passed their smoke checks.
THEOREM OnlySmokedAlways == CatalogSpec => []OnlySmoked
<1>1. CatalogInv => OnlySmoked
  BY DEF CatalogInv
<1> QED
  BY <1>1, CatalogInvAlways, PTL

\* A smoke guest is deleted whatever its checks came to: each one left behind is of
\* a start that failed at a call or died.
THEOREM NoStraySmokeAlways == CatalogSpec => []NoStraySmoke
<1>1. CatalogInv => NoStraySmoke
  BY DEF CatalogInv
<1> QED
  BY <1>1, CatalogInvAlways, PTL

-----------------------------------------------------------------------------
(***************************************************************************)
(* For any limit on the output and any number of chunks: what Exec returns *)
(* is final and complete.  What is kept counts the chunks delivered while  *)
(* the writer is attached; a copy that ended by itself has delivered them  *)
(* all, and only a command that is over lets it.                           *)
(***************************************************************************)

Gone == caller \in {"detached", "returned"}

\* The writer is there until the streams are detached.
AttachedUntil == attached = ~Gone

\* drainingWriter, of the chunks it was given.
Counts(n) == kept = (IF n < Limit THEN n ELSE Limit) /\ (truncated <=> n > Limit)
Counted == attached /\ use = "exec" => Counts(produced - inFlight)

AllOut == command \in Ended /\ inFlight = 0

\* The copy ended by itself.
CopyWhole == copier = "done" /\ ~Gone /\ broken # "output" => AllOut

\* No error is in hand: it is an Exec, and its copy ended by itself.
Whole ==
    /\ caller \in {"waiting", "draining"} => use = "exec"
    /\ /\ caller \in {"detaching", "detached"} /\ failure = "none" /\ broken # "output"
       => use = "exec" /\ AllOut /\ Counts(produced)

Reported ==
    caller = "returned" =>
        /\ result.kept = kept /\ result.truncated = truncated
        /\ result.is = "ok" /\ broken # "output" => AllOut /\ Counts(produced)

ContextInHand == failure = "context" => context # "live"

ExecInv ==
    ExecTypeOK /\ AttachedUntil /\ Counted /\ CopyWhole /\ Whole /\ Reported /\ ContextInHand

LEMMA ExecInitInv == ExecInit => ExecInv
<1> SUFFICES ASSUME ExecInit PROVE ExecInv
  OBVIOUS
<1>1. ExecTypeOK
  <2>1. attached \in BOOLEAN /\ truncated \in BOOLEAN
    BY DEF ExecInit
  <2>2. result \in [is : {"nothing", "ok", "timeout", "cancelled", "error"},
                    kept : 0..Limit, truncated : BOOLEAN]
    <3>1. 0 \in 0..Limit
      BY Chunks
    <3> QED
      BY <3>1 DEF ExecInit, Nothing
  <2>3. /\ via \in {"incus", "ssh"} /\ use \in {"exec", "stream"}
        /\ caller = "start" /\ context = "live" /\ failure = "none" /\ command = "none"
        /\ copier = "none" /\ control = "none" /\ reader = "reading" /\ broken = "none"
    BY DEF ExecInit
  <2>4. produced = 0 /\ inFlight = 0 /\ kept = 0
    BY DEF ExecInit
  <2>5. produced \in 0..MaxOutput /\ inFlight \in 0..produced /\ kept \in 0..Limit
    BY <2>4, Chunks
  <2> QED
    BY <2>1, <2>2, <2>3, <2>5 DEF ExecTypeOK
<1>2. AttachedUntil /\ CopyWhole /\ Whole /\ Reported /\ ContextInHand
  BY DEF ExecInit, AttachedUntil, CopyWhole, Whole, Reported, ContextInHand, Gone
<1>3. Counted
  <2>1. produced = 0 /\ inFlight = 0 /\ kept = 0 /\ ~truncated
    BY DEF ExecInit
  <2> QED
    BY <2>1, Chunks DEF Counted, Counts
<1> QED
  BY <1>1, <1>2, <1>3 DEF ExecInv

-----------------------------------------------------------------------------
\* The steps that leave the output, the caller and what it returned alone.
LEMMA AsideInv ==
    ASSUME ExecInv, UNCHANGED <<via, use, caller, failure, output, result>>, ExecTypeOK',
           broken' = broken \/ broken = "none",
           context' = context \/ (context = "live" /\ context' # "live"),
           command \in Ended => command' \in Ended
    PROVE  ExecInv'
<1> USE DEF ExecInv, output
<1>1. AttachedUntil'
  BY DEF AttachedUntil, Gone
<1>2. Counted'
  BY DEF Counted, Counts
<1>3. CopyWhole'
  BY DEF CopyWhole, Gone, AllOut
<1>4. Whole'
  BY DEF Whole, AllOut, Counts
<1>5. Reported'
  BY DEF Reported, AllOut, Counts
<1>6. ContextInHand'
  BY DEF ContextInHand
<1> QED
  BY <1>1, <1>2, <1>3, <1>4, <1>5, <1>6

LEMMA AsideSteps ==
    ASSUME ExecInv,
           ContextEnds \/ Exit \/ Break \/ Pause \/ ReleaseReader \/ Control \/ KillGroup
    PROVE  ExecInv'
<1> USE DEF ExecInv
<1>1. UNCHANGED <<via, use, caller, failure, output, result>>
  BY DEF ContextEnds, Exit, Break, Pause, ReleaseReader, Control, KillGroup
<1>2. broken' = broken \/ broken = "none"
  BY DEF ContextEnds, Exit, Break, Pause, ReleaseReader, Control, KillGroup
<1>3. context' = context \/ (context = "live" /\ context' # "live")
  BY DEF ContextEnds, Exit, Break, Pause, ReleaseReader, Control, KillGroup
<1>4. command \in Ended => command' \in Ended
  BY DEF ContextEnds, Exit, Break, Pause, ReleaseReader, Control, KillGroup, Ended
<1>5. /\ context' \in {"live", "timeout", "cancelled"} /\ command' \in {"none", "running"} \cup Ended
      /\ control' \in {"none", "waiting", "done"} /\ reader' \in {"reading", "paused", "released"}
      /\ broken' \in Connections \cup {"none"}
  BY DEF ContextEnds, Exit, Break, Pause, ReleaseReader, Control, KillGroup, Ended, ExecTypeOK
<1>6. ExecTypeOK'
  BY <1>1, <1>5 DEF ExecTypeOK, output
<1> QED
  BY <1>1, <1>2, <1>3, <1>4, <1>6, AsideInv

\* A chunk more: a command that produces is not over.
LEMMA ProduceInv == ASSUME ExecInv, Produce PROVE ExecInv'
<1> USE DEF ExecInv
<1>1. /\ command = "running" /\ command' = command /\ command \notin Ended
      /\ UNCHANGED <<via, use, caller, context, failure, copier, control, attached, kept,
                     truncated, reader, broken, result>>
  BY DEF Produce, Ended
<1>2. produced \in Nat /\ inFlight \in Nat /\ MaxOutput \in Nat /\ inFlight <= produced
  BY Chunks DEF ExecTypeOK
<1>3. produced' = produced + 1 /\ inFlight' = inFlight + 1 /\ produced < MaxOutput
  BY DEF Produce
<1>4. ExecTypeOK'
  <2>1. produced' \in 0..MaxOutput /\ inFlight' \in 0..produced'
    BY <1>2, <1>3
  <2> QED
    BY <1>1, <2>1 DEF ExecTypeOK
<1>5. AttachedUntil'
  BY <1>1 DEF AttachedUntil, Gone
<1>6. Counted'
  <2>1. produced' - inFlight' = produced - inFlight
    BY <1>2, <1>3
  <2> QED
    BY <1>1, <2>1 DEF Counted, Counts
<1>7. CopyWhole' /\ Whole'
  BY <1>1 DEF CopyWhole, Whole, AllOut, Gone
<1>8. Reported' /\ ContextInHand'
  BY <1>1 DEF Reported, AllOut, ContextInHand
<1> QED
  BY <1>4, <1>5, <1>6, <1>7, <1>8

\* A chunk delivered is counted, or refused by the detached writer.
LEMMA DeliverInv == ASSUME ExecInv, Deliver PROVE ExecInv'
<1> USE DEF ExecInv
<1>1. /\ copier = "copying" /\ inFlight > 0 /\ inFlight' = inFlight - 1
      /\ UNCHANGED <<via, use, caller, context, failure, command, produced, copier, control,
                     attached, reader, broken, result>>
  BY DEF Deliver
<1>2. /\ produced \in Nat /\ inFlight \in Nat /\ MaxOutput \in Nat /\ inFlight <= produced
      /\ kept \in 0..Limit /\ Limit \in Nat
  BY Chunks DEF ExecTypeOK
<1>3. ~AllOut
  BY <1>1 DEF AllOut
<1>4. CASE use = "stream" \/ ~attached
  <2>1. kept' = kept /\ truncated' = truncated
    BY <1>4 DEF Deliver
  <2>2. inFlight' \in 0..produced'
    BY <1>1, <1>2
  <2>3. ExecTypeOK'
    BY <1>1, <2>1, <2>2 DEF ExecTypeOK
  <2>4. AttachedUntil' /\ ContextInHand'
    BY <1>1 DEF AttachedUntil, Gone, ContextInHand
  <2>5. Counted'
    BY <1>1, <1>4 DEF Counted, ExecTypeOK
  <2>6. CopyWhole' /\ Whole'
    BY <1>1, <1>3 DEF CopyWhole, Whole, AllOut, Gone
  <2>7. Reported'
    BY <1>1, <1>3, <2>1 DEF Reported
  <2> QED
    BY <2>3, <2>4, <2>5, <2>6, <2>7
<1>5. CASE use # "stream" /\ attached
  <2>1. use = "exec" /\ ~Gone
    BY <1>5 DEF AttachedUntil, ExecTypeOK
  <2>2. Counts(produced - inFlight)
    BY <1>5, <2>1 DEF Counted
  <2>3. \/ kept < Limit /\ kept' = kept + 1 /\ truncated' = truncated
        \/ kept >= Limit /\ kept' = kept /\ truncated'
    BY <1>2, <1>5 DEF Deliver
  <2>4. produced' - inFlight' = produced - inFlight + 1 /\ inFlight' \in 0..produced'
        /\ kept' \in 0..Limit
    BY <1>1, <1>2, <2>3
  <2>5. truncated' \in BOOLEAN
    BY <2>3 DEF ExecTypeOK
  <2>6. ExecTypeOK'
    BY <1>1, <2>4, <2>5 DEF ExecTypeOK
  <2>7. Counts(produced - inFlight)'
    BY <1>2, <2>2, <2>3, <2>4 DEF Counts
  <2>8. Counted'
    BY <2>7 DEF Counted
  <2>9. AttachedUntil' /\ ContextInHand' /\ Reported'
    BY <1>1, <2>1 DEF AttachedUntil, Gone, ContextInHand, Reported
  <2>10. CopyWhole' /\ Whole'
    BY <1>1, <1>3 DEF CopyWhole, Whole, AllOut, Gone
  <2> QED
    BY <2>6, <2>8, <2>9, <2>10
<1> QED
  BY <1>4, <1>5

LEMMA CopierEndsInv == ASSUME ExecInv, CopierEnds PROVE ExecInv'
<1> USE DEF ExecInv
<1>1. /\ copier' = "done" /\ (AllOut \/ broken = "output")
      /\ UNCHANGED <<via, use, caller, context, failure, command, produced, inFlight, control,
                     attached, kept, truncated, reader, broken, result>>
  BY DEF CopierEnds, AllOut
<1>2. ExecTypeOK'
  BY <1>1 DEF ExecTypeOK
<1>3. AttachedUntil' /\ ContextInHand' /\ CopyWhole'
  BY <1>1 DEF AttachedUntil, ContextInHand, CopyWhole, AllOut, Gone
<1>4. Counted' /\ Whole' /\ Reported'
  BY <1>1 DEF Counted, Whole, Reported, Counts, AllOut
<1> QED
  BY <1>2, <1>3, <1>4

-----------------------------------------------------------------------------
\* A step of the call or of Close: where the writer is stays as it was, and no
\* error may be in hand after it only with all the output out.
LEMMA CallerInv ==
    ASSUME ExecInv, UNCHANGED <<via, use, context, produced, inFlight, attached, kept,
                                truncated, reader, broken, result>>,
           ExecTypeOK', ~Gone, ~Gone', ContextInHand', Whole', CopyWhole'
    PROVE  ExecInv'
<1>1. AttachedUntil' /\ Counted'
  BY DEF ExecInv, AttachedUntil, Counted, Counts
<1>2. Reported'
  BY DEF Reported, Gone
<1> QED
  BY <1>1, <1>2 DEF ExecInv

LEMMA StartExecInv == ASSUME ExecInv, StartExec PROVE ExecInv'
<1> USE DEF ExecInv
<1>1. /\ caller = "start"
      /\ UNCHANGED <<via, use, context, produced, inFlight, attached, kept, truncated, reader,
                     broken, result>>
  BY DEF StartExec
<1>2. ~Gone
  BY <1>1 DEF Gone
<1>3. CASE Started /\ \/ use = "exec" /\ caller' = "waiting" /\ UNCHANGED failure
                      \/ use = "stream" /\ caller' = "open" /\ UNCHANGED failure
                      \/ caller' = "closing" /\ failure' = "context" /\ context # "live"
  <2>1. ExecTypeOK'
    BY <1>1, <1>3 DEF ExecTypeOK, Started
  <2>2. ~Gone' /\ ContextInHand' /\ Whole' /\ CopyWhole'
    BY <1>1, <1>3 DEF Gone, ContextInHand, Whole, CopyWhole, Started
  <2> QED
    BY <1>1, <1>2, <2>1, <2>2, CallerInv
<1>4. CASE /\ caller' = "detaching" /\ UNCHANGED <<command, copier, control>>
           /\ failure' \in IF context = "live" THEN {"other"} ELSE {"other", "context"}
  <2>1. failure' \in {"other", "context"} /\ (failure' = "context" => context # "live")
    BY <1>4
  <2>2. ExecTypeOK'
    BY <1>1, <1>4, <2>1 DEF ExecTypeOK
  <2>3. ~Gone' /\ ContextInHand' /\ Whole' /\ CopyWhole'
    BY <1>1, <1>2, <1>4, <2>1 DEF Gone, ContextInHand, Whole, CopyWhole, AllOut
  <2> QED
    BY <1>1, <1>2, <2>2, <2>3, CallerInv
<1> QED
  BY <1>3, <1>4 DEF StartExec

LEMMA WaitedInv == ASSUME ExecInv, Waited PROVE ExecInv'
<1> USE DEF ExecInv
<1>1. /\ caller = "waiting" /\ caller' = "draining"
      /\ UNCHANGED <<via, use, context, command, produced, inFlight, copier, attached, kept,
                     truncated, control, reader, broken, result>>
  BY DEF Waited, output
<1>2. failure' = failure \/ failure' = "other" \/ (failure' = "context" /\ context # "live")
  BY DEF Waited
<1>3. ExecTypeOK'
  BY <1>1, <1>2 DEF ExecTypeOK
<1>4. ~Gone /\ ~Gone' /\ ContextInHand' /\ Whole' /\ CopyWhole'
  BY <1>1, <1>2 DEF Gone, ContextInHand, Whole, CopyWhole, AllOut
<1> QED
  BY <1>1, <1>3, <1>4, CallerInv

LEMMA DrainedInv == ASSUME ExecInv, Drained PROVE ExecInv'
<1> USE DEF ExecInv
<1>1. /\ caller = "draining" /\ caller' = "detaching"
      /\ UNCHANGED <<via, use, context, command, produced, inFlight, copier, attached, kept,
                     truncated, control, reader, broken, result>>
  BY DEF Drained, output
<1>2. \/ copier = "done" /\ failure' = failure
      \/ failure' = failure /\ failure # "none"
      \/ failure' = "other"
      \/ failure' = "context" /\ context # "live"
  BY DEF Drained
<1>3. ExecTypeOK'
  BY <1>1, <1>2 DEF ExecTypeOK
<1>4. ~Gone /\ ~Gone' /\ ContextInHand' /\ CopyWhole' /\ use = "exec" /\ attached
  BY <1>1, <1>2 DEF Gone, ContextInHand, Whole, CopyWhole, AllOut, AttachedUntil
<1>5. failure' = "none" /\ broken # "output" => AllOut /\ Counts(produced)
  <2> SUFFICES ASSUME failure' = "none", broken # "output" PROVE AllOut /\ Counts(produced)
    OBVIOUS
  <2>1. copier = "done"
    BY <1>2
  <2>2. AllOut
    BY <1>4, <2>1 DEF CopyWhole
  <2>3. produced - inFlight = produced
    BY <2>2, Chunks DEF AllOut, ExecTypeOK
  <2> QED
    BY <1>4, <2>2, <2>3 DEF Counted
<1>6. Whole'
  BY <1>1, <1>4, <1>5 DEF Whole, AllOut, Counts
<1> QED
  BY <1>1, <1>3, <1>4, <1>6, CallerInv

LEMMA CloseInv == ASSUME ExecInv, Close \/ AwaitData \/ Reap PROVE ExecInv'
<1> USE DEF ExecInv
<1>1. /\ caller \in {"open", "closing", "reaping"} /\ caller' \in {"closing", "reaping", "closed"}
      /\ UNCHANGED <<via, use, context, failure, command, produced, inFlight, copier, attached,
                     kept, truncated, control, reader, broken, result>>
  BY DEF Close, AwaitData, Reap, output
<1>2. ExecTypeOK'
  BY <1>1 DEF ExecTypeOK
<1>3. ~Gone /\ ~Gone' /\ ContextInHand' /\ Whole' /\ CopyWhole'
  BY <1>1 DEF Gone, ContextInHand, Whole, CopyWhole, AllOut
<1> QED
  BY <1>1, <1>2, <1>3, CallerInv

-----------------------------------------------------------------------------
\* From here on nothing that comes is counted.
LEMMA DetachStreamsInv == ASSUME ExecInv, DetachStreams PROVE ExecInv'
<1> USE DEF ExecInv
<1>1. /\ caller = "detaching" /\ caller' = "detached" /\ attached' = FALSE
      /\ copier' \in {"done", copier}
      /\ UNCHANGED <<via, use, context, failure, command, produced, inFlight, control, kept,
                     truncated, reader, broken, result>>
  BY DEF DetachStreams
<1>2. ExecTypeOK'
  <2>1. attached' \in BOOLEAN /\ copier' \in {"none", "copying", "done"}
    BY <1>1 DEF ExecTypeOK
  <2> QED
    BY <1>1, <2>1 DEF ExecTypeOK
<1>3. AttachedUntil' /\ Counted' /\ CopyWhole' /\ ContextInHand'
  BY <1>1 DEF AttachedUntil, Counted, CopyWhole, Gone, ContextInHand
<1>4. Whole' /\ Reported'
  BY <1>1 DEF Whole, Reported, AllOut, Counts
<1> QED
  BY <1>2, <1>3, <1>4

LEMMA ReturnExecInv == ASSUME ExecInv, ReturnExec PROVE ExecInv'
<1> USE DEF ExecInv
<1>1. /\ caller = "detached" /\ caller' = "returned"
      /\ result' = [is |-> Outcome, kept |-> kept, truncated |-> truncated]
      /\ UNCHANGED <<via, use, context, failure, command, produced, inFlight, copier, attached,
                     kept, truncated, control, reader, broken>>
  BY DEF ReturnExec, output
<1>2. Outcome \in {"ok", "timeout", "cancelled", "error"} /\ (Outcome = "ok" => failure = "none")
  BY DEF Outcome, ExecTypeOK, ContextInHand
<1>3. result'.is = Outcome /\ result'.kept = kept /\ result'.truncated = truncated
  BY <1>1
<1>4. ExecTypeOK'
  <2>1. kept \in 0..Limit /\ truncated \in BOOLEAN
    BY DEF ExecTypeOK
  <2>2. result' \in [is : {"nothing", "ok", "timeout", "cancelled", "error"},
                     kept : 0..Limit, truncated : BOOLEAN]
    BY <1>1, <1>2, <2>1
  <2> QED
    BY <1>1, <2>2 DEF ExecTypeOK
<1>5. AttachedUntil' /\ Counted' /\ CopyWhole' /\ ContextInHand' /\ Whole'
  BY <1>1 DEF AttachedUntil, Counted, CopyWhole, Gone, ContextInHand, Whole
<1>6. Reported'
  BY <1>1, <1>2, <1>3 DEF Reported, Whole, AllOut, Counts
<1> QED
  BY <1>4, <1>5, <1>6

LEMMA ExecNextInv == ExecInv /\ [ExecNext]_execVars => ExecInv'
<1>1. ASSUME ExecInv, UNCHANGED execVars PROVE ExecInv'
  <2>1. ExecTypeOK'
    BY <1>1 DEF ExecInv, ExecTypeOK, execVars, output
  <2> QED
    BY <1>1, <2>1, AsideInv DEF execVars
<1> QED
  BY <1>1, AsideSteps, ProduceInv, DeliverInv, CopierEndsInv, StartExecInv, WaitedInv, DrainedInv,
     DetachStreamsInv, ReturnExecInv, CloseInv DEF ExecNext

\* What Exec returned is what was kept when it returned, whatever Incus sends later;
\* and, for any limit, it is all of the output or marked as cut off when the command
\* ended in time over a connection that did not break.
THEOREM OutputFinalAlways == ExecSpec => []OutputFinal
<1>1. ExecInv => OutputFinal
  <2> SUFFICES ASSUME ExecInv, caller = "returned"
               PROVE  /\ result.kept = kept /\ result.truncated = truncated
                      /\ (result.is = "ok" /\ broken # "output") =>
                            /\ result.kept = (IF produced < Limit THEN produced ELSE Limit)
                            /\ result.truncated = (produced > Limit)
    BY DEF OutputFinal
  <2>1. result.kept = kept /\ result.truncated = truncated
        /\ (result.is = "ok" /\ broken # "output" => Counts(produced))
    BY DEF ExecInv, Reported
  <2>2. truncated \in BOOLEAN
    BY DEF ExecInv, ExecTypeOK
  <2> QED
    BY <2>1, <2>2 DEF Counts
<1>2. ExecInv /\ [ExecNext]_execVars => ExecInv'
  BY ExecNextInv
<1> QED
  BY <1>1, <1>2, ExecInitInv, PTL DEF ExecSpec

-----------------------------------------------------------------------------
(***************************************************************************)
(* IncusGuests.  What a restore owes is held by a snapshot, or by a staged *)
(* copy, that the operation of the moment is not about to delete: the copy *)
(* is made before the snapshot goes, and only what its caller gives up is  *)
(* deleted otherwise.                                                      *)
(***************************************************************************)

\* The guest k holds what is owed where no write of the guest reaches it.
Holds(k) ==
    \/ \E s \in Snaps : guest[k].snaps[s] = owed
    \/ k \in Copies /\ There(k) /\ guest[k].disk = owed

Deleting == {"read", "snapshots", "halt", "remove"}
Keeps(k) == Holds(k) /\ ~(op.key = k /\ op.at \in Deleting)

Settling == op.at \in {"update", "await"}
BeforeCopy == op.at = "copy" \/ (Settling /\ op.action = "stop")

\* What each operation may rely on where it stands.
OpStands ==
    /\ op.at \in {"update", "await", "copy", "rename"} \cup Deleting => op.key \in Known
    /\ op.at \in {"copy", "rename"} => op.kind = "restore"
    /\ op.at \in {"detach", "contents", "images"} => op.kind = "empty"
    /\ op.at \in Deleting => op.kind \in {"delete", "restore", "empty"}
    /\ op.kind = "empty" => owed = NoDisk
    /\ op.kind = "restore" =>
          /\ op.snap \in Snaps \/ owed = NoDisk
          /\ BeforeCopy => owed # NoDisk /\ guest[op.key].snaps[op.snap] = owed
          /\ Settling /\ op.action # "stop" => owed = NoDisk
          /\ op.at \in Deleting \cup {"rename"} =>
                /\ op.copy \in Copies /\ op.copy # op.key
                /\ There(op.copy) /\ guest[op.copy].disk = owed

\* A guest that is being created has no snapshots yet.
NewHasNoSnaps == \A k \in Known : guest[k].state = "creating" => guest[k].snaps = NoSnaps

WaitsNamed == \A c \in Creators : waits[c].at # "idle" => waits[c].name \in GuestNames

OwedKept == owed # NoDisk => \E k \in Known : Keeps(k)

ContentInv == GuestTypeOK /\ OpStands /\ NewHasNoSnaps /\ WaitsNamed /\ OwedKept

GuestRecords == [state : {"absent", "creating", "stopped", "running"},
                 disk : Disks \cup {NoDisk}, snaps : [Snaps -> Disks \cup {NoDisk}]]
GuestOps == [kind : Kinds, at : GuestPlaces, key : Known \cup {NoName},
             action : {"none", "start", "stop", "restart"}, snap : Snaps \cup {NoSnap},
             copy : Copies \cup {NoName}, halt : BOOLEAN, bounded : BOOLEAN,
             rest : SUBSET Known, failed : BOOLEAN]
Waiting == [at : {"idle", "creating", "begin", "start", "poll"},
            name : GuestNames \cup {NoName}, start : BOOLEAN]

LEMMA AtRest ==
    /\ Idle \in GuestOps /\ Idle.at = "idle" /\ Idle.kind = "none" /\ Idle.key = NoName
    /\ Absent \in GuestRecords /\ Absent.state = "absent" /\ Absent.snaps = NoSnaps
    /\ NoSnaps \in [Snaps -> {NoDisk}] /\ \A s \in Snaps : NoSnaps[s] = NoDisk
    /\ NotWaiting \in Waiting /\ NotWaiting.at = "idle"
BY DEF Idle, Absent, NoSnaps, NotWaiting, GuestOps, GuestRecords, Waiting, Kinds, GuestPlaces

LEMMA AtIs ==
    ASSUME NEW o \in GuestOps, NEW place \in GuestPlaces
    PROVE  /\ At(o, place) \in GuestOps
           /\ At(o, place).at = place /\ At(o, place).kind = o.kind /\ At(o, place).key = o.key
           /\ At(o, place).action = o.action /\ At(o, place).snap = o.snap
           /\ At(o, place).copy = o.copy /\ At(o, place).rest = o.rest
           /\ At(o, place).failed = o.failed /\ At(o, place).bounded = o.bounded
BY DEF At, GuestOps

LEMMA AskIs ==
    ASSUME NEW o \in GuestOps, NEW k \in Known, NEW action \in {"start", "stop", "restart"}
    PROVE  /\ Ask(o, action, k) \in GuestOps
           /\ Ask(o, action, k).at \in {"update", "await"} /\ Ask(o, action, k).kind = o.kind
           /\ Ask(o, action, k).key = k /\ Ask(o, action, k).action = action
           /\ Ask(o, action, k).snap = o.snap
<1> DEFINE place == IF Satisfied(action, k) THEN "await" ELSE "update"
<1>1. place \in GuestPlaces /\ place \in {"update", "await"}
  BY DEF GuestPlaces
<1> HIDE DEF place
<1>2. Ask(o, action, k) = [o EXCEPT !.key = k, !.action = action, !.at = place]
  BY DEF Ask, place
<1> QED
  BY <1>1, <1>2 DEF GuestOps

LEMMA LoopIs ==
    ASSUME NEW o \in GuestOps, NEW place \in {"detach", "contents"}
    PROVE  /\ Loop(o, place) \in GuestOps
           /\ Loop(o, place).at = place /\ Loop(o, place).kind = "empty"
BY DEF Loop, Idle, GuestOps, Kinds, GuestPlaces

LEMMA AbortIs ==
    ASSUME GuestTypeOK, Abort
    PROVE  /\ op' \in GuestOps
           /\ \/ op' = Idle
              \/ op.kind = "empty" /\ op'.kind = "empty" /\ op'.at \in {"detach", "contents"}
<1>1. op \in GuestOps
  BY DEF GuestTypeOK, GuestOps
<1>2. CASE op' = Idle
  BY <1>2, AtRest
<1>3. ASSUME NEW place \in {"detach", "contents"}, op.kind = "empty",
             op' = [Loop(op, place) EXCEPT !.failed = TRUE]
      PROVE  op' \in GuestOps /\ op'.kind = "empty" /\ op'.at = place
  <2>1. /\ Loop(op, place) \in GuestOps
        /\ Loop(op, place).at = place /\ Loop(op, place).kind = "empty"
    BY <1>1, LoopIs
  <2> QED
    BY <1>3, <2>1 DEF GuestOps
<1> QED
  BY <1>2, <1>3 DEF Abort

-----------------------------------------------------------------------------
\* The rest of the state keeps its type.
Around == up' \in BOOLEAN /\ box' \in {"none", "live", "expired"}
          /\ local' \in [LocalImages -> Disks \cup {NoDisk}] /\ failures' \in 0..MaxFailures
          /\ waits' \in [Creators -> Waiting] /\ WaitsNamed'

\* No operation runs on: the one that did is over, cut off or lost.
LEMMA OverKept ==
    ASSUME ContentInv, op' = Idle, guest' = guest, owed' = owed, Around,
           ~up' => \A c \in Creators : waits'[c] = NotWaiting
    PROVE  ContentInv'
<1>1. GuestTypeOK'
  BY AtRest DEF ContentInv, GuestTypeOK, Around, GuestOps, Waiting
<1>2. OpStands' /\ NewHasNoSnaps'
  BY AtRest DEF ContentInv, OpStands, NewHasNoSnaps, Deleting, Settling, BeforeCopy
<1>3. OwedKept'
  BY AtRest DEF ContentInv, OwedKept, Keeps, Holds, There, Deleting
<1> QED
  BY <1>1, <1>2, <1>3 DEF ContentInv, Around

\* Neither an operation nor a guest is touched.
LEMMA AsideKept ==
    ASSUME ContentInv, op' = op, guest' = guest, owed' = owed, Around,
           ~up' => op' = Idle /\ \A c \in Creators : waits'[c] = NotWaiting
    PROVE  ContentInv'
<1>1. GuestTypeOK'
  BY DEF ContentInv, GuestTypeOK, Around, GuestOps, Waiting
<1>2. OpStands' /\ NewHasNoSnaps'
  BY DEF ContentInv, OpStands, NewHasNoSnaps, Deleting, Settling, BeforeCopy, There
<1>3. OwedKept'
  BY DEF ContentInv, OwedKept, Keeps, Holds, There
<1> QED
  BY <1>1, <1>2, <1>3 DEF ContentInv, Around

\* A guest that Incus names changes, and loses no snapshot.
LEMMA GuestKept ==
    ASSUME ContentInv, NEW n \in GuestNames, NEW r \in GuestRecords,
           guest' = [guest EXCEPT ![n] = r], op' = op, owed' = owed, Around,
           ~up' => op' = Idle /\ \A c \in Creators : waits'[c] = NotWaiting,
           r.state = "absent" <=> r = Absent,
           r.state = "creating" => r.snaps = NoSnaps,
           \A s \in Snaps : guest[n].snaps[s] # NoDisk => r.snaps[s] = guest[n].snaps[s]
    PROVE  ContentInv'
<1>1. /\ guest \in [Known -> GuestRecords] /\ n \in Known /\ n \notin Copies
      /\ guest' \in [Known -> GuestRecords] /\ guest'[n] = r
      /\ \A k \in Known \ {n} : guest'[k] = guest[k]
  BY GuestTypes DEF ContentInv, GuestTypeOK, GuestRecords, Known
<1>2. GuestTypeOK'
  BY <1>1 DEF ContentInv, GuestTypeOK, Around, GuestOps, Waiting, GuestRecords
<1>3. OpStands'
  <2>1. \A k \in Copies : guest'[k] = guest[k] /\ (There(k)' <=> There(k))
    BY <1>1 DEF Known, There
  <2>2. \A k \in Known, s \in Snaps : guest[k].snaps[s] # NoDisk => guest'[k].snaps[s] = guest[k].snaps[s]
    BY <1>1
  <2>3. op.kind = "restore" /\ BeforeCopy => op.key \in Known /\ op.snap \in Snaps
    BY DEF ContentInv, OpStands, BeforeCopy, Settling
  <2> QED
    BY <2>1, <2>2, <2>3 DEF ContentInv, OpStands, BeforeCopy, Settling, Deleting
<1>4. NewHasNoSnaps'
  BY <1>1 DEF ContentInv, NewHasNoSnaps
<1>5. OwedKept'
  <2>1. ASSUME owed # NoDisk, NEW k \in Known, Keeps(k) PROVE Keeps(k)'
    <3>1. \A s \in Snaps : guest[k].snaps[s] = owed => guest'[k].snaps[s] = owed
      BY <1>1, <2>1
    <3>2. k \in Copies => guest'[k] = guest[k]
      BY <1>1
    <3> QED
      BY <2>1, <3>1, <3>2 DEF Keeps, Holds, There
  <2> QED
    BY <2>1 DEF ContentInv, OwedKept
<1> QED
  BY <1>2, <1>3, <1>4, <1>5 DEF ContentInv, Around

\* The operation goes on; it takes to deleting no guest it was not deleting.
LEMMA GoesOn ==
    ASSUME ContentInv, op' \in GuestOps, guest' = guest, owed' = owed, Around, OpStands',
           up' = TRUE,
           owed = NoDisk \/ op'.at \notin Deleting \/ (op.at \in Deleting /\ op'.key = op.key)
    PROVE  ContentInv'
<1>1. GuestTypeOK'
  BY DEF ContentInv, GuestTypeOK, Around, GuestOps, Waiting
<1>2. NewHasNoSnaps'
  BY DEF ContentInv, NewHasNoSnaps
<1>3. OwedKept'
  BY DEF ContentInv, OwedKept, Keeps, Holds, There
<1> QED
  BY <1>1, <1>2, <1>3 DEF ContentInv, Around

\* What most steps leave alone.
LEMMA Untouched ==
    ASSUME ContentInv, UNCHANGED <<up, failures, box, local, waits>> PROVE Around
BY DEF ContentInv, GuestTypeOK, Around, Waiting, WaitsNamed

LEMMA Busy == ASSUME ContentInv, op # Idle PROVE up = TRUE
BY DEF ContentInv, GuestTypeOK

-----------------------------------------------------------------------------
LEMMA ChangeKept ==
    ASSUME ContentInv, NEW n \in GuestNames, NEW kind \in {"start", "stop", "restart"}, Change(n, kind)
    PROVE  ContentInv'
<1> DEFINE o == [Idle EXCEPT !.kind = kind]
           action == IF kind = "restart" /\ Halted(n) THEN "start" ELSE kind
<1>1. /\ op' = Ask(o, action, n) /\ op = Idle /\ up
      /\ UNCHANGED <<up, failures, box, guest, local, waits, owed>>
  BY DEF Change, Live, Free
<1>2. o \in GuestOps /\ o.kind = kind
  BY AtRest DEF GuestOps, Kinds
<1>3. n \in Known /\ action \in {"start", "stop", "restart"}
  BY DEF Known
<1> HIDE DEF o, action
<1>4. op' \in GuestOps /\ op'.at \in {"update", "await"} /\ op'.kind = kind /\ op'.key = n
  BY <1>1, <1>2, <1>3, AskIs
<1>5. OpStands'
  BY <1>3, <1>4 DEF OpStands, Deleting
<1>6. Around /\ up' = TRUE
  BY <1>1, Untouched DEF ContentInv, GuestTypeOK
<1> QED
  BY <1>1, <1>4, <1>5, <1>6, GoesOn DEF Deleting

LEMMA RestoreBegunKept ==
    ASSUME ContentInv, NEW n \in GuestNames, NEW s \in Snaps, RestoreSnapshot(n, s)
    PROVE  ContentInv'
<1> DEFINE o == [Idle EXCEPT !.kind = "restore", !.snap = s]
<1>1. /\ op' = Ask(o, "stop", n) /\ op = Idle /\ up
      /\ guest[n].snaps[s] # NoDisk /\ owed' = guest[n].snaps[s]
      /\ UNCHANGED <<up, failures, box, guest, local, waits>>
  BY DEF RestoreSnapshot, Live, Free
<1>2. o \in GuestOps /\ o.kind = "restore" /\ o.snap = s
  BY AtRest DEF GuestOps, Kinds
<1>3. n \in Known
  BY DEF Known
<1> HIDE DEF o
<1>4. /\ op' \in GuestOps /\ op'.at \in {"update", "await"} /\ op'.kind = "restore" /\ op'.key = n
      /\ op'.action = "stop" /\ op'.snap = s
  BY <1>1, <1>2, <1>3, AskIs
<1>5. OpStands'
  BY <1>1, <1>3, <1>4 DEF OpStands, Deleting, Settling, BeforeCopy
<1>6. Around /\ up' = TRUE
  BY <1>1, Untouched DEF ContentInv, GuestTypeOK
<1>7. OwedKept'
  BY <1>1, <1>3, <1>4 DEF OwedKept, Keeps, Holds, Deleting
<1>8. owed' \in Disks \cup {NoDisk}
  BY <1>1, <1>3 DEF ContentInv, GuestTypeOK
<1>9. GuestTypeOK' /\ NewHasNoSnaps'
  BY <1>1, <1>4, <1>6, <1>8 DEF ContentInv, GuestTypeOK, NewHasNoSnaps, Around, GuestOps, Waiting
<1> QED
  BY <1>5, <1>6, <1>7, <1>9 DEF ContentInv, Around

\* The caller gives up what it deletes: what remains owed is held elsewhere.
LEMMA DeleteBegunHolds ==
    ASSUME ContentInv, NEW k \in Known, DeleteInstance(k) PROVE ContentInv'
<1> DEFINE o == [Idle EXCEPT !.kind = "delete", !.key = k]
<1>1. /\ op' = At(o, "read") /\ op = Idle /\ up
      /\ owed' = IF owed \in {guest[k].disk} \cup Range(guest[k].snaps) THEN NoDisk ELSE owed
      /\ UNCHANGED <<up, failures, box, guest, local, waits>>
  BY DEF DeleteInstance, Free
<1>2. o \in GuestOps /\ o.kind = "delete" /\ o.key = k
  BY AtRest DEF GuestOps, Kinds
<1> HIDE DEF o
<1>3. op' \in GuestOps /\ op'.at = "read" /\ op'.kind = "delete" /\ op'.key = k
  BY <1>1, <1>2, AtIs DEF GuestPlaces
<1>4. OpStands'
  BY <1>1, <1>3 DEF OpStands, Deleting, Settling, BeforeCopy
<1>5. Around /\ up' = TRUE
  BY <1>1, Untouched DEF ContentInv, GuestTypeOK
<1>6. OwedKept'
  <2> SUFFICES ASSUME owed' # NoDisk PROVE \E j \in Known : Keeps(j)'
    BY DEF OwedKept
  <2>1. owed' = owed /\ owed # NoDisk /\ owed # guest[k].disk /\ owed \notin Range(guest[k].snaps)
    BY <1>1
  <2>2. \A s \in Snaps : guest[k].snaps[s] # owed
    <3>1. DOMAIN guest[k].snaps = Snaps
      BY DEF ContentInv, GuestTypeOK
    <3> QED
      BY <2>1, <3>1 DEF Range
  <2>3. ~Holds(k)
    BY <2>1, <2>2 DEF Holds
  <2>4. PICK j \in Known : Keeps(j)
    BY <2>1 DEF ContentInv, OwedKept
  <2>5. Holds(j)' /\ j # k
    BY <1>1, <2>1, <2>3, <2>4 DEF Keeps, Holds, There
  <2> QED
    BY <1>3, <2>5 DEF Keeps
<1>7. GuestTypeOK' /\ NewHasNoSnaps'
  BY <1>1, <1>3, <1>5 DEF ContentInv, GuestTypeOK, NewHasNoSnaps, Around, GuestOps, Waiting
<1> QED
  BY <1>4, <1>5, <1>6, <1>7 DEF ContentInv, Around

LEMMA EmptyBegunHolds ==
    ASSUME ContentInv, NEW bounded \in BOOLEAN, Empty(bounded) PROVE ContentInv'
<1> DEFINE o == [Idle EXCEPT !.kind = "empty", !.bounded = bounded, !.rest = {k \in Known : There(k)}]
<1>1. /\ op' = At(o, "detach") /\ up /\ owed' = NoDisk
      /\ UNCHANGED <<up, failures, box, guest, local, waits>>
  BY DEF Empty, Free
<1>2. o \in GuestOps /\ o.kind = "empty"
  BY AtRest DEF GuestOps, Kinds
<1> HIDE DEF o
<1>3. op' \in GuestOps /\ op'.at = "detach" /\ op'.kind = "empty"
  BY <1>1, <1>2, AtIs DEF GuestPlaces
<1>4. OpStands' /\ OwedKept'
  BY <1>1, <1>3 DEF OpStands, Deleting, OwedKept
<1>5. Around /\ up' = TRUE
  BY <1>1, Untouched DEF ContentInv, GuestTypeOK
<1>6. GuestTypeOK' /\ NewHasNoSnaps'
  BY <1>1, <1>3, <1>5 DEF ContentInv, GuestTypeOK, NewHasNoSnaps, Around, GuestOps, Waiting
<1> QED
  BY <1>4, <1>5, <1>6 DEF ContentInv, Around

LEMMA CreateInstanceKept ==
    ASSUME ContentInv, NEW n \in GuestNames, NEW c \in Creators, NEW start \in BOOLEAN,
           CreateInstance(n, c, start)
    PROVE  ContentInv'
<1>1. /\ up /\ ~There(n) /\ UNCHANGED <<up, failures, box, local, op, owed>>
      /\ waits' = [waits EXCEPT ![c] = [at |-> "creating", name |-> n, start |-> start]]
  BY DEF CreateInstance, Live, Free
<1>2. PICK d \in Disks : guest' = [guest EXCEPT ![n] = [Absent EXCEPT !.state = "creating", !.disk = d]]
  <2>1. Range(local) \subseteq Disks \cup {NoDisk} /\ 0 \in Disks
    BY GuestTypes DEF ContentInv, GuestTypeOK, Range, Disks
  <2> QED
    BY <2>1 DEF CreateInstance
<1> DEFINE r == [Absent EXCEPT !.state = "creating", !.disk = d]
<1>3. r \in GuestRecords /\ r.state = "creating" /\ r.snaps = NoSnaps
  BY AtRest DEF GuestRecords
<1>4. r # Absent
  BY <1>3, AtRest
<1>5. \A s \in Snaps : guest[n].snaps[s] = NoDisk
  <2>1. guest[n] = Absent
    BY <1>1 DEF There, ContentInv, GuestTypeOK, Known
  <2> QED
    BY <2>1, AtRest
<1>6. Around
  <2>1. [at |-> "creating", name |-> n, start |-> start] \in Waiting
    BY DEF Waiting
  <2> QED
    BY <1>1, <2>1 DEF ContentInv, GuestTypeOK, Around, Waiting, WaitsNamed
<1> HIDE DEF r
<1> QED
  BY <1>1, <1>2, <1>3, <1>4, <1>5, <1>6, GuestKept DEF r

\* The record of the guest n becomes r, and nothing else changes.
LEMMA RecordKept ==
    ASSUME ContentInv, NEW n \in GuestNames, NEW r \in GuestRecords,
           guest' = [guest EXCEPT ![n] = r], UNCHANGED <<up, failures, box, local, op, waits, owed>>,
           r.state \in {"stopped", "running"},
           \A s \in Snaps : guest[n].snaps[s] # NoDisk => r.snaps[s] = guest[n].snaps[s]
    PROVE  ContentInv'
<1>1. r # Absent
  BY AtRest
<1>2. Around
  BY Untouched
<1>3. ~up' => op' = Idle /\ \A c \in Creators : waits'[c] = NotWaiting
  BY DEF ContentInv, GuestTypeOK
<1> QED
  BY <1>1, <1>2, <1>3, GuestKept

LEMMA GuestOwnKept ==
    ASSUME ContentInv, NEW n \in GuestNames,
           Write(n) \/ Shutdown(n) \/ \E s \in Snaps : CreateSnapshot(n, s)
    PROVE  ContentInv'
<1>1. guest[n] \in GuestRecords /\ guest \in [Known -> GuestRecords] /\ n \in Known
  BY DEF ContentInv, GuestTypeOK, GuestRecords, Known
<1>2. ASSUME Write(n) PROVE ContentInv'
  <2>1. PICK d \in Disks : guest' = [guest EXCEPT ![n] = [guest[n] EXCEPT !.disk = d]]
    BY <1>1, <1>2 DEF Write
  <2>2. /\ [guest[n] EXCEPT !.disk = d] \in GuestRecords
        /\ [guest[n] EXCEPT !.disk = d].state = "running"
        /\ [guest[n] EXCEPT !.disk = d].snaps = guest[n].snaps
    BY <1>1, <1>2 DEF Write, GuestRecords
  <2> QED
    BY <1>2, <2>1, <2>2, RecordKept DEF Write
<1>3. ASSUME Shutdown(n) PROVE ContentInv'
  <2>1. guest' = [guest EXCEPT ![n] = [guest[n] EXCEPT !.state = "stopped"]]
    BY <1>1, <1>3 DEF Shutdown
  <2>2. /\ [guest[n] EXCEPT !.state = "stopped"] \in GuestRecords
        /\ [guest[n] EXCEPT !.state = "stopped"].state = "stopped"
        /\ [guest[n] EXCEPT !.state = "stopped"].snaps = guest[n].snaps
    BY <1>1 DEF GuestRecords
  <2> QED
    BY <1>3, <2>1, <2>2, RecordKept DEF Shutdown
<1>4. ASSUME NEW s \in Snaps, CreateSnapshot(n, s) PROVE ContentInv'
  <2> DEFINE r == [guest[n] EXCEPT !.snaps = [guest[n].snaps EXCEPT ![s] = guest[n].disk]]
  <2>1. guest' = [guest EXCEPT ![n] = r] /\ guest[n].snaps[s] = NoDisk
        /\ guest[n].state \in {"stopped", "running"}
    BY <1>1, <1>4 DEF CreateSnapshot
  <2>2. /\ r \in GuestRecords /\ r.state = guest[n].state
        /\ \A t \in Snaps : guest[n].snaps[t] # NoDisk => r.snaps[t] = guest[n].snaps[t]
    BY <1>1, <2>1 DEF GuestRecords
  <2> HIDE DEF r
  <2> QED
    BY <1>4, <2>1, <2>2, RecordKept DEF CreateSnapshot
<1> QED
  BY <1>2, <1>3, <1>4

LEMMA DeleteSnapshotKept ==
    ASSUME ContentInv, NEW n \in GuestNames, NEW s \in Snaps, DeleteSnapshot(n, s) PROVE ContentInv'
<1> DEFINE r == [guest[n] EXCEPT !.snaps = [guest[n].snaps EXCEPT ![s] = NoDisk]]
<1>1. guest[n] \in GuestRecords /\ guest \in [Known -> GuestRecords] /\ n \in Known
  BY DEF ContentInv, GuestTypeOK, GuestRecords, Known
<1>2. /\ guest' = [guest EXCEPT ![n] = r] /\ op = Idle /\ up /\ guest[n].snaps[s] # NoDisk
      /\ owed' = IF owed = guest[n].snaps[s] THEN NoDisk ELSE owed
      /\ UNCHANGED <<up, failures, box, local, op, waits>>
  BY <1>1 DEF DeleteSnapshot, Live, Free
<1>3. /\ r \in GuestRecords /\ r.state = guest[n].state /\ r.disk = guest[n].disk
      /\ r.snaps[s] = NoDisk
      /\ \A t \in Snaps \ {s} : r.snaps[t] = guest[n].snaps[t]
  BY <1>1 DEF GuestRecords
<1> HIDE DEF r
<1>4. /\ guest' \in [Known -> GuestRecords] /\ guest'[n] = r
      /\ \A k \in Known \ {n} : guest'[k] = guest[k]
  BY <1>1, <1>2, <1>3
<1>5. guest[n].state \notin {"absent", "creating"}
  BY <1>1, <1>2, AtRest DEF ContentInv, GuestTypeOK, NewHasNoSnaps
<1>6. r # Absent
  BY <1>3, <1>5, AtRest
<1>7. Around
  BY <1>2, Untouched
<1>8. GuestTypeOK'
  BY <1>2, <1>3, <1>4, <1>5, <1>6, <1>7
     DEF ContentInv, GuestTypeOK, Around, GuestOps, Waiting, GuestRecords
<1>9. NewHasNoSnaps'
  BY <1>3, <1>4, <1>5 DEF ContentInv, NewHasNoSnaps
<1>10. OpStands'
  BY <1>2, AtRest DEF OpStands, Deleting, Settling, BeforeCopy
<1>11. OwedKept'
  <2> SUFFICES ASSUME owed' # NoDisk PROVE \E j \in Known : Keeps(j)'
    BY DEF OwedKept
  <2>1. owed' = owed /\ owed # NoDisk /\ owed # guest[n].snaps[s]
    BY <1>2
  <2>2. PICK j \in Known : Holds(j)
    BY <2>1 DEF ContentInv, OwedKept, Keeps
  <2>3. CASE j = n
    <3>1. \/ \E t \in Snaps \ {s} : guest[n].snaps[t] = owed
          \/ n \in Copies /\ There(n) /\ guest[n].disk = owed
      BY <2>1, <2>2, <2>3 DEF Holds
    <3> QED
      BY <1>2, <1>3, <1>4, <2>1, <2>3, <3>1, AtRest DEF Keeps, Holds, There, Deleting
  <2>4. CASE j # n
    BY <1>2, <1>4, <2>1, <2>2, <2>4, AtRest DEF Keeps, Holds, There, Deleting
  <2> QED
    BY <2>3, <2>4
<1> QED
  BY <1>7, <1>8, <1>9, <1>10, <1>11 DEF ContentInv, Around

LEMMA FinishCreateKept ==
    ASSUME ContentInv, NEW n \in GuestNames, FinishCreate(n) PROVE ContentInv'
<1>1. /\ guest[n] \in GuestRecords /\ guest \in [Known -> GuestRecords] /\ n \in Known
      /\ waits \in [Creators -> Waiting]
  BY DEF ContentInv, GuestTypeOK, GuestRecords, Known, Waiting
<1>2. /\ guest[n].state = "creating" /\ UNCHANGED <<up, failures, box, local, op, owed>>
      /\ guest[n].snaps = NoSnaps
  BY <1>1 DEF FinishCreate, ContentInv, NewHasNoSnaps
<1>3. /\ waits' \in [Creators -> Waiting] /\ WaitsNamed'
      /\ \A c \in Creators : waits[c] = NotWaiting => waits'[c] = NotWaiting
  <2>1. ASSUME NEW c \in Creators
        PROVE  /\ [waits[c] EXCEPT !.at = "begin"] \in Waiting
               /\ [waits[c] EXCEPT !.at = "begin"].name = waits[c].name
    BY <1>1 DEF Waiting
  <2>2. PICK w \in BOOLEAN :
            waits' = [c \in Creators |->
                        IF waits[c].at # "creating" \/ waits[c].name # n THEN waits[c]
                        ELSE IF w /\ waits[c].start THEN [waits[c] EXCEPT !.at = "begin"]
                        ELSE NotWaiting]
    <3>1. CASE waits' = [c \in Creators |->
                        IF waits[c].at # "creating" \/ waits[c].name # n THEN waits[c]
                        ELSE IF waits[c].start THEN [waits[c] EXCEPT !.at = "begin"]
                        ELSE NotWaiting]
      BY <3>1
    <3>2. CASE waits' = [c \in Creators |->
                        IF waits[c].at # "creating" \/ waits[c].name # n THEN waits[c]
                        ELSE NotWaiting]
      BY <3>2
    <3> QED
      BY <3>1, <3>2 DEF FinishCreate
  <2>3. ASSUME NEW c \in Creators
        PROVE  /\ waits'[c] \in Waiting
               /\ waits'[c].at # "idle" => waits'[c].name \in GuestNames
               /\ waits[c] = NotWaiting => waits'[c] = NotWaiting
    <3>1. waits'[c] = IF waits[c].at # "creating" \/ waits[c].name # n THEN waits[c]
                      ELSE IF w /\ waits[c].start THEN [waits[c] EXCEPT !.at = "begin"]
                      ELSE NotWaiting
      BY <2>2
    <3>2. waits[c].at # "idle" => waits[c].name \in GuestNames
      BY DEF ContentInv, WaitsNamed
    <3> QED
      BY <1>1, <2>1, <3>1, <3>2, AtRest
  <2> QED
    BY <2>2, <2>3 DEF WaitsNamed
<1>4. Around
  BY <1>2, <1>3 DEF ContentInv, GuestTypeOK, Around
<1>5. \A s \in Snaps : guest[n].snaps[s] = NoDisk
  BY <1>2, AtRest
<1>6. ~up' => op' = Idle /\ \A c \in Creators : waits'[c] = NotWaiting
  BY <1>2, <1>3 DEF ContentInv, GuestTypeOK
<1>7. CASE guest' = [guest EXCEPT ![n].state = "stopped"]
  <2> DEFINE r == [guest[n] EXCEPT !.state = "stopped"]
  <2>1. guest' = [guest EXCEPT ![n] = r] /\ r \in GuestRecords /\ r.state = "stopped" /\ r # Absent
    BY <1>1, <1>7, AtRest DEF GuestRecords
  <2> HIDE DEF r
  <2> QED
    BY <1>2, <1>4, <1>5, <1>6, <2>1, GuestKept
<1>8. CASE guest' = [guest EXCEPT ![n] = Absent]
  BY <1>2, <1>4, <1>5, <1>6, <1>8, AtRest, GuestKept
<1> QED
  BY <1>7, <1>8 DEF FinishCreate

LEMMA WaitsKept ==
    ASSUME ContentInv, NEW c \in Creators, WaitStep(c) \/ Timeout(c) PROVE ContentInv'
<1> DEFINE k == waits[c].name
<1>1. /\ guest \in [Known -> GuestRecords] /\ waits \in [Creators -> Waiting]
      /\ UNCHANGED <<up, failures, box, local, op, owed>>
  BY DEF ContentInv, GuestTypeOK, GuestRecords, Waiting, WaitStep, Timeout
<1>2. waits[c] # NotWaiting
  BY AtRest DEF WaitStep, Timeout
<1>3. up
  BY <1>2 DEF ContentInv, GuestTypeOK
<1>4. \/ \E place \in {"start", "poll"} : waits' = [waits EXCEPT ![c].at = place] /\ waits[c].at # "idle"
      \/ waits' = [waits EXCEPT ![c] = NotWaiting]
  <2>2. waits[c].at # "idle" => guest[k].state \in {"absent", "creating", "stopped", "running"}
    BY <1>1 DEF ContentInv, WaitsNamed, Known, GuestRecords
  <2>3. CASE Timeout(c)
    BY <2>3 DEF Timeout
  <2>4. CASE WaitStep(c) /\ waits[c].at = "begin"
    BY <2>2, <2>4 DEF WaitStep, There, Halted
  <2>5. CASE WaitStep(c) /\ waits[c].at # "begin"
    BY <2>2, <2>5 DEF WaitStep
  <2> QED
    BY <2>3, <2>4, <2>5
<1>5. waits' \in [Creators -> Waiting] /\ WaitsNamed'
  <2>1. ASSUME NEW place \in {"start", "poll"}, waits' = [waits EXCEPT ![c].at = place],
               waits[c].at # "idle"
        PROVE  waits' \in [Creators -> Waiting] /\ WaitsNamed'
    <3> DEFINE w == [waits[c] EXCEPT !.at = place]
    <3>1. waits' = [waits EXCEPT ![c] = w] /\ w \in Waiting /\ w.name = waits[c].name
      BY <1>1, <2>1 DEF Waiting
    <3> HIDE DEF w
    <3> QED
      BY <1>1, <2>1, <3>1 DEF ContentInv, WaitsNamed
  <2>2. CASE waits' = [waits EXCEPT ![c] = NotWaiting]
    BY <1>1, <2>2, AtRest DEF ContentInv, WaitsNamed
  <2> QED
    BY <1>4, <2>1, <2>2
<1>6. Around
  BY <1>1, <1>5 DEF ContentInv, GuestTypeOK, Around
<1>7. CASE guest' = guest
  BY <1>1, <1>3, <1>6, <1>7, AsideKept
<1>8. ASSUME waits[c].at = "start", guest[k].state = "stopped",
             guest' = [guest EXCEPT ![k].state = "running"]
      PROVE  ContentInv'
  <2>1. k \in GuestNames /\ k \in Known
    BY <1>8 DEF ContentInv, WaitsNamed, Known
  <2> DEFINE r == [guest[k] EXCEPT !.state = "running"]
  <2>2. /\ guest' = [guest EXCEPT ![k] = r] /\ r \in GuestRecords /\ r.state = "running" /\ r # Absent
        /\ r.snaps = guest[k].snaps
    BY <1>1, <1>8, <2>1, AtRest DEF GuestRecords
  <2> HIDE DEF r
  <2> QED
    BY <1>1, <1>3, <1>6, <2>1, <2>2, GuestKept
<1>9. guest' = guest \/ (waits[c].at = "start" /\ guest[k].state = "stopped"
                         /\ guest' = [guest EXCEPT ![k].state = "running"])
  BY DEF WaitStep, Timeout
<1> QED
  BY <1>7, <1>8, <1>9

\* Calls that leave operations and guests alone.
LEMMA AsideCallsKept ==
    ASSUME ContentInv,
           \/ CreateSandbox \/ Expire \/ Starts
           \/ \E n \in GuestNames, i \in LocalImages : PublishInstance(n, i)
    PROVE  ContentInv'
<1>1. UNCHANGED <<failures, guest, op, waits, owed>> /\ (up' = up \/ up' = TRUE)
  BY DEF CreateSandbox, Expire, Starts, PublishInstance
<1>2. box' = box \/ box' \in {"live", "expired"}
  BY DEF CreateSandbox, Expire, Starts, PublishInstance
<1>3. local' \in [LocalImages -> Disks \cup {NoDisk}]
  <2>1. ASSUME NEW n \in GuestNames, NEW i \in LocalImages, PublishInstance(n, i)
        PROVE  local' \in [LocalImages -> Disks \cup {NoDisk}]
    <3>1. guest[n].disk \in Disks \cup {NoDisk}
      BY DEF ContentInv, GuestTypeOK, Known
    <3> QED
      BY <2>1, <3>1 DEF PublishInstance, ContentInv, GuestTypeOK
  <2> QED
    BY <2>1 DEF CreateSandbox, Expire, Starts, ContentInv, GuestTypeOK
<1>4. Around
  BY <1>1, <1>2, <1>3 DEF ContentInv, GuestTypeOK, Around, Waiting, WaitsNamed
<1> QED
  BY <1>1, <1>4, AsideKept DEF ContentInv, GuestTypeOK

LEMMA CutsKept ==
    ASSUME ContentInv, Dies \/ Cut PROVE ContentInv'
<1>1. op' = Idle /\ guest' = guest /\ owed' = owed /\ UNCHANGED <<box, local>>
  BY DEF Dies, Cut
<1>2. CASE Dies
  <2>1. Around /\ \A c \in Creators : waits'[c] = NotWaiting
    <3>1. waits' \in [Creators -> Waiting] /\ \A c \in Creators : waits'[c] = NotWaiting
      BY <1>2, AtRest DEF Dies
    <3>2. failures' \in 0..MaxFailures
      BY <1>2, GuestTypes DEF Dies, ContentInv, GuestTypeOK
    <3>3. WaitsNamed'
      BY <3>1, AtRest DEF WaitsNamed
    <3> QED
      BY <1>2, <3>1, <3>2, <3>3 DEF Dies, Around, ContentInv, GuestTypeOK
  <2> QED
    BY <1>1, <2>1, OverKept
<1>3. CASE Cut
  BY <1>1, <1>3, OverKept, Untouched, Busy DEF Cut
<1> QED
  BY <1>2, <1>3

\* A call fails: nothing is owed while the loops of DeleteSandbox go on.
LEMMA AbortKept ==
    ASSUME ContentInv, Abort, guest' = guest, owed' = owed, Around, up' = TRUE PROVE ContentInv'
<1>1. op' \in GuestOps /\ (op' = Idle \/ (op.kind = "empty" /\ op'.kind = "empty"
                                         /\ op'.at \in {"detach", "contents"}))
  BY AbortIs DEF ContentInv
<1>2. CASE op' = Idle
  BY <1>2, OverKept
<1>3. CASE op.kind = "empty" /\ op'.kind = "empty" /\ op'.at \in {"detach", "contents"}
  <2>1. OpStands'
    BY <1>3 DEF ContentInv, OpStands, Deleting
  <2> QED
    BY <1>1, <1>3, <2>1, GoesOn DEF Deleting
<1> QED
  BY <1>1, <1>2, <1>3

LEMMA CallFailsKept == ASSUME ContentInv, CallFails PROVE ContentInv'
<1>1. /\ Abort /\ op # Idle /\ failures < MaxFailures /\ failures' = failures + 1
      /\ UNCHANGED <<up, box, guest, local, waits, owed>>
  BY DEF CallFails
<1>2. Around /\ up' = TRUE
  BY <1>1, Busy, GuestTypes DEF ContentInv, GuestTypeOK, Around, Waiting, WaitsNamed
<1> QED
  BY <1>1, <1>2, AbortKept

-----------------------------------------------------------------------------
(* The steps of the operation that holds the gate.                           *)

\* What such a step may rely on.
LEMMA Stepping ==
    ASSUME ContentInv, op.at # "idle", UNCHANGED <<up, failures, waits>>
    PROVE  /\ op \in GuestOps /\ up' = TRUE /\ guest \in [Known -> GuestRecords]
           /\ local' \in [LocalImages -> Disks \cup {NoDisk}] /\ box' \in {"none", "live", "expired"}
                => Around
<1>1. op # Idle
  BY AtRest
<1> QED
  BY <1>1 DEF ContentInv, GuestTypeOK, GuestOps, GuestRecords, Around, Waiting, WaitsNamed

\* A loop of DeleteSandbox goes on: nothing is owed.
LEMMA LoopsOn ==
    ASSUME ContentInv, op.kind = "empty", op' \in GuestOps, op'.kind = "empty",
           op'.at \in {"update", "await"} \cup Deleting => op'.key \in Known,
           op'.at \notin {"copy", "rename"}, guest' = guest, owed' = owed, Around, up' = TRUE
    PROVE  ContentInv'
<1>1. OpStands'
  BY DEF ContentInv, OpStands
<1> QED
  BY <1>1, GoesOn DEF ContentInv, OpStands

LEMMA DetachKept ==
    ASSUME ContentInv, Detach, UNCHANGED <<up, failures, waits>> PROVE ContentInv'
<1>1. op.at = "detach" /\ UNCHANGED <<guest, local, box, owed>>
  BY DEF Detach
<1>2. op \in GuestOps /\ up' = TRUE /\ Around /\ op.kind = "empty"
  BY <1>1, Stepping DEF ContentInv, GuestTypeOK, OpStands
<1>3. ASSUME NEW k \in Known, op' = Ask([op EXCEPT !.rest = @ \ {k}], "stop", k) PROVE ContentInv'
  <2> DEFINE o == [op EXCEPT !.rest = op.rest \ {k}]
  <2>1. o \in GuestOps /\ o.kind = "empty"
    BY <1>2 DEF GuestOps
  <2> HIDE DEF o
  <2>2. op' = Ask(o, "stop", k)
    BY <1>3 DEF o
  <2>3. op' \in GuestOps /\ op'.at \in {"update", "await"} /\ op'.kind = "empty" /\ op'.key = k
    BY <2>1, <2>2, AskIs
  <2> QED
    BY <1>1, <1>2, <2>3, LoopsOn
<1>4. ASSUME NEW k \in Known, op' = [op EXCEPT !.rest = @ \ {k}, !.failed = TRUE] PROVE ContentInv'
  <2>1. op' \in GuestOps /\ op'.kind = "empty" /\ op'.at = "detach"
    BY <1>1, <1>2, <1>4 DEF GuestOps
  <2> QED
    BY <1>1, <1>2, <2>1, LoopsOn DEF Deleting
<1>5. CASE op' = Idle
  BY <1>1, <1>2, <1>5, OverKept
<1>6. CASE op' = [At(op, "contents") EXCEPT !.rest = {k \in Known : There(k)}]
  <2>1. /\ At(op, "contents") \in GuestOps /\ At(op, "contents").kind = "empty"
        /\ At(op, "contents").at = "contents"
    BY <1>2, AtIs DEF GuestPlaces
  <2>2. op' \in GuestOps /\ op'.kind = "empty" /\ op'.at = "contents"
    BY <1>6, <2>1 DEF GuestOps
  <2> QED
    BY <1>1, <1>2, <2>2, LoopsOn DEF Deleting
<1>7. op.rest \subseteq Known
  BY <1>2 DEF GuestOps
<1> QED
  BY <1>3, <1>4, <1>5, <1>6, <1>7 DEF Detach

LEMMA ContentsKept ==
    ASSUME ContentInv, Contents \/ Images, UNCHANGED <<up, failures, waits>> PROVE ContentInv'
<1>1. op.at \in {"contents", "images"} /\ guest' = guest /\ owed' = owed
  BY DEF Contents, Images
<1>2. local' \in [LocalImages -> Disks \cup {NoDisk}] /\ box' \in {"none", "live", "expired"}
  BY DEF Contents, Images, ContentInv, GuestTypeOK
<1>3. op \in GuestOps /\ up' = TRUE /\ Around /\ op.kind = "empty"
  BY <1>1, <1>2, Stepping DEF ContentInv, OpStands
<1>4. ASSUME NEW k \in Known, op' = [At(op, "read") EXCEPT !.key = k, !.rest = @ \ {k}]
      PROVE  ContentInv'
  <2>1. /\ At(op, "read") \in GuestOps /\ At(op, "read").kind = "empty" /\ At(op, "read").at = "read"
    BY <1>3, AtIs DEF GuestPlaces
  <2>2. op' \in GuestOps /\ op'.kind = "empty" /\ op'.at = "read" /\ op'.key = k
    BY <1>4, <2>1 DEF GuestOps
  <2> QED
    BY <1>1, <1>3, <2>2, LoopsOn
<1>5. CASE op' = Idle
  BY <1>1, <1>3, <1>5, OverKept
<1>6. CASE op' = At(op, "images")
  <2>1. op' \in GuestOps /\ op'.kind = "empty" /\ op'.at = "images"
    BY <1>3, <1>6, AtIs DEF GuestPlaces
  <2> QED
    BY <1>1, <1>3, <2>1, LoopsOn DEF Deleting
<1>7. op.rest \subseteq Known
  BY <1>3 DEF GuestOps
<1> QED
  BY <1>4, <1>5, <1>6, <1>7 DEF Contents, Images

\* The operation goes to the place after a wait, on the same guest.
LEMMA MovesOn ==
    ASSUME ContentInv, op.at \in {"update", "await"}, UNCHANGED <<up, failures, waits, local, box, owed>>,
           op' = At(op, "await"), NEW r \in GuestRecords,
           guest' = guest \/ guest' = [guest EXCEPT ![op.key] = r],
           r.state \in {"stopped", "running"}, r.snaps = guest[op.key].snaps, r.disk = guest[op.key].disk,
           There(op.key) \/ guest' = guest
    PROVE  ContentInv'
<1>1. op \in GuestOps /\ up' = TRUE /\ guest \in [Known -> GuestRecords] /\ Around
  BY Stepping DEF ContentInv, GuestTypeOK
<1>2. op.key \in Known
  BY DEF ContentInv, OpStands
<1>3. op' \in GuestOps /\ op'.at = "await" /\ op'.kind = op.kind /\ op'.key = op.key
      /\ op'.action = op.action /\ op'.snap = op.snap
  BY <1>1, AtIs DEF GuestPlaces
<1>4. /\ guest' \in [Known -> GuestRecords]
      /\ \A k \in Known : guest'[k].snaps = guest[k].snaps /\ guest'[k].disk = guest[k].disk
      /\ \A k \in Known : guest'[k] = guest[k] \/ guest'[k].state \in {"stopped", "running"}
      /\ \A k \in Known : There(k)' <=> There(k)
  BY <1>1, <1>2 DEF There
<1>5. OpStands'
  BY <1>3, <1>4 DEF ContentInv, OpStands, Settling, BeforeCopy, Deleting
<1>6. NewHasNoSnaps'
  BY <1>4 DEF ContentInv, NewHasNoSnaps
<1>7. OwedKept'
  BY <1>3, <1>4 DEF ContentInv, OwedKept, Keeps, Holds, Deleting
<1>8. \A k \in Known : guest'[k].state = "absent" <=> guest'[k] = Absent
  BY <1>4, AtRest DEF ContentInv, GuestTypeOK
<1>9. GuestTypeOK'
  BY <1>1, <1>3, <1>4, <1>8 DEF ContentInv, GuestTypeOK, Around, GuestOps, Waiting, GuestRecords
<1> QED
  BY <1>1, <1>5, <1>6, <1>7, <1>9 DEF ContentInv, Around

LEMMA UpdateKept ==
    ASSUME ContentInv, Update, UNCHANGED <<up, failures, waits>> PROVE ContentInv'
<1>1. op.at = "update" /\ UNCHANGED <<local, box, owed>>
  BY DEF Update
<1>2. op \in GuestOps /\ up' = TRUE /\ guest \in [Known -> GuestRecords] /\ Around
  BY <1>1, Stepping DEF ContentInv, GuestTypeOK
<1>3. op.key \in Known
  BY <1>1 DEF ContentInv, OpStands
<1>4. \/ op' = At(op, "await") /\ guest[op.key].state # "absent"
         /\ \E st \in {"stopped", "running"} : guest' = [guest EXCEPT ![op.key].state = st]
      \/ op' = At(op, "await") /\ guest' = guest
      \/ Abort /\ guest' = guest
  BY DEF Update
<1>5. ASSUME NEW st \in {"stopped", "running"}, op' = At(op, "await"),
             guest[op.key].state # "absent", guest' = [guest EXCEPT ![op.key].state = st]
      PROVE  ContentInv'
  <2> DEFINE r == [guest[op.key] EXCEPT !.state = st]
  <2>1. /\ r \in GuestRecords /\ r.state = st /\ r.snaps = guest[op.key].snaps
        /\ r.disk = guest[op.key].disk /\ guest' = [guest EXCEPT ![op.key] = r]
    BY <1>2, <1>3, <1>5 DEF GuestRecords
  <2> HIDE DEF r
  <2> QED
    BY <1>1, <1>5, <2>1, MovesOn DEF There
<1>6. CASE op' = At(op, "await") /\ guest' = guest
  <2> DEFINE r == [guest[op.key] EXCEPT !.state = "stopped"]
  <2>1. /\ r \in GuestRecords /\ r.state = "stopped" /\ r.snaps = guest[op.key].snaps
        /\ r.disk = guest[op.key].disk
    BY <1>2, <1>3 DEF GuestRecords
  <2> HIDE DEF r
  <2> QED
    BY <1>1, <1>6, <2>1, MovesOn
<1>7. CASE Abort /\ guest' = guest
  BY <1>1, <1>2, <1>7, AbortKept
<1> QED
  BY <1>4, <1>5, <1>6, <1>7

LEMMA AwaitKept ==
    ASSUME ContentInv, Await, UNCHANGED <<up, failures, waits>> PROVE ContentInv'
<1>1. op.at = "await" /\ UNCHANGED <<guest, local, box, owed>>
  BY DEF Await
<1>2. op \in GuestOps /\ up' = TRUE /\ Around
  BY <1>1, Stepping DEF ContentInv, GuestTypeOK
<1>3. CASE op.kind = "empty" /\ op' = Loop(op, "detach")
  <2>1. op' \in GuestOps /\ op'.at = "detach" /\ op'.kind = "empty"
    BY <1>2, <1>3, LoopIs
  <2> QED
    BY <1>1, <1>2, <1>3, <2>1, LoopsOn DEF Deleting
<1>4. CASE op.kind = "restore" /\ op.action = "stop" /\ op' = At(op, "copy")
  <2>1. /\ op' \in GuestOps /\ op'.at = "copy" /\ op'.kind = "restore" /\ op'.key = op.key
        /\ op'.snap = op.snap
    BY <1>2, <1>4, AtIs DEF GuestPlaces
  <2>2. OpStands'
    BY <1>1, <1>4, <2>1 DEF ContentInv, OpStands, Settling, BeforeCopy, Deleting
  <2> QED
    BY <1>1, <1>2, <2>1, <2>2, GoesOn DEF Deleting
<1>5. CASE op' = Idle
  BY <1>1, <1>2, <1>5, OverKept
<1>6. CASE Abort
  BY <1>1, <1>2, <1>6, AbortKept
<1> QED
  BY <1>3, <1>4, <1>5, <1>6 DEF Await

LEMMA CopyKept ==
    ASSUME ContentInv, Copy, UNCHANGED <<up, failures, waits>> PROVE ContentInv'
<1>1. /\ op.at = "copy" /\ UNCHANGED <<local, box, owed>>
      /\ op.kind = "restore" /\ op.key \in Known
      /\ owed # NoDisk /\ guest[op.key].snaps[op.snap] = owed
  BY DEF Copy, ContentInv, OpStands, BeforeCopy
<1>2. op \in GuestOps /\ up' = TRUE /\ guest \in [Known -> GuestRecords] /\ Around
  BY <1>1, Stepping DEF ContentInv, GuestTypeOK
<1>3. PICK r \in Copies :
          /\ ~There(r)
          /\ guest' = [guest EXCEPT ![r] = [Absent EXCEPT !.state = "stopped",
                                                          !.disk = guest[op.key].snaps[op.snap]]]
          /\ op' = [At(op, "read") EXCEPT !.copy = r]
  BY DEF Copy
<1> DEFINE g == [Absent EXCEPT !.state = "stopped", !.disk = owed]
<1>4. g \in GuestRecords /\ g.state = "stopped" /\ g.disk = owed /\ g # Absent
  BY AtRest DEF ContentInv, GuestTypeOK, GuestRecords
<1>5. guest' = [guest EXCEPT ![r] = g]
  BY <1>1, <1>3
<1> HIDE DEF g
<1>6. r # op.key
  <2>1. op.snap \in Snaps
    BY <1>1 DEF ContentInv, OpStands
  <2>2. guest[r] = Absent
    BY <1>3 DEF There, ContentInv, GuestTypeOK, Known
  <2> QED
    BY <1>1, <2>1, <2>2, AtRest
<1>7. /\ op' \in GuestOps /\ op'.at = "read" /\ op'.kind = "restore" /\ op'.key = op.key
      /\ op'.copy = r /\ op'.snap = op.snap
  <2>1. /\ At(op, "read") \in GuestOps /\ At(op, "read").at = "read"
        /\ At(op, "read").kind = op.kind /\ At(op, "read").key = op.key
        /\ At(op, "read").snap = op.snap
    BY <1>2, AtIs DEF GuestPlaces
  <2> QED
    BY <1>1, <1>3, <2>1 DEF GuestOps
<1>8. /\ guest' \in [Known -> GuestRecords] /\ guest'[r] = g
      /\ \A k \in Known \ {r} : guest'[k] = guest[k]
  BY <1>2, <1>4, <1>5 DEF Known
<1>9. OpStands'
  BY <1>1, <1>4, <1>6, <1>7, <1>8 DEF ContentInv, OpStands, Settling, BeforeCopy, Deleting, There
<1>10. NewHasNoSnaps'
  BY <1>4, <1>8 DEF ContentInv, NewHasNoSnaps
<1>11. OwedKept'
  <2>1. Holds(r)'
    BY <1>1, <1>4, <1>8 DEF Holds, There
  <2> QED
    BY <1>6, <1>7, <2>1 DEF OwedKept, Keeps, Known
<1>12. GuestTypeOK'
  <2>1. \A k \in Known : guest'[k].state = "absent" <=> guest'[k] = Absent
    BY <1>4, <1>8, AtRest DEF ContentInv, GuestTypeOK
  <2> QED
    BY <1>1, <1>2, <1>7, <1>8, <2>1
       DEF ContentInv, GuestTypeOK, Around, GuestOps, Waiting, GuestRecords
<1> QED
  BY <1>2, <1>9, <1>10, <1>11, <1>12 DEF ContentInv, Around

\* A guest that is being deleted changes or goes, and the operation goes on.
LEMMA DeletingKept ==
    ASSUME ContentInv, op.at \in Deleting, UNCHANGED <<up, failures, waits, local, box, owed>>,
           NEW g \in GuestRecords, guest' = [guest EXCEPT ![op.key] = g],
           g.state = "absent" <=> g = Absent,
           g.state = "creating" => g.snaps = NoSnaps,
           op' \in GuestOps, OpStands',
           op'.at \notin Deleting \/ op'.key = op.key
    PROVE  ContentInv'
<1>1. op \in GuestOps /\ up' = TRUE /\ guest \in [Known -> GuestRecords] /\ Around
  BY Stepping DEF ContentInv, GuestTypeOK, Deleting
<1>2. op.key \in Known
  BY DEF ContentInv, OpStands
<1>3. /\ guest' \in [Known -> GuestRecords] /\ guest'[op.key] = g
      /\ \A k \in Known \ {op.key} : guest'[k] = guest[k]
  BY <1>1, <1>2
<1>4. NewHasNoSnaps'
  BY <1>3 DEF ContentInv, NewHasNoSnaps
<1>5. OwedKept'
  <2>1. ASSUME owed # NoDisk, NEW k \in Known, Keeps(k) PROVE Keeps(k)'
    <3>1. k # op.key /\ guest'[k] = guest[k]
      BY <1>3, <2>1 DEF Keeps
    <3> QED
      BY <2>1, <3>1 DEF Keeps, Holds, There
  <2> QED
    BY <2>1 DEF ContentInv, OwedKept
<1>6. GuestTypeOK'
  BY <1>1, <1>3 DEF ContentInv, GuestTypeOK, Around, GuestOps, Waiting, GuestRecords
<1> QED
  BY <1>1, <1>4, <1>5, <1>6 DEF ContentInv, Around

\* What the place after one of a deletion may rely on, on the same guest.
LEMMA DeletionStands ==
    ASSUME ContentInv, op.at \in Deleting, op.key \in Known, op' \in GuestOps, owed' = owed,
           op'.at \in Deleting \/ (op'.at = "rename" /\ op.kind = "restore"),
           op'.kind = op.kind, op'.key = op.key, op'.snap = op.snap, op'.copy = op.copy,
           \A k \in Known \ {op.key} : guest'[k] = guest[k]
    PROVE  OpStands'
<1>1. op.kind = "restore" => There(op.copy)' /\ guest'[op.copy].disk = owed
  BY DEF ContentInv, OpStands, There, Known
<1> QED
  BY <1>1 DEF ContentInv, OpStands, Settling, BeforeCopy, Deleting

LEMMA ReadKept ==
    ASSUME ContentInv, Read, UNCHANGED <<up, failures, waits>> PROVE ContentInv'
<1>1. op.at = "read" /\ UNCHANGED <<guest, local, box, owed>>
  BY DEF Read
<1>2. op \in GuestOps /\ up' = TRUE /\ Around /\ op.key \in Known
  BY <1>1, Stepping DEF ContentInv, GuestTypeOK, OpStands, Deleting
<1>3. CASE op' = [At(op, "snapshots") EXCEPT !.halt = ~Halted(op.key)]
  <2>1. (~Halted(op.key)) \in BOOLEAN
    BY DEF Halted
  <2>2. /\ At(op, "snapshots") \in GuestOps /\ At(op, "snapshots").at = "snapshots"
        /\ At(op, "snapshots").kind = op.kind /\ At(op, "snapshots").key = op.key
        /\ At(op, "snapshots").snap = op.snap /\ At(op, "snapshots").copy = op.copy
    BY <1>2, AtIs DEF GuestPlaces
  <2>3. /\ op' \in GuestOps /\ op'.at = "snapshots" /\ op'.kind = op.kind /\ op'.key = op.key
        /\ op'.snap = op.snap /\ op'.copy = op.copy
    BY <1>3, <2>1, <2>2 DEF GuestOps
  <2>4. OpStands'
    BY <1>1, <1>2, <2>3, DeletionStands DEF Deleting
  <2> QED
    BY <1>1, <1>2, <2>3, <2>4, GoesOn DEF Deleting
<1>4. CASE op.kind = "empty" /\ op' = Loop(op, "contents")
  <2>1. op' \in GuestOps /\ op'.at = "contents" /\ op'.kind = "empty"
    BY <1>2, <1>4, LoopIs
  <2> QED
    BY <1>1, <1>2, <1>4, <2>1, LoopsOn DEF Deleting
<1>5. CASE Abort
  BY <1>1, <1>2, <1>5, AbortKept
<1> QED
  BY <1>3, <1>4, <1>5 DEF Read

LEMMA SnapshotsKept ==
    ASSUME ContentInv, Snapshots, UNCHANGED <<up, failures, waits>> PROVE ContentInv'
<1>1. op.at = "snapshots" /\ UNCHANGED <<local, box, owed>>
  BY DEF Snapshots
<1>2. op \in GuestOps /\ up' = TRUE /\ guest \in [Known -> GuestRecords] /\ Around /\ op.key \in Known
  BY <1>1, Stepping DEF ContentInv, GuestTypeOK, OpStands, Deleting
<1>3. ASSUME NEW s \in Snaps, guest[op.key].snaps[s] # NoDisk, op' = op,
             guest' = [guest EXCEPT ![op.key].snaps[s] = NoDisk]
      PROVE  ContentInv'
  <2> DEFINE g == [guest[op.key] EXCEPT !.snaps = [guest[op.key].snaps EXCEPT ![s] = NoDisk]]
  <2>1. guest' = [guest EXCEPT ![op.key] = g] /\ g \in GuestRecords /\ g.state = guest[op.key].state
    BY <1>2, <1>3 DEF GuestRecords
  <2>2. g.state \notin {"absent", "creating"}
    BY <1>2, <1>3, <2>1, AtRest DEF ContentInv, GuestTypeOK, NewHasNoSnaps
  <2> HIDE DEF g
  <2>3. \A k \in Known \ {op.key} : guest'[k] = guest[k]
    BY <1>2, <2>1
  <2>4. OpStands'
    BY <1>1, <1>2, <1>3, <2>3, DeletionStands DEF Deleting
  <2> QED
    BY <1>1, <1>2, <1>3, <2>1, <2>2, <2>4, AtRest, DeletingKept DEF Deleting
<1>4. ASSUME NEW place \in {"halt", "remove"}, op' = At(op, place), guest' = guest PROVE ContentInv'
  <2>1. /\ op' \in GuestOps /\ op'.at = place /\ op'.kind = op.kind /\ op'.key = op.key
        /\ op'.snap = op.snap /\ op'.copy = op.copy
    BY <1>2, <1>4, AtIs DEF GuestPlaces
  <2>2. OpStands'
    BY <1>1, <1>2, <1>4, <2>1, DeletionStands DEF Deleting
  <2> QED
    BY <1>1, <1>2, <1>4, <2>1, <2>2, GoesOn DEF Deleting
<1> QED
  BY <1>3, <1>4 DEF Snapshots

LEMMA ForceStopKept ==
    ASSUME ContentInv, ForceStop, UNCHANGED <<up, failures, waits>> PROVE ContentInv'
<1>1. /\ op.at = "halt" /\ UNCHANGED <<local, box, owed>> /\ op' = At(op, "remove")
      /\ guest' = [guest EXCEPT ![op.key].state = IF @ = "running" THEN "stopped" ELSE @]
  BY DEF ForceStop
<1>2. op \in GuestOps /\ up' = TRUE /\ guest \in [Known -> GuestRecords] /\ Around /\ op.key \in Known
  BY <1>1, Stepping DEF ContentInv, GuestTypeOK, OpStands, Deleting
<1> DEFINE old == guest[op.key]
           state == IF old.state = "running" THEN "stopped" ELSE old.state
           g == [old EXCEPT !.state = state]
<1>3. old \in GuestRecords
  BY <1>2
<1>4. state \in {"absent", "creating", "stopped"} /\ (state \in {"absent", "creating"} => state = old.state)
  BY <1>3 DEF GuestRecords
<1>5. guest' = [guest EXCEPT ![op.key] = g]
  BY <1>1, <1>2
<1>6. g \in GuestRecords /\ g.state = state /\ g.snaps = old.snaps
  BY <1>3, <1>4 DEF GuestRecords
<1>7. state = old.state => g = old
  BY <1>3 DEF GuestRecords
<1>8. (old.state = "absent" <=> old = Absent) /\ (old.state = "creating" => old.snaps = NoSnaps)
  BY <1>2 DEF ContentInv, GuestTypeOK, NewHasNoSnaps
<1> HIDE DEF old, state, g
<1>9. (g.state = "absent" <=> g = Absent) /\ (g.state = "creating" => g.snaps = NoSnaps)
  BY <1>4, <1>6, <1>7, <1>8, AtRest
<1>10. /\ op' \in GuestOps /\ op'.at = "remove" /\ op'.kind = op.kind /\ op'.key = op.key
       /\ op'.snap = op.snap /\ op'.copy = op.copy
  BY <1>1, <1>2, AtIs DEF GuestPlaces
<1>11. \A k \in Known \ {op.key} : guest'[k] = guest[k]
  BY <1>2, <1>5
<1>12. OpStands'
  BY <1>1, <1>2, <1>10, <1>11, DeletionStands DEF Deleting
<1> QED
  BY <1>1, <1>2, <1>5, <1>6, <1>9, <1>10, <1>12, DeletingKept DEF Deleting

LEMMA RemoveKept ==
    ASSUME ContentInv, Remove, UNCHANGED <<up, failures, waits>> PROVE ContentInv'
<1>1. op.at = "remove" /\ UNCHANGED <<local, box, owed>>
  BY DEF Remove
<1>2. op \in GuestOps /\ up' = TRUE /\ guest \in [Known -> GuestRecords] /\ Around /\ op.key \in Known
  BY <1>1, Stepping DEF ContentInv, GuestTypeOK, OpStands, Deleting
<1>3. CASE Abort /\ guest' = guest
  BY <1>1, <1>2, <1>3, AbortKept
<1>4. CASE guest' = [guest EXCEPT ![op.key] = Absent]
  <2>1. \A k \in Known \ {op.key} : guest'[k] = guest[k]
    BY <1>2, <1>4
  <2>2. ASSUME op' \in GuestOps, OpStands', op'.at \notin Deleting PROVE ContentInv'
    BY <1>1, <1>2, <1>4, <2>2, AtRest, DeletingKept DEF Deleting
  <2>3. CASE op' = Idle
    <3>1. OpStands'
      BY <2>3, AtRest DEF OpStands, Settling, BeforeCopy, Deleting
    <3> QED
      BY <2>2, <2>3, <3>1, AtRest DEF Deleting
  <2>4. CASE op.kind = "restore" /\ op' = At(op, "rename")
    <3>1. /\ op' \in GuestOps /\ op'.at = "rename" /\ op'.kind = op.kind /\ op'.key = op.key
          /\ op'.snap = op.snap /\ op'.copy = op.copy
      BY <1>2, <2>4, AtIs DEF GuestPlaces
    <3>2. OpStands'
      BY <1>1, <1>2, <2>1, <2>4, <3>1, DeletionStands DEF Deleting
    <3> QED
      BY <2>2, <3>1, <3>2 DEF Deleting
  <2>5. CASE op.kind = "empty" /\ op' = Loop(op, "contents")
    <3>1. op' \in GuestOps /\ op'.at = "contents" /\ op'.kind = "empty"
      BY <1>2, <2>5, LoopIs
    <3>2. OpStands'
      BY <1>1, <2>5, <3>1 DEF ContentInv, OpStands, Deleting
    <3> QED
      BY <2>2, <3>1, <3>2 DEF Deleting
  <2>6. op.kind \in {"delete", "restore", "empty"}
    BY <1>1 DEF ContentInv, OpStands, Deleting
  <2>7. guest[op.key].state = "stopped" \/ (Abort /\ guest' = guest)
    BY DEF Remove
  <2> QED
    BY <1>3, <2>3, <2>4, <2>5, <2>6, <2>7 DEF Remove
<1> QED
  BY <1>3, <1>4 DEF Remove

LEMMA RenameKept ==
    ASSUME ContentInv, Rename, UNCHANGED <<up, failures, waits>> PROVE ContentInv'
<1>1. /\ op.at = "rename" /\ UNCHANGED <<local, box>> /\ owed' = NoDisk
      /\ guest' = [guest EXCEPT ![op.key] = guest[op.copy], ![op.copy] = Absent]
      /\ op' = [At(op, "update") EXCEPT !.action = "start", !.copy = NoName, !.snap = NoSnap,
                                        !.halt = FALSE]
  BY DEF Rename
<1>2. op \in GuestOps /\ up' = TRUE /\ guest \in [Known -> GuestRecords] /\ Around
  BY <1>1, Stepping DEF ContentInv, GuestTypeOK
<1>3. op.kind = "restore" /\ op.key \in Known /\ op.copy \in Known
  BY <1>1 DEF ContentInv, OpStands, Deleting, Known
<1>4. /\ op' \in GuestOps /\ op'.at = "update" /\ op'.kind = "restore" /\ op'.key = op.key
      /\ op'.action = "start"
  <2>1. /\ At(op, "update") \in GuestOps /\ At(op, "update").at = "update"
        /\ At(op, "update").kind = op.kind /\ At(op, "update").key = op.key
    BY <1>2, AtIs DEF GuestPlaces
  <2> QED
    BY <1>1, <1>3, <2>1 DEF GuestOps
<1>5. /\ guest' \in [Known -> GuestRecords]
      /\ \A k \in Known : guest'[k] \in {guest[k], guest[op.copy], Absent}
  BY <1>1, <1>2, <1>3, AtRest
<1>6. OpStands' /\ OwedKept'
  BY <1>1, <1>3, <1>4 DEF OpStands, OwedKept, Settling, BeforeCopy, Deleting
<1>7. NewHasNoSnaps'
  BY <1>3, <1>5, AtRest DEF ContentInv, NewHasNoSnaps
<1>8. \A k \in Known : guest'[k].state = "absent" <=> guest'[k] = Absent
  BY <1>3, <1>5, AtRest DEF ContentInv, GuestTypeOK
<1>9. GuestTypeOK'
  BY <1>1, <1>2, <1>4, <1>5, <1>8 DEF ContentInv, GuestTypeOK, Around, GuestOps, Waiting, GuestRecords
<1> QED
  BY <1>2, <1>6, <1>7, <1>9 DEF ContentInv, Around

LEMMA ContentStepInv == ContentInv /\ [GuestNext]_guestVars => ContentInv'
<1> SUFFICES ASSUME ContentInv, [GuestNext]_guestVars PROVE ContentInv'
  OBVIOUS
<1>1. CASE Call
  <2>1. ASSUME NEW n \in GuestNames, NEW s \in Snaps,
               CreateSnapshot(n, s) \/ DeleteSnapshot(n, s) \/ RestoreSnapshot(n, s)
        PROVE  ContentInv'
    BY <2>1, GuestOwnKept, DeleteSnapshotKept, RestoreBegunKept
  <2> QED
    BY <1>1, <2>1, AsideCallsKept, CreateInstanceKept, ChangeKept, DeleteBegunHolds DEF Call
<1>2. CASE OpStep
  <2>1. UNCHANGED <<up, failures, waits>>
    BY <1>2 DEF OpStep
  <2> QED
    BY <1>2, <2>1, DetachKept, ContentsKept, UpdateKept, AwaitKept, CopyKept, ReadKept, SnapshotsKept,
       ForceStopKept, RemoveKept, RenameKept DEF OpStep
<1>3. CASE UNCHANGED guestVars
  <2>1. UNCHANGED <<up, box, guest, local, op, waits, owed, failures>>
    BY <1>3 DEF guestVars
  <2> QED
    BY <2>1, AsideKept, Untouched DEF ContentInv, GuestTypeOK
<1>4. CASE \E n \in GuestNames : FinishCreate(n) \/ Write(n) \/ Shutdown(n)
  BY <1>4, FinishCreateKept, GuestOwnKept
<1>5. CASE \E c \in Creators : WaitStep(c) \/ Timeout(c)
  BY <1>5, WaitsKept
<1>6. CASE Starts \/ Dies \/ Expire \/ Cut \/ CallFails \/ \E bounded \in BOOLEAN : Empty(bounded)
  BY <1>6, AsideCallsKept, CutsKept, CallFailsKept, EmptyBegunHolds
<1> QED
  BY <1>1, <1>2, <1>3, <1>4, <1>5, <1>6 DEF GuestNext

LEMMA ContentInitInv == GuestInit => ContentInv
<1> SUFFICES ASSUME GuestInit PROVE ContentInv
  OBVIOUS
<1>1. GuestTypeOK
  BY AtRest, GuestTypes DEF GuestInit, GuestTypeOK, GuestOps, GuestRecords, Waiting
<1>2. OpStands /\ WaitsNamed /\ OwedKept /\ NewHasNoSnaps
  BY AtRest DEF GuestInit, OpStands, WaitsNamed, OwedKept, NewHasNoSnaps, Settling, BeforeCopy, Deleting
<1> QED
  BY <1>1, <1>2 DEF ContentInv

\* ContentKept: wherever a restore is cut off, and whatever creations and the
\* guests themselves do meanwhile, its content is in the project.
THEOREM RestoreLosesNothing == GuestSpec => []ContentKept
<1>1. ContentInv => ContentKept
  BY DEF ContentInv, OwedKept, Keeps, Holds, ContentKept, Held
<1> QED
  BY <1>1, ContentInitInv, ContentStepInv, PTL DEF GuestSpec

=============================================================================
