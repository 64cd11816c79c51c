---------------------------- MODULE IncusCatalog ----------------------------
(***************************************************************************)
(* internal/incus/reconcile.go: what a start of the server does before it  *)
(* serves.  The entries of the catalog file are ensured one after another  *)
(* in the image-build project: the image of a digest reference is found or *)
(* imported, a guest of it must pass the smoke checks, the digest is       *)
(* written on the image and the entry's alias moved to it.  The project is *)
(* shared with the image builds and outlives the server: a start may find  *)
(* whatever an earlier one, of another catalog, left where it failed.      *)
(*                                                                         *)
(* One call to Incus or the registry is one step.  A call that fails,      *)
(* before or after its effect, ends the start; so does a crash.            *)
(***************************************************************************)
EXTENDS Naturals, Sequences

CONSTANTS
    Releases,       \* the catalog files there are
    CatalogOf,      \* each one's entries, in order
    Aliases,        \* names in the image-build project
    Digests,        \* of the references
    Fingerprints,   \* of images: derived from their content
    ContentOf,      \* the image a digest's files make
    Broken,         \* images that cannot pass the smoke checks
    Upstream,       \* an image fetched from its remote on first use
    NoDigest, NoImage, NoRelease,
    MaxFaults,    \* bound: faults and crashes
    MaxImports      \* bound: images the image builds add

Entries == [name : Aliases, kind : {"alias", "digest", "upstream"}, digest : Digests]

ASSUME CatalogTypes ==
    /\ CatalogOf \in [Releases -> Seq(Entries)]
    /\ ContentOf \in [Digests -> Fingerprints]
    /\ Broken \subseteq Fingerprints
    /\ NoDigest \notin Digests /\ "missing" \notin Digests \cup {NoDigest}
    /\ Upstream \notin Fingerprints /\ NoImage \notin Fingerprints \cup {Upstream}
    /\ NoRelease \notin Releases
    /\ MaxFaults \in Nat /\ MaxImports \in Nat

\* The names the image builds keep are not those the server promotes.
ASSUME NamesApart ==
    \A r, q \in Releases : \A i \in 1..Len(CatalogOf[r]), j \in 1..Len(CatalogOf[q]) :
        CatalogOf[r][i].name = CatalogOf[q][j].name => CatalogOf[r][i].kind = CatalogOf[q][j].kind

VARIABLES
    phase,          \* "down", "starting" or "serving"
    release,        \* the catalog file of this start
    todo,           \* its entry in hand
    step,           \* where ensureImage stands
    found,          \* the image in hand
    passed,         \* the verdict of its smoke checks
    served,         \* the fingerprints the service was given, by name
    images,         \* image-build: each image's agentcompute.digest
    aliases,        \* image-build: what each alias points to
    smokes,         \* image-build: how many smoke guests there are
    imports, faults

server == <<phase, release, todo, step, found, passed, served>>
project == <<images, aliases, smokes>>
catalogVars == <<server, project, imports, faults>>

Steps == {"none", "resolve", "import", "create", "smoke", "checks", "clean", "record", "promote"}

CatalogTypeOK ==
    /\ phase \in {"down", "starting", "serving"}
    /\ release \in Releases \cup {NoRelease}
    /\ todo \in Nat
    /\ step \in Steps
    /\ found \in Fingerprints \cup {NoImage}
    /\ passed \in BOOLEAN
    /\ served \in [Aliases -> Fingerprints \cup {Upstream, NoImage}]
    /\ images \in [Fingerprints -> Digests \cup {NoDigest, "missing"}]
    /\ aliases \in [Aliases -> Fingerprints \cup {NoImage}]
    /\ smokes \in Nat
    /\ imports \in 0..MaxImports
    /\ faults \in 0..MaxFaults
    /\ phase = "starting" <=> step # "none"
    /\ phase = "starting" => release \in Releases /\ todo \in 1..Len(CatalogOf[release])

NoneServed == [a \in Aliases |-> NoImage]
KeptByBuilds == {a \in Aliases : \E r \in Releases : \E i \in 1..Len(CatalogOf[r]) :
                    CatalogOf[r][i].name = a /\ CatalogOf[r][i].kind = "alias"}

CatalogInit ==
    /\ phase = "down" /\ release = NoRelease /\ todo = 0 /\ step = "none"
    /\ found = NoImage /\ passed = FALSE /\ served = NoneServed
    /\ images = [f \in Fingerprints |-> "missing"]
    /\ aliases = [a \in Aliases |-> NoImage]
    /\ smokes = 0 /\ imports = 0 /\ faults = 0

-----------------------------------------------------------------------------
Entry == CatalogOf[release][todo]
Present(f) == images[f] # "missing"
Goto(s) == step' = s /\ UNCHANGED <<phase, release, todo, served>>

\* newRuntime returns the error of EnsureCatalog.
GiveUp ==
    /\ phase' = "down" /\ release' = NoRelease /\ todo' = 0 /\ step' = "none"
    /\ found' = NoImage /\ passed' = FALSE /\ served' = NoneServed

\* ensureImage returned f: the next entry, or the service is built.
Ensured(f) ==
    /\ served' = [served EXCEPT ![Entry.name] = f]
    /\ found' = NoImage /\ passed' = FALSE
    /\ IF todo < Len(CatalogOf[release])
       THEN todo' = todo + 1 /\ step' = "resolve" /\ UNCHANGED <<phase, release>>
       ELSE todo' = 0 /\ step' = "none" /\ phase' = "serving" /\ UNCHANGED release

Start(r) ==
    /\ phase = "down"
    /\ release' = r
    /\ IF CatalogOf[r] = <<>>
       THEN phase' = "serving" /\ UNCHANGED <<todo, step>>
       ELSE phase' = "starting" /\ todo' = 1 /\ step' = "resolve"
    /\ UNCHANGED <<found, passed, served, project, imports, faults>>

\* ensureImage's first look: a local alias, a remote, or the alias of a digest.
Resolve ==
    /\ step = "resolve"
    /\ LET f == aliases[Entry.name] IN
       \/ /\ Entry.kind = "alias" /\ f # NoImage
          /\ Ensured(f)
       \/ /\ Entry.kind = "alias" /\ f = NoImage
          /\ GiveUp
       \/ /\ Entry.kind = "upstream"
          /\ Ensured(Upstream)
       \/ /\ Entry.kind = "digest" /\ f # NoImage /\ images[f] = Entry.digest
          /\ Ensured(f)
       \/ /\ Entry.kind = "digest" /\ ~(f # NoImage /\ images[f] = Entry.digest)
          /\ Goto("import") /\ UNCHANGED <<found, passed>>
    /\ UNCHANGED <<project, imports, faults>>

\* Any image that carries the digest, or the one its verified files make.
Import ==
    /\ step = "import"
    /\ \/ /\ \E f \in Fingerprints : images[f] = Entry.digest /\ found' = f
          /\ Goto("smoke")
       \/ /\ \A f \in Fingerprints : images[f] # Entry.digest
          /\ Present(ContentOf[Entry.digest])
          /\ found' = ContentOf[Entry.digest]
          /\ Goto("smoke")
       \/ /\ \A f \in Fingerprints : images[f] # Entry.digest
          /\ ~Present(ContentOf[Entry.digest])
          /\ found' = ContentOf[Entry.digest]
          /\ Goto("create")
    /\ UNCHANGED <<passed, project, imports, faults>>

\* A conflict: somebody else imported it meanwhile, and it is theirs that is used.
CreateImage ==
    /\ step = "create"
    /\ images' = [images EXCEPT ![found] = IF Present(found) THEN @ ELSE NoDigest]
    /\ Goto("smoke")
    /\ UNCHANGED <<found, passed, aliases, smokes, imports, faults>>

SmokeLaunch ==
    /\ step = "smoke"
    /\ smokes' = smokes + 1
    /\ Goto("checks")
    /\ UNCHANGED <<found, passed, images, aliases, imports, faults>>

\* Every command exits with 0 in the end, or one fails or does not in time.
Verdicts == IF found \in Broken THEN {FALSE} ELSE BOOLEAN

\* Fault: a failing check returns before its guest is deleted.
ChecksUndeferred ==
    /\ step = "checks"
    /\ \/ /\ found \notin Broken /\ passed' = TRUE /\ Goto("clean") /\ UNCHANGED found
       \/ GiveUp
    /\ UNCHANGED <<project, imports, faults>>

Checks ==
    /\ step = "checks"
    /\ passed' \in Verdicts
    /\ Goto("clean")
    /\ UNCHANGED <<found, project, imports, faults>>

\* Fault: the error of the checks is lost to that of the clean-up.
CleanUnheeding ==
    /\ step = "clean"
    /\ smokes' = smokes - 1
    /\ Goto("record")
    /\ UNCHANGED <<found, passed, images, aliases, imports, faults>>

\* The deferred deleteInstance, whatever the verdict.
Clean ==
    /\ step = "clean"
    /\ smokes' = smokes - 1
    /\ IF passed THEN Goto("record") /\ UNCHANGED <<found, passed>> ELSE GiveUp
    /\ UNCHANGED <<images, aliases, imports, faults>>

RecordDigest ==
    /\ step = "record"
    /\ IF images[found] \in {NoDigest, Entry.digest}
       THEN /\ images' = [images EXCEPT ![found] = Entry.digest]
            /\ Goto("promote") /\ UNCHANGED <<found, passed>>
       ELSE GiveUp /\ UNCHANGED images
    /\ UNCHANGED <<aliases, smokes, imports, faults>>

PromoteAlias ==
    /\ step = "promote"
    /\ aliases' = [aliases EXCEPT ![Entry.name] = found]
    /\ Ensured(found)
    /\ UNCHANGED <<images, smokes, imports, faults>>

-----------------------------------------------------------------------------
\* A call fails, its effect made or not, and the start with it.  A failure of
\* the checks is a verdict, and one of the clean-up may leave the guest.
StartFails ==
    /\ phase = "starting" /\ step # "checks"
    /\ faults < MaxFaults
    /\ faults' = faults + 1
    /\ GiveUp
    /\ \/ UNCHANGED project
       \/ /\ step = "create"
          /\ images' = [images EXCEPT ![found] = IF Present(found) THEN @ ELSE NoDigest]
          /\ UNCHANGED <<aliases, smokes>>
       \/ /\ step = "smoke" /\ smokes' = smokes + 1
          /\ UNCHANGED <<images, aliases>>
       \/ /\ step = "clean" /\ smokes' = smokes - 1
          /\ UNCHANGED <<images, aliases>>
       \/ /\ step = "record" /\ images[found] = NoDigest
          /\ images' = [images EXCEPT ![found] = Entry.digest]
          /\ UNCHANGED <<aliases, smokes>>
       \/ /\ step = "promote"
          /\ aliases' = [aliases EXCEPT ![Entry.name] = found]
          /\ UNCHANGED <<images, smokes>>
    /\ UNCHANGED imports

\* The process dies, starting or serving; what is in Incus stays.
Crash ==
    /\ phase # "down"
    /\ faults < MaxFaults
    /\ faults' = faults + 1
    /\ GiveUp
    /\ UNCHANGED <<project, imports>>

\* An image build adds a candidate, or moves an alias of its own to one.
BuildImports(f) ==
    /\ imports < MaxImports
    /\ imports' = imports + 1
    /\ images' = [images EXCEPT ![f] = IF Present(f) THEN @ ELSE NoDigest]
    /\ \/ UNCHANGED aliases
       \/ \E a \in KeptByBuilds : aliases' = [aliases EXCEPT ![a] = f]
    /\ UNCHANGED <<server, smokes, faults>>

Reconcile ==
    Resolve \/ Import \/ CreateImage \/ SmokeLaunch \/ Checks \/ Clean \/ RecordDigest \/ PromoteAlias

CatalogNext ==
    \/ \E r \in Releases : Start(r)
    \/ Reconcile
    \/ StartFails
    \/ Crash
    \/ \E f \in Fingerprints : BuildImports(f)

CatalogSpec == CatalogInit /\ [][CatalogNext]_catalogVars

-----------------------------------------------------------------------------
Promoted(a) == a \notin KeptByBuilds

\* An alias the server promotes and an image it gives the service have passed
\* their smoke checks: no start that failed or died on the way, and no other
\* catalog, made it skip them (reconcile.go:60-66, images/README.md:162).
OnlySmoked ==
    \A a \in Aliases : Promoted(a) => aliases[a] \notin Broken /\ served[a] \notin Broken

\* A smoke guest outlives its start only when that died or could not delete
\* it: a failing check, the deadline and a cancellation all delete it.
NoStraySmoke ==
    smokes <= faults + (IF step \in {"checks", "clean"} THEN 1 ELSE 0)
=============================================================================
