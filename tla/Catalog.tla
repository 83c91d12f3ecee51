------------------------------- MODULE Catalog -------------------------------
(***************************************************************************)
(* The firmware catalog: which firmwares a profile selects                 *)
(* (compat/runner/catalog.py), and which commit, release and patches belong *)
(* together (the tables compat/runner/harness.py looks up).                *)
(***************************************************************************)
EXTENDS Sequences, SequencesExt

CONSTANTS
  ReleaseMappings,  \* release_mappings of firmwares.yaml: <<[id, core_commit], ...>>
  Aliases,          \* aliases: a function from names to ids
  Firmwares,        \* firmwares: <<[id, ref], ...>>
  CompatPatches,    \* CORE_COMPAT_PATCHES: the patches of each commit
  SkipIfPresent     \* CORE_COMPAT_PATCH_SKIP_IF_PRESENT

Ids == [i \in DOMAIN Firmwares |-> Firmwares[i].id]
FirmwareIds == ToSet(Ids)
Releases == {m.id : m \in ToSet(ReleaseMappings)}
MappedCommits == {m.core_commit : m \in ToSet(ReleaseMappings)}

ASSUME CatalogAssumption ==
  /\ Firmwares \in Seq(ToSet(Firmwares))
  /\ IsInjective(Ids)
  /\ IsInjective([i \in DOMAIN ReleaseMappings |-> ReleaseMappings[i].id])
  /\ IsInjective([i \in DOMAIN ReleaseMappings |-> ReleaseMappings[i].core_commit])
-----------------------------------------------------------------------------
(* list_firmwares                                                          *)

\* Mutant: the development branch counts as a release.
NotHeadAll(id) == TRUE

NotHead(id) == id # "head"

Resolved(name) == IF name \in DOMAIN Aliases THEN Aliases[name] ELSE name

AddRelease(ids, id) == IF NotHead(id) THEN Append(ids, id) ELSE ids

IdsOf(requested) ==
  IF requested = "all-supported-releases" THEN FoldLeft(AddRelease, <<>>, Ids) ELSE <<Resolved(requested)>>

Expansion(profile) == FlattenSeq([i \in DOMAIN profile |-> IdsOf(profile[i])])

SelectOnce(selected, id) ==
  IF Contains(selected, id) THEN selected ELSE Append(selected, id)

NotListed == [error |-> TRUE, ids |-> <<>>]

\* The ids selected by a profile's list of names, or a ValueError.
ListFirmwares(profile) ==
  IF ToSet(Expansion(profile)) \subseteq FirmwareIds
    THEN [error |-> FALSE, ids |-> FoldLeft(SelectOnce, <<>>, Expansion(profile))]
    ELSE NotListed
-----------------------------------------------------------------------------
(* Commits, releases and patches.                                          *)

Unmapped == "no version"

\* Mutant: a release is fetched by its own name, which may be a tag of another.
FetchRefByName(ref) == ref

\* What resolve_core fetches for --core-ref: the commit of a release, else the ref.
FetchRef(ref) ==
  IF ref \in Releases
    THEN (CHOOSE m \in ToSet(ReleaseMappings) : m.id = ref).core_commit
    ELSE ref

FirmwareVersionForSha(sha) ==
  IF sha \in MappedCommits
    THEN (CHOOSE m \in ToSet(ReleaseMappings) : m.core_commit = sha).id
    ELSE Unmapped

PatchesOf(sha) == IF sha \in DOMAIN CompatPatches THEN CompatPatches[sha] ELSE {}
-----------------------------------------------------------------------------
(* Reference definition of what a profile selects.                         *)

\* The place at which a profile first asks for a firmware: the place of the name
\* in the profile, then the place of the firmware in the catalog.
AsksFor(name, id) ==
  \/ name = "all-supported-releases" /\ id # "head" /\ id \in FirmwareIds
  \/ name # "all-supported-releases" /\ name \in DOMAIN Aliases /\ Aliases[name] = id
  \/ name # "all-supported-releases" /\ name \notin DOMAIN Aliases /\ name = id

FirstAsked(profile, id) == SelectInSeq(profile, LAMBDA name : AsksFor(name, id))

IsSelection(profile, ids) ==
  /\ ToSet(ids) = {id \in FirmwareIds : FirstAsked(profile, id) # 0}
  /\ \A i, j \in DOMAIN ids : i < j =>
       \/ FirstAsked(profile, ids[i]) < FirstAsked(profile, ids[j])
       \/ /\ FirstAsked(profile, ids[i]) = FirstAsked(profile, ids[j])
          /\ SelectInSeq(Ids, LAMBDA id : id = ids[i]) < SelectInSeq(Ids, LAMBDA id : id = ids[j])
=============================================================================
