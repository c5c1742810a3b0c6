-------------------------- MODULE MCWorkspaceData --------------------------
(* Instances of the modules of a workspace's data for TLC.  They share no    *)
(* state, so a behaviour is one of one of them (part).                       *)
EXTENDS ShareLinks, Reviews, Curation, Universes, Artifacts

VARIABLE part

DataInit ==
    /\ part \in {"links", "reviews", "curation", "universes", "artifacts"}
    /\ LinkInit /\ ReviewInit /\ CurationInit /\ UniverseInit /\ ArtifactInit

LinksPart ==
    /\ part = "links" /\ LinkNext
    /\ UNCHANGED <<part, reviewVars, curationVars, universeVars, artifactVars>>

ReviewsPart ==
    /\ part = "reviews" /\ ReviewNext
    /\ UNCHANGED <<part, linkVars, curationVars, universeVars, artifactVars>>

CurationPart ==
    /\ part = "curation" /\ CurationNext
    /\ UNCHANGED <<part, linkVars, reviewVars, universeVars, artifactVars>>

UniversesPart ==
    /\ part = "universes" /\ UniverseNext
    /\ UNCHANGED <<part, linkVars, reviewVars, curationVars, artifactVars>>

ArtifactsPart ==
    /\ part = "artifacts" /\ ArtifactNext
    /\ UNCHANGED <<part, linkVars, reviewVars, curationVars, universeVars>>

DataNext == LinksPart \/ ReviewsPart \/ CurationPart \/ UniversesPart \/ ArtifactsPart

DataSpec ==
    DataInit /\ [][DataNext]_<<part, linkVars, reviewVars, curationVars, universeVars, artifactVars>>

\* All five modules keep their types.
DataTypeOK ==
    LinkTypeOK /\ ReviewTypeOK /\ CurationTypeOK /\ UniverseTypeOK /\ ArtifactTypeOK

=============================================================================
