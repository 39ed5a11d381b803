---------------------------- MODULE BuildEvidence ----------------------------
(***************************************************************************)
(* The evidence that the build script emits about the native artifacts:    *)
(* main of llama-cpp-sys-2/build.rs as far as it gathers the artifacts      *)
(* (insert_artifact, system_ggml_artifacts), and BuildEvidence::collect of  *)
(* build_evidence.rs, which fingerprints one file after the other while    *)
(* other processes go on (FileFingerprint).                                 *)
(*                                                                         *)
(* Logical names are numbers, in their lexical order; which libraries cmake *)
(* has built is an input.  Every error panics the script.                  *)
(***************************************************************************)
EXTENDS FileFingerprint

CONSTANTS
  KNOWN_FEATURES,  \* the features of that table
  CanonicalNames,  \* the logical names that validate_logical_name accepts
  Required,        \* the names that system_ggml_artifacts requires
  MAX_ARTIFACTS,
  PlainPaths,      \* the paths that are UTF-8 without line breaks
  Builds           \* the features Cargo may have activated, with the artifacts that
                   \* cmake has then built and the lines of CMakeCache.txt

ASSUME EvidenceAssumption ==
  /\ MAX_ARTIFACTS \in Nat
  /\ Required \subseteq CanonicalNames
  /\ PlainPaths \subseteq Paths
  /\ \A build \in Builds :
       /\ \A a \in build.produced : a.path \in Paths
       /\ \A k \in DOMAIN build.cmake_cache : build.cmake_cache[k].value \in Paths

VARIABLES
  pc,         \* "features", "gather", "collect", "emitted" or "failed"
  active,     \* the activated features
  produced,   \* the artifacts cmake has built
  cmake_cache,
  features,   \* effective_features
  gathered,   \* native_artifacts, when collect is called
  inputs,     \* collect: the artifacts still to fingerprint
  by_name,    \* collect: the fingerprints, in the order of the names
  rerun,      \* the paths printed with rerun-if-changed
  metadata_entries  \* the artifacts in the metadata printed for dependents

env_vars == <<active, produced, cmake_cache>>
vars == <<file_vars, env_vars, pc, features, gathered, inputs, by_name, rerun,
          metadata_entries>>

Init ==
  /\ FileInit
  /\ pc = "features"
  /\ \E build \in Builds : /\ active = build.active
                           /\ produced = build.produced
                           /\ cmake_cache = build.cmake_cache
  /\ features = {}
  /\ gathered = {}
  /\ inputs = <<>>
  /\ by_name = <<>>
  /\ rerun = {}
  /\ metadata_entries = <<>>

----------------------------------------------------------------------------
\* Faulty variant: unknown features are passed over.
features_known_any == TRUE

\* effective_features rejects a feature that is not in the table.  What it returns is
\* sorted, so that validate_features in collect accepts it.
features_known == active \subseteq KNOWN_FEATURES

EffectiveFeatures ==
  /\ pc = "features"
  /\ pc' = IF features_known THEN "gather" ELSE "failed"
  /\ features' = active \cap KNOWN_FEATURES
  /\ UNCHANGED <<file_vars, env_vars, gathered, inputs, by_name, rerun, metadata_entries>>

\* system_ggml_artifacts: every GGML library in the cache was found, is listed
\* once, and the required ones are among them.
ggml_lines == {k \in DOMAIN cmake_cache : cmake_cache[k].is_ggml}
cache_ok ==
  /\ \A k \in ggml_lines : cmake_cache[k].found
  /\ \A j, k \in ggml_lines : cmake_cache[j].name = cmake_cache[k].name => j = k
  /\ Required \subseteq {cmake_cache[k].name : k \in ggml_lines}
selected_external ==
  {[logical_name |-> cmake_cache[k].name, path |-> cmake_cache[k].value, external |-> TRUE] :
     k \in ggml_lines}

system_ggml == "system-ggml" \in active

\* insert_artifact for all of them: a name stands for one file of one origin.
insert_ok(all) == \A a, b \in all : a.logical_name = b.logical_name => a = b

\* BTreeMap::into_values: the sequence of them in the order of the names (there is one)
sorted(all) ==
  {s \in UNION {[1..n -> all] : n \in 1..MAX_ARTIFACTS} :
     /\ \A a \in all : \E k \in DOMAIN s : s[k] = a
     /\ \A j, k \in DOMAIN s : j < k => s[j].logical_name < s[k].logical_name}

Gather ==
  LET all == produced \cup IF system_ggml THEN selected_external ELSE {}
      ok  == /\ produced # {}
             /\ system_ggml => "dynamic-backends" \notin active /\ cache_ok
             /\ insert_ok(all)
  IN /\ pc = "gather"
     /\ gathered' = all
     /\ \/ ~ok /\ pc' = "failed" /\ UNCHANGED inputs
        \/ ok /\ Cardinality(all) > MAX_ARTIFACTS /\ pc' = "failed" /\ UNCHANGED inputs
        \/ ok /\ Cardinality(all) <= MAX_ARTIFACTS /\ pc' = "collect" /\ inputs' \in sorted(all)
     /\ UNCHANGED <<file_vars, env_vars, features, by_name, rerun, metadata_entries>>

----------------------------------------------------------------------------
\* collect, for the next artifact
Collecting == pc = "collect" /\ inputs # <<>>
input == Head(inputs)

input_ok == /\ input.logical_name \in CanonicalNames
            /\ input.external => input.path \in PlainPaths

RejectInput ==
  /\ Collecting
  /\ handle.pass = "idle"
  /\ ~input_ok
  /\ pc' = "failed"
  /\ UNCHANGED <<file_vars, env_vars, features, gathered, inputs, by_name, rerun,
                 metadata_entries>>

\* Faulty variant: the directive is forgotten.
no_directive == rerun

\* The directive for an external artifact comes before its file is opened.
rerun_if_changed == rerun \cup IF input.external THEN {input.path} ELSE {}

OpenInput ==
  /\ Collecting
  /\ input_ok
  /\ rerun' = rerun_if_changed
  /\ \/ Open(input.path) /\ UNCHANGED pc
     \/ CannotOpen(input.path) /\ pc' = "failed"
  /\ UNCHANGED <<env_vars, features, gathered, inputs, by_name, metadata_entries>>

ReadInput ==
  /\ Collecting
  /\ Read
  /\ UNCHANGED <<env_vars, pc, features, gathered, inputs, by_name, rerun, metadata_entries>>

\* hash_stable_file fails.
CollectFails ==
  /\ Collecting
  /\ Fail \/ (Unstable /\ Close)
  /\ pc' = "failed"
  /\ UNCHANGED <<env_vars, features, gathered, inputs, by_name, rerun, metadata_entries>>

\* hash_stable_file succeeds: the entry is inserted.
Insert ==
  /\ Collecting
  /\ Stable
  /\ Close
  /\ by_name' = Append(by_name, [logical_name |-> input.logical_name,
                                 artifact     |-> fingerprint(metadata(handle.ino))])
  /\ inputs' = Tail(inputs)
  /\ UNCHANGED <<env_vars, pc, features, gathered, rerun, metadata_entries>>

\* The digest, and emit_cargo_metadata.
Emit ==
  /\ pc = "collect"
  /\ inputs = <<>>
  /\ pc' = "emitted"
  /\ metadata_entries' = by_name
  /\ UNCHANGED <<file_vars, env_vars, features, gathered, inputs, by_name, rerun>>

OthersStep ==
  /\ pc = "collect"
  /\ Others
  /\ UNCHANGED <<env_vars, pc, features, gathered, inputs, by_name, rerun, metadata_entries>>

Next ==
  \/ EffectiveFeatures
  \/ Gather
  \/ RejectInput
  \/ OpenInput
  \/ ReadInput
  \/ CollectFails
  \/ Insert
  \/ Emit
  \/ OthersStep

Spec == Init /\ [][Next]_vars

----------------------------------------------------------------------------
(* Properties *)

\* The script and the file being fingerprinted have their types.
TypeOK ==
  /\ pc \in {"features", "gather", "collect", "emitted", "failed"}
  /\ handle.pass # "idle" => pc = "collect" /\ handle.ino \in DOMAIN inodes
  /\ rerun \subseteq Paths
  /\ \A k \in DOMAIN by_name : by_name[k].artifact.byte_len \in Nat

\* What is emitted accounts for every feature and every artifact once, in the order
\* of the names, the required system libraries included; and Cargo was told to
\* watch each external file.
EvidenceComplete ==
  pc = "emitted" =>
    /\ features = active
    /\ {metadata_entries[k].logical_name : k \in DOMAIN metadata_entries} =
         {a.logical_name : a \in gathered}
    /\ \A j, k \in DOMAIN metadata_entries :
         j < k => metadata_entries[j].logical_name < metadata_entries[k].logical_name
    /\ \A a \in gathered : a.external => a.path \in rerun
    /\ system_ggml => Required \subseteq {a.logical_name : a \in gathered}
=============================================================================
