---------------------------- MODULE ContextAccess ----------------------------
(***************************************************************************)
(* Which context keys a stage may read and write: context.read and         *)
(* context.write are patterns of segments, in which "*" stands for one     *)
(* segment and "**" for any number.                                        *)
(***************************************************************************)
EXTENDS Naturals, Sequences

(* globMatch, from the segments where it stands.                           *)
RECURSIVE GlobMatch(_, _)
GlobMatch(pattern, key) ==
    CASE pattern = <<>> \/ key = <<>> ->
           key = <<>> /\ \A i \in DOMAIN pattern: pattern[i] = "**"
      [] pattern # <<>> /\ key # <<>> /\ pattern[1] = "**" ->
           \E skip \in 0 .. Len(key):
               GlobMatch(Tail(pattern), SubSeq(key, skip + 1, Len(key)))
      [] OTHER -> pattern[1] \in {"*", key[1]} /\ GlobMatch(Tail(pattern), Tail(key))

(* A "*" alone means every key.                                            *)
MatchGlob(pattern, key) == pattern = <<"*">> \/ GlobMatch(pattern, key)

(* checkReadAccess and checkWriteAccess                                    *)
Allowed(patterns, key) == \E pattern \in patterns: MatchGlob(pattern, key)

(* What matchGlob promises: the key can be cut into as many pieces as the  *)
(* pattern has segments, and every piece is what its segment stands for.   *)
Matches(pattern, key) ==
    pattern = <<"*">> \/
    \E cut \in [0 .. Len(pattern) -> 0 .. Len(key)]:
        /\ cut[0] = 0 /\ cut[Len(pattern)] = Len(key)
        /\ \A i \in DOMAIN pattern:
              IF pattern[i] = "**" THEN cut[i - 1] <= cut[i]
              ELSE /\ cut[i] = cut[i - 1] + 1
                   /\ pattern[i] \in {"*", key[cut[i]]}
=============================================================================
