---------------------------- MODULE PrVerifierMC ----------------------------
(***************************************************************************)
(* A small instance of PrVerifier: changes of up to three files, of which  *)
(* a request holds two units and there are two requests, so that files     *)
(* fit, share a request, have one of their own or are left out; inputs of  *)
(* four characters to be divided into at most three ranges, five counted,  *)
(* which are related as the two limits of the source are.                  *)
(***************************************************************************)
EXTENDS PrVerifier

CONSTANTS f1, f2, f3, first, second

PathsMC == {f1, f2, f3}

SlotsMC == {first, second}

Call(mode_, profile_, clients_) ==
  [mode |-> mode_, profile |-> profile_, clients |-> clients_]

UsesMC ==
  {Call("evaluate", "standard", <<>>), Call("evaluate", "standard", <<first>>),
   Call("evaluate", "diagnostic", <<first>>), Call("compare", "expanded", <<first, second>>),
   Call("compare", "standard", <<second, Spare>>), Call("compare", "standard", <<second>>)}

Text(path, size) == [path |-> path, size |-> size, binary |-> FALSE]

Image(path) == [path |-> path, size |-> 1, binary |-> TRUE]

Change(files) == [files |-> files, known |-> TRUE, sections |-> TRUE, shortfall |-> "none"]

Small == Change(<<Text(f1, 1), Text(f2, 1)>>)

\* Requests {f1} {f2 f3}, {f1 f2} {f3}, {f1} {f2}, and {f1} {f2} without f3.
Divided ==
  {Change(<<Text(f1, 2), Text(f2, 1), Text(f3, 1)>>),
   Change(<<Text(f1, 1), Text(f2, 1), Text(f3, 2)>>),
   Change(<<Text(f1, 3), Text(f2, 1)>>),
   Change(<<Text(f1, 2), Text(f2, 2), Text(f3, 1)>>)}

PullsMC ==
  Divided \cup
  {Small, Change(<<Text(f1, 1)>>), Change(<<>>), [Change(<<>>) EXCEPT !.sections = FALSE],
   [Small EXCEPT !.known = FALSE], [Small EXCEPT !.shortfall = "evidence"],
   [Change(<<Text(f1, 3), Text(f2, 1)>>) EXCEPT !.known = FALSE],
   [Change(<<Text(f1, 3), Text(f2, 1)>>) EXCEPT !.shortfall = "input"],
   Change(<<Text(f1, 1), Text(f1, 1)>>), Change(<<Image(f1)>>),
   Change(<<Text(f1, 1), Image(f2)>>)}

Says(v) == [kind |-> "answer", verdict |-> v, not_reviewed |-> {}, reviewed |-> {},
            concerns |-> <<>>, retrieval |-> FALSE, resolves |-> {}]

Omits(answer_, paths) == [answer_ EXCEPT !.not_reviewed = paths]

Defect(path) == [names |-> {path}, siblings |-> {}]

Deferred(path) == [names |-> {path}, siblings |-> {path}]

Raises(concerns) == [Says("CONCERNS") EXCEPT !.concerns = concerns]

AnswersMC ==
  {Omits(Says("PASS"), paths) : paths \in {{}, {f1}, {f2}, {Elsewhere}}} \cup
  {[Says("FAIL") EXCEPT !.retrieval = r] : r \in BOOLEAN} \cup
  {[Says("UNVERIFIABLE_INPUT") EXCEPT !.reviewed = rs] : rs \in {{}, {f1}, PathsMC}} \cup
  {Raises(cs) : cs \in
     {<<>>, <<Defect(f1)>>, <<Deferred(f1)>>, <<Deferred(f2)>>, <<Deferred(f2), Defect(f1)>>,
      <<Deferred(f2), Deferred(f3)>>, <<[names |-> {f1, f2}, siblings |-> {f2}]>>,
      <<[names |-> {}, siblings |-> {f2}]>>}} \cup
  {Omits(Raises(<<Deferred(f2)>>), {f1})}

Resolving(v, resolutions) == [Says(v) EXCEPT !.resolves = resolutions]

Settles(chunk, concern, support) ==
  [chunk |-> chunk, concern |-> concern, support |-> support]

SynthesesMC ==
  {Says(v) : v \in Verdicts} \cup {Omits(Says("PASS"), {f1}), Omits(Says("CONCERNS"), {f2})} \cup
  {Resolving("PASS", rs) : rs \in
     {{Settles(1, 1, {f2})}, {Settles(1, 1, {f2, f3})}, {Settles(2, 1, {f1})},
      {Settles(1, 1, {f2}), Settles(1, 2, {f3})}, {Settles(1, 1, {f2}), Settles(2, 1, {f1})},
      {Settles(1, 1, {f1, f2})}, {Settles(3, 1, {f1}), Settles(1, 3, {f2})}}} \cup
  {Omits(Resolving("PASS", {Settles(1, 1, {f2})}), {f2}),
   Resolving("CONCERNS", {Settles(1, 1, {f2})})}
=============================================================================
