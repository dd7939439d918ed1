------------------------------- MODULE ToolSteps -------------------------------
(***************************************************************************)
(* The steps a tool call is made of.  A handler, and an operation of the   *)
(* crates it calls, is a sequence of steps.                                *)
(***************************************************************************)
EXTENDS ToolSchemas, Sequences

\* A step reads the param arg (of a class in ok it is used, in bad refused,
\* otherwise ignored; classes in cut lose digits to an `as` cast), or asks for
\* the capability gate, or may fail with one of codes, or acts on a surface.
\* It is skipped unless the param when has a class in is.
Values == Json \cup {"absent"}
Blank == [arg |-> "", ok |-> {}, bad |-> {}, cut |-> {}, gate |-> "", codes |-> {}, acts |-> "",
          when |-> "", is |-> {}]
Need(f, k)  == <<[Blank EXCEPT !.arg = f, !.ok = k, !.bad = Values \ k, !.codes = {"InvalidParams"}]>>
Check(f, k) == <<[Blank EXCEPT !.arg = f, !.ok = k, !.bad = Json \ k, !.codes = {"InvalidParams"}]>>
OneOf(f, k) == <<[Blank EXCEPT !.arg = f, !.ok = k, !.bad = Str \ k, !.codes = {"InvalidParams"}]>>
Take(f, k)  == <<[Blank EXCEPT !.arg = f, !.ok = k]>>
As(s, width) == <<[s[1] EXCEPT !.cut = s[1].ok \ width]>>
Gate(cap, code) == <<[Blank EXCEPT !.gate = cap, !.codes = {code}]>>
Fail(codes) == <<[Blank EXCEPT !.codes = codes]>>
Act(surface, codes) == <<[Blank EXCEPT !.acts = surface, !.codes = codes]>>
GivenAs(f, k, s) == [i \in DOMAIN s |-> [s[i] EXCEPT !.when = f, !.is = k]]
Given(f, s) == GivenAs(f, Json, s)
================================================================================
