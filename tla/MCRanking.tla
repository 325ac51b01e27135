------------------------------ MODULE MCRanking ------------------------------
(* Small instances of Ranking for TLC. *)
EXTENDS Ranking, TLC

CONSTANTS A, B, C

Courses == {A, B, C}

\* Primary keys are interchangeable; courses are too where no constant names one.
RoundKeys == Permutations(RoundId) \cup Permutations(Request)
AllKeys == RoundKeys \cup Permutations(Course)
TargetKeys == RoundKeys \cup Permutations({B, C})

Question(l, r, w) == [left |-> l, right |-> r, winner |-> w]

NoAnswers == {<<>>}

\* One question, and its favourite corrected later.
Corrected == {<<Question(A, B, A)>>, <<Question(A, B, B)>>}

\* Two questions that share a course, the second one answered or not.
Overlapping == {<<Question(A, B, B), Question(C, A, C)>>,
                <<Question(A, B, A), Question(C, A, NoCourse)>>}

\* A saved favourite, never changed later.
OneAnswer == {<<Question(A, B, A)>>}
=============================================================================
