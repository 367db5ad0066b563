------------------------------ MODULE MCArena ------------------------------
EXTENDS Arena, TLC
CONSTANTS t1, t2

Memory(req, align, commit, large) ==
  [req |-> req, align |-> align, commit |-> commit, large |-> large, node |-> 0]
\* reservations without and with a timeout
At(pages, node) == [pages |-> pages, node |-> node, nodes |-> 0, timed |-> FALSE]
Spread(pages, nodes) == [pages |-> pages, node |-> 0, nodes |-> nodes, timed |-> TRUE]

\* One thread that commits and resets parts of its memory; two threads that
\* allocate at the same time; two threads that reserve and use arenas; one that
\* uses arenas whose bitmaps start with a bit set.
Plain ==
  [large_os_pages |-> FALSE, reset_decommits |-> FALSE, areas |-> FALSE, garbage |-> {{}},
   threads |-> {t1, t2}, limit |-> 1, max_fails |-> 0, requests |-> {}, reserve |-> {}]
OneUser(decommits) ==
  [Plain EXCEPT !.reset_decommits = decommits, !.areas = TRUE, !.threads = {t1}, !.max_fails = 1,
                !.requests = {Memory(5, 2, TRUE, FALSE), Memory(3, 1, FALSE, FALSE)}]
TwoUsers ==
  [Plain EXCEPT !.large_os_pages = TRUE, !.limit = 2,
                !.requests = {Memory(4, 2, TRUE, TRUE), Memory(3, 4, FALSE, TRUE),
                              Memory(1, 1, TRUE, FALSE)}]
Reserving ==
  [Plain EXCEPT !.limit = 2, !.reserve = {At(0, 0), At(1, -1), At(3, 1), Spread(3, 2)}]
Arenas ==
  [Plain EXCEPT !.requests = {Memory(8, 1, TRUE, TRUE), Memory(4, 1, TRUE, TRUE)},
                !.reserve = {At(3, 1)}]
TwoArenas ==
  [Plain EXCEPT !.threads = {t1}, !.garbage = {{}, {1}},
                !.requests = {Memory(4, 1, TRUE, TRUE), Memory(8, 1, TRUE, TRUE),
                              Memory(4, 1, TRUE, FALSE)},
                !.reserve = {At(3, -1), Spread(3, 2)}]

AllProcesses == {OneUser(TRUE), OneUser(FALSE), TwoUsers, Reserving, Arenas, TwoArenas}
Perm == Permutations({t1, t2})
=============================================================================
