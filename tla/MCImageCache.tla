---------------------------- MODULE MCImageCache ----------------------------
(* The image cache: one operator after the other into one pool.            *)
EXTENDS ImageCache

\* A registry that publishes a new revision, and a checkout with an edit that the
\* build id of its images does not see.
MCImages ==
  [source: {"ghcr"}, rev: {1, 2}, rest: {1}] \cup [source: {"local"}, rev: {1}, rest: {1, 2}]
=============================================================================
