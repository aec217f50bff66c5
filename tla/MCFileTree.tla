----------------------------- MODULE MCFileTree -----------------------------
EXTENDS FileTree

CONSTANTS a, b, c

\* Paths of one to four parts: plain ones, two with an empty part, in the root and
\* in a directory, and two that repeat their last part.
MCPaths == {<<a>>, <<b>>, <<a, b>>, <<b, a>>, <<a, Empty, b>>, <<a, b, Empty, c>>,
            <<a, b, a>>, <<a, a>>}
=============================================================================
