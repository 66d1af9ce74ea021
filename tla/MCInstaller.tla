---------------------------- MODULE MCInstaller ----------------------------
EXTENDS Installer

\* Two roots, and a third destination that is another name of the first.
MCDestinations == {<<1, 2, 1>>}

\* Anything in the first root; nothing, or one content, in the second.
MCInstalled ==
  {roots \in [Targets -> [Files -> Bytes]] : \A t \in Targets \ {1}, f, g \in Files : roots[t][f] = roots[t][g]}

\* Only the equality of contents matters.
MCSymmetry == Permutations(Contents)
=============================================================================
