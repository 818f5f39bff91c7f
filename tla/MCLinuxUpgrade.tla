---- MODULE MCLinuxUpgrade ----
\* Two packages, three installations, one step that fails.
EXTENDS LinuxUpgrade
====
