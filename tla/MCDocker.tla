------------------------------- MODULE MCDocker -------------------------------
EXTENDS DockerServerLifecycle

\* Nobody in particular, and an administrator, who gets other mounts and other keys.
TwoRoles == [admin : BOOLEAN, rw : {FALSE}]
=============================================================================
