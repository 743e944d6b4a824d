CONSTANTS
  c1 = c1  c2 = c2  s1 = s1  NoCl = NoCl
  Callers <- MCCallers
  Secrets <- MCSecrets
  DataKeys <- MCDataKeys
  Envs <- MCEnvs
  NoClient <- NoCl
  MaxRV = 2
  MaxGen = 1
SPECIFICATION Spec
INVARIANTS TypeOK ServesReadVersion
